----------------------------- MODULE VaultProofs -----------------------------
(***************************************************************************)
(* The vault, proved for every value of the constants: its books (types,   *)
(* solvency, accounting of each pool and the payment schedule, none of     *)
(* them inductive by itself; BooksInv is), what signatures and terms are   *)
(* worth, and that it implements StreamEscrow.                             *)
(***************************************************************************)
EXTENDS Vault, FiniteSetTheorems, TLAPS

-----------------------------------------------------------------------------
(* Counting coins.                                                         *)

\* A stack of n coins has n coins.
LEMMA StackSize ==
    ASSUME NEW id, NEW n \in Nat
    PROVE  IsFiniteSet(Stack(id, n)) /\ Cardinality(Stack(id, n)) = n
<1> DEFINE f == [k \in 1..n |-> <<id, k>>]
<1>1. IsFiniteSet(1..n) /\ Cardinality(1..n) = n
  BY FS_Interval
<1>2. f \in Bijection(1..n, Stack(id, n))
  BY DEF Stack, Bijection, Injection, Surjection, IsInjective
<1>3. ExistsBijection(1..n, Stack(id, n))
  BY <1>2 DEF ExistsBijection
<1> QED
  BY <1>1, <1>3, FS_Bijection

\* When one balance changes, the total changes by as much.
LEMMA OneStackChanges ==
    ASSUME NEW f \in [PaycardIds -> Nat], NEW g \in [PaycardIds -> Nat],
           NEW id \in PaycardIds,
           \A j \in PaycardIds \ {id} : g[j] = f[j],
           IsFiniteSet(Coins(f))
    PROVE  /\ IsFiniteSet(Coins(g))
           /\ Cardinality(Coins(g)) = Cardinality(Coins(f)) - f[id] + g[id]
           /\ f[id] <= Cardinality(Coins(f))
<1> DEFINE Rest == Coins(f) \ Stack(id, f[id])
<1>1. Stack(id, f[id]) \subseteq Coins(f)
  BY DEF Coins
<1>2. Rest \cap Stack(id, g[id]) = {}
  <2> SUFFICES ASSUME NEW x \in Rest, x \in Stack(id, g[id]) PROVE FALSE
    OBVIOUS
  <2>1. PICK j \in PaycardIds : x \in Stack(j, f[j])
    BY DEF Coins
  <2>2. j = id
    BY <2>1 DEF Stack
  <2> QED
    BY <2>1, <2>2
<1>3. Coins(g) = Rest \cup Stack(id, g[id])
  <2>1. ASSUME NEW x \in Coins(g) PROVE x \in Rest \cup Stack(id, g[id])
    <3>1. PICK j \in PaycardIds : x \in Stack(j, g[j])
      BY DEF Coins
    <3>2. CASE j = id
      BY <3>1, <3>2
    <3>3. CASE j # id
      <4>1. x \in Stack(j, f[j])
        BY <3>1, <3>3
      <4>2. x \notin Stack(id, f[id])
        BY <3>1, <3>3 DEF Stack
      <4> QED
        BY <4>1, <4>2 DEF Coins
    <3> QED
      BY <3>2, <3>3
  <2>2. ASSUME NEW x \in Rest PROVE x \in Coins(g)
    <3>1. PICK j \in PaycardIds : x \in Stack(j, f[j])
      BY DEF Coins
    <3>2. j # id
      BY <3>1
    <3> QED
      BY <3>1, <3>2 DEF Coins
  <2>3. Stack(id, g[id]) \subseteq Coins(g)
    BY DEF Coins
  <2> QED
    BY <2>1, <2>2, <2>3
<1>4. /\ IsFiniteSet(Rest)
      /\ Cardinality(Rest) = Cardinality(Coins(f)) - f[id]
      /\ f[id] <= Cardinality(Coins(f))
  <2>1. /\ IsFiniteSet(Stack(id, f[id]))
        /\ Cardinality(Stack(id, f[id])) = f[id]
    BY StackSize
  <2>2. IsFiniteSet(Rest)
    BY FS_Subset
  <2>3. /\ Cardinality(Rest \cup Stack(id, f[id])) =
             Cardinality(Rest) + Cardinality(Stack(id, f[id]))
             - Cardinality(Rest \cap Stack(id, f[id]))
    BY <2>1, <2>2, FS_Union
  <2>4. Rest \cup Stack(id, f[id]) = Coins(f) /\ Rest \cap Stack(id, f[id]) = {}
    BY <1>1
  <2>5. Cardinality(Rest) \in Nat /\ Cardinality(Coins(f)) \in Nat
    BY <2>2, FS_CardinalityType
  <2>6. Cardinality(Rest \cap Stack(id, f[id])) = 0
    BY <2>4, FS_EmptySet
  <2>7. Cardinality(Coins(f)) = Cardinality(Rest) + f[id]
    <3>1. Cardinality(Coins(f)) =
            Cardinality(Rest) + Cardinality(Stack(id, f[id])) - 0
      BY <2>3, <2>4, <2>6
    <3> HIDE DEF Rest
    <3> QED
      BY <3>1, <2>1, <2>5
  <2> HIDE DEF Rest
  <2> QED
    BY <2>2, <2>5, <2>7
<1>5. /\ IsFiniteSet(Stack(id, g[id]))
      /\ Cardinality(Stack(id, g[id])) = g[id]
  BY StackSize
<1> HIDE DEF Rest
<1>6. Cardinality(Coins(g)) = Cardinality(Rest) + g[id]
  <2>1. Cardinality(Rest) \in Nat
    BY <1>4, FS_CardinalityType
  <2>2. Cardinality(Rest \cup Stack(id, g[id])) =
            Cardinality(Rest) + Cardinality(Stack(id, g[id]))
            - Cardinality(Rest \cap Stack(id, g[id]))
    BY <1>4, <1>5, FS_Union
  <2>3. Cardinality(Rest \cap Stack(id, g[id])) = 0
    BY <1>2, FS_EmptySet
  <2> QED
    BY <1>3, <1>5, <2>1, <2>2, <2>3
<1>7. IsFiniteSet(Coins(g))
  <2>1. IsFiniteSet(Rest \cup Stack(id, g[id]))
    BY <1>4, <1>5, FS_Union
  <2> QED
    BY <1>3, <2>1
<1>8. Cardinality(Coins(f)) \in Nat
  BY FS_CardinalityType
<1> QED
  BY <1>4, <1>6, <1>7, <1>8

-----------------------------------------------------------------------------
(* Accrual.                                                                *)

\* The provers need this stated apart from its context.
LEMMA Product == \A a, b \in Nat : a * b \in Nat
OBVIOUS

\* What _settlePaycard computes as debt is never negative.
LEMMA DebtType ==
    ASSUME NEW c \in Card, NEW t \in Nat
    PROVE  AccruedDebt(c, t) \in Nat
<1>1. CASE c.lifespan = 0 \/ EvaluatedEpoch(c, t) <= c.checkpoint
  BY <1>1 DEF AccruedDebt, Card
<1>2. CASE c.lifespan # 0 /\ ~(EvaluatedEpoch(c, t) <= c.checkpoint)
  <2>1. EvaluatedEpoch(c, t) - c.checkpoint \in Nat /\ c.velocity \in Nat
    BY <1>2 DEF EvaluatedEpoch, Horizon, Lesser, Card
  <2> QED
    BY <1>2, <2>1, Product DEF AccruedDebt
<1> QED
  BY <1>1, <1>2

\* Moved changes balance, checkpoint and status, and nothing else.
LEMMA MovedCard ==
    ASSUME NEW c \in Card, NEW av \in Nat, NEW cp \in Nat,
           NEW st \in ChannelStatus
    PROVE  /\ Moved(c, av, cp, st) \in Card
           /\ Moved(c, av, cp, st).available = av
           /\ Moved(c, av, cp, st).checkpoint = cp
           /\ Moved(c, av, cp, st).status = st
           /\ Moved(c, av, cp, st).payer = c.payer
           /\ Moved(c, av, cp, st).recipient = c.recipient
           /\ Moved(c, av, cp, st).pool = c.pool
           /\ Moved(c, av, cp, st).velocity = c.velocity
           /\ Moved(c, av, cp, st).genesis = c.genesis
           /\ Moved(c, av, cp, st).lifespan = c.lifespan
           /\ Moved(c, av, cp, st).residual = c.residual
BY DEF Card, Moved

\* The entry that flushResidualDelta leaves behind.
LEMMA ClosedCard ==
    ASSUME NEW c \in Card, NEW cp \in Nat
    PROVE  /\ Moved(c, 0, cp, "Terminated") \in Card
           /\ Moved(c, 0, cp, "Terminated").available = 0
           /\ Moved(c, 0, cp, "Terminated").checkpoint = cp
           /\ Moved(c, 0, cp, "Terminated").status = "Terminated"
           /\ Moved(c, 0, cp, "Terminated").payer = c.payer
           /\ Moved(c, 0, cp, "Terminated").pool = c.pool
BY DEF Card, Moved, ChannelStatus

\* Of two moves the second decides.
LEMMA MovedTwice ==
    ASSUME NEW c \in Card, NEW av, NEW cp, NEW st, NEW av2, NEW cp2, NEW st2
    PROVE  Moved(Moved(c, av, cp, st), av2, cp2, st2) = Moved(c, av2, cp2, st2)
BY DEF Card, Moved

\* An entry is a move of itself.
LEMMA MovedNowhere ==
    ASSUME NEW c \in Card
    PROVE  c = Moved(c, c.available, c.checkpoint, c.status)
BY DEF Card, Moved

\* What _settlePaycard does to an entry: it moves Payout out of the balance and
\* touches nothing but balance, checkpoint and status.
LEMMA SettledEntry ==
    ASSUME NEW c \in Card, NEW t \in Nat
    PROVE  /\ AccruedDebt(c, t) \in Nat
           /\ Payout(c, t) \in Nat
           /\ Payout(c, t) <= c.available
           /\ Residual(c, t) = c.available - Payout(c, t)
           /\ Residual(c, t) \in Nat
           /\ \E cp \in Nat, st \in ChannelStatus :
                 /\ Settled(c, t) = Moved(c, Residual(c, t), cp, st)
                 /\ Flushed(c, t) = Moved(c, 0, cp, "Terminated")
                 /\ AccruedDebt(c, t) = 0 => cp = c.checkpoint /\ st = c.status
                 /\ AccruedDebt(c, t) # 0 =>
                        cp = EvaluatedEpoch(c, t) /\ st = StatusAfter(c, t)
<1> DEFINE av == c.available - Payout(c, t)
<1>1. AccruedDebt(c, t) \in Nat
  BY DebtType
<1>2. EvaluatedEpoch(c, t) \in Nat
  BY DEF EvaluatedEpoch, Horizon, Lesser, Card
<1>3. /\ Payout(c, t) \in Nat
      /\ Payout(c, t) <= c.available
      /\ AccruedDebt(c, t) = 0 => Payout(c, t) = 0
      /\ av \in Nat
  BY <1>1 DEF Payout, Lesser, Card
<1>4. StatusAfter(c, t) \in ChannelStatus
  BY DEF StatusAfter, Card, ChannelStatus
<1>5. PICK cp \in Nat, st \in ChannelStatus :
          /\ Settled(c, t) = Moved(c, av, cp, st)
          /\ AccruedDebt(c, t) = 0 => cp = c.checkpoint /\ st = c.status
          /\ AccruedDebt(c, t) # 0 =>
                 cp = EvaluatedEpoch(c, t) /\ st = StatusAfter(c, t)
  <2>1. CASE AccruedDebt(c, t) = 0
    <3>1. Settled(c, t) = c /\ c.available = av
      BY <1>3, <2>1 DEF Settled, Card
    <3>2. c.checkpoint \in Nat /\ c.status \in ChannelStatus
      BY DEF Card
    <3> QED
      BY <2>1, <3>1, <3>2, MovedNowhere
  <2>2. CASE AccruedDebt(c, t) # 0
    BY <1>2, <1>4, <2>2 DEF Settled
  <2> QED
    BY <2>1, <2>2
<1>6. Settled(c, t).available = av /\ Settled(c, t).checkpoint = cp
  <2>1. av \in Nat /\ Settled(c, t) = Moved(c, av, cp, st)
    BY <1>3, <1>5
  <2> HIDE DEF av
  <2>2. Moved(c, av, cp, st).available = av /\ Moved(c, av, cp, st).checkpoint = cp
    BY <2>1, MovedCard
  <2> QED
    BY <2>1, <2>2
<1>7. Flushed(c, t) = Moved(c, 0, cp, "Terminated")
  BY <1>5, <1>6, MovedTwice DEF Flushed
<1> QED
  BY <1>1, <1>3, <1>5, <1>6, <1>7 DEF Residual

\* The fields of an entry after _settlePaycard.
LEMMA SettledFields ==
    ASSUME NEW c \in Card, NEW t \in Nat, NEW cp \in Nat,
           NEW st \in ChannelStatus, Residual(c, t) \in Nat,
           Settled(c, t) = Moved(c, Residual(c, t), cp, st)
    PROVE  /\ Settled(c, t) \in Card
           /\ Settled(c, t).available = Residual(c, t)
           /\ Settled(c, t).status = st
           /\ Settled(c, t).payer = c.payer
           /\ Settled(c, t).pool = c.pool
<1> DEFINE after == Settled(c, t)
           rest  == Residual(c, t)
<1>1. rest \in Nat /\ after = Moved(c, rest, cp, st)
  OBVIOUS
<1> HIDE DEF after, rest
<1>2. /\ Moved(c, rest, cp, st) \in Card
      /\ Moved(c, rest, cp, st).available = rest
      /\ Moved(c, rest, cp, st).status = st
      /\ Moved(c, rest, cp, st).payer = c.payer
      /\ Moved(c, rest, cp, st).pool = c.pool
  BY <1>1 DEF Moved, Card
<1>3. /\ after \in Card
      /\ after.available = rest
      /\ after.status = st
      /\ after.payer = c.payer
      /\ after.pool = c.pool
  BY <1>1, <1>2
<1> QED
  BY <1>3 DEF after, rest

\* The fields of an entry after flushResidualDelta.
LEMMA FlushedFields ==
    ASSUME NEW c \in Card, NEW t \in Nat, NEW cp \in Nat,
           Flushed(c, t) = Moved(c, 0, cp, "Terminated")
    PROVE  /\ Flushed(c, t) \in Card
           /\ Flushed(c, t).available = 0
           /\ ~Active(Flushed(c, t))
           /\ Flushed(c, t).payer = c.payer
           /\ Flushed(c, t).pool = c.pool
BY ClosedCard DEF Active

\* Inside the window the elapsed time is the distance to genesis.
LEMMA ElapsedInWindow ==
    ASSUME NEW c \in Card, NEW t \in Nat, c.genesis <= t, t <= Horizon(c)
    PROVE  Escrow!Elapsed(c, t) = t - c.genesis
BY DEF Escrow!Elapsed, Escrow!Lesser, Horizon, Card

\* Debts of adjacent intervals add up.
LEMMA Telescope ==
    \A a, b, c, v \in Int : (b - a) * v + (c - b) * v = (c - a) * v
OBVIOUS

\* The entitlement at a later checkpoint is the earlier one plus the debt that
\* _settlePaycard computes from the checkpoint, capped by the pool.
LEMMA EntitlementAdvances ==
    ASSUME NEW c \in Card, NEW t \in Nat, NEW p \in Nat,
           c.lifespan > 0, OnSchedule(c, p, t),
           p + c.available = c.pool, c.available > 0,
           AccruedDebt(c, t) # 0
    PROVE  /\ Escrow!Entitlement(c, EvaluatedEpoch(c, t)) = p + Payout(c, t)
           /\ c.checkpoint < EvaluatedEpoch(c, t)
           /\ EvaluatedEpoch(c, t) \in Nat
           /\ EvaluatedEpoch(c, t) = Lesser(t, Horizon(c))
           /\ Escrow!Entitlement(c, t) = p + Payout(c, t)
<1> DEFINE e == EvaluatedEpoch(c, t)
<1> DEFINE v == c.velocity
<1>1. /\ c.genesis \in Nat /\ c.checkpoint \in Nat /\ c.lifespan \in Nat
      /\ c.velocity \in Nat /\ c.pool \in Nat /\ c.available \in Nat
  BY DEF Card
<1>2. /\ c.genesis <= c.checkpoint /\ c.checkpoint <= Horizon(c)
      /\ Horizon(c) = c.genesis + c.lifespan
      /\ p = Escrow!Entitlement(c, c.checkpoint)
  BY DEF OnSchedule, Horizon
<1>3. /\ e \in Nat /\ c.checkpoint < e /\ e <= Horizon(c) /\ e <= t
      /\ e = Lesser(t, Horizon(c))
      /\ AccruedDebt(c, t) = (e - c.checkpoint) * v
  BY <1>1, <1>2 DEF AccruedDebt, EvaluatedEpoch, Lesser
<1>4. p = (c.checkpoint - c.genesis) * v
  <2>1. Escrow!Elapsed(c, c.checkpoint) = c.checkpoint - c.genesis
    BY <1>1, <1>2, ElapsedInWindow
  <2>2. Escrow!Entitlement(c, c.checkpoint)
          = Escrow!Lesser(c.pool, (c.checkpoint - c.genesis) * v)
    BY <1>1, <2>1 DEF Escrow!Entitlement
  <2>3. (c.checkpoint - c.genesis) * v \in Int
    BY <1>1
  <2> QED
    BY <1>1, <1>2, <2>2, <2>3 DEF Escrow!Lesser
<1>5. p + AccruedDebt(c, t) = (e - c.genesis) * v
  BY <1>1, <1>3, <1>4, Telescope
<1>6. Payout(c, t) = Lesser(AccruedDebt(c, t), c.available)
  BY DEF Payout
<1>7. p + Payout(c, t) = Escrow!Lesser(c.pool, p + AccruedDebt(c, t))
  BY <1>1, <1>6, DebtType DEF Lesser, Escrow!Lesser
<1>8. Escrow!Elapsed(c, e) = e - c.genesis
  BY <1>1, <1>2, <1>3, ElapsedInWindow
<1>9. Escrow!Elapsed(c, t) = e - c.genesis
  BY <1>1, <1>2, <1>3 DEF Escrow!Elapsed, Escrow!Lesser, Lesser
<1>10. /\ Escrow!Entitlement(c, e) = Escrow!Lesser(c.pool, (e - c.genesis) * v)
       /\ Escrow!Entitlement(c, t) = Escrow!Lesser(c.pool, (e - c.genesis) * v)
  BY <1>1, <1>8, <1>9 DEF Escrow!Entitlement
<1> QED
  BY <1>3, <1>5, <1>7, <1>10

\* The schedule depends on the terms, the checkpoint and what was paid.
LEMMA SameTermsSameSchedule ==
    ASSUME NEW c \in Card, NEW cp \in Nat, NEW av \in Nat, NEW st \in ChannelStatus,
           NEW p \in Nat, NEW t \in Nat,
           c.lifespan > 0 =>
               /\ p = Escrow!Entitlement(c, cp)
               /\ c.genesis <= cp /\ cp <= Horizon(c)
               /\ cp > c.genesis => cp <= t
    PROVE  OnSchedule(Moved(c, av, cp, st), p, t)
<1> DEFINE d == Moved(c, av, cp, st)
<1>1. /\ d.checkpoint = cp /\ d.pool = c.pool /\ d.velocity = c.velocity
      /\ d.genesis = c.genesis /\ d.lifespan = c.lifespan
  BY MovedCard
<1> HIDE DEF d
<1>2. Horizon(d) = Horizon(c)
  BY <1>1 DEF Horizon
<1>3. Escrow!Entitlement(d, cp) = Escrow!Entitlement(c, cp)
  BY <1>1 DEF Escrow!Entitlement, Escrow!Elapsed
<1>4. OnSchedule(d, p, t)
  BY <1>1, <1>2, <1>3 DEF OnSchedule
<1> QED
  BY <1>4 DEF d

\* One settlement of an active entry, on its own or ahead of a flush, keeps the
\* entry on schedule and accounted for.
LEMMA SettleKeepsBooks ==
    ASSUME NEW c \in Card, NEW t \in Nat, NEW p \in Nat, NEW r \in Nat,
           OnSchedule(c, p, t), Accounted(c, p, r), Active(c), Opened(c)
    PROVE  /\ OnSchedule(Settled(c, t), p + Payout(c, t), t)
           /\ OnSchedule(Flushed(c, t), p + Payout(c, t), t)
           /\ Accounted(Settled(c, t), p + Payout(c, t), r)
           /\ Accounted(Flushed(c, t), p + Payout(c, t), r + Residual(c, t))
<1>1. PICK cp \in Nat, st \in ChannelStatus :
          /\ Settled(c, t) = Moved(c, Residual(c, t), cp, st)
          /\ Flushed(c, t) = Moved(c, 0, cp, "Terminated")
          /\ AccruedDebt(c, t) = 0 => cp = c.checkpoint /\ st = c.status
          /\ AccruedDebt(c, t) # 0 =>
                 cp = EvaluatedEpoch(c, t) /\ st = StatusAfter(c, t)
  BY SettledEntry
<1>2. /\ AccruedDebt(c, t) \in Nat /\ Payout(c, t) \in Nat
      /\ Payout(c, t) <= c.available
      /\ Residual(c, t) = c.available - Payout(c, t) /\ Residual(c, t) \in Nat
  BY SettledEntry
<1>3. /\ r = 0 /\ c.available > 0 /\ p + c.available = c.pool
      /\ c.available \in Nat /\ c.pool \in Nat /\ c.genesis \in Nat
      /\ c.lifespan \in Nat /\ c.checkpoint \in Nat
  BY DEF Accounted, Card
<1>4. Payout(c, t) = Lesser(AccruedDebt(c, t), c.available)
  BY DEF Payout
<1>5. c.lifespan > 0 =>
          /\ p + Payout(c, t) = Escrow!Entitlement(c, cp)
          /\ c.genesis <= cp /\ cp <= Horizon(c)
          /\ cp > c.genesis => cp <= t
  <2> SUFFICES ASSUME c.lifespan > 0
               PROVE  /\ p + Payout(c, t) = Escrow!Entitlement(c, cp)
                      /\ c.genesis <= cp /\ cp <= Horizon(c)
                      /\ cp > c.genesis => cp <= t
    OBVIOUS
  <2>1. CASE AccruedDebt(c, t) = 0
    BY <1>1, <1>2, <1>3, <1>4, <2>1 DEF OnSchedule, Lesser
  <2>2. CASE AccruedDebt(c, t) # 0
    <3>1. /\ Escrow!Entitlement(c, cp) = p + Payout(c, t)
          /\ c.checkpoint < cp /\ cp = Lesser(t, Horizon(c))
      BY <1>1, <1>3, <2>2, EntitlementAdvances
    <3>2. c.genesis <= c.checkpoint
      BY DEF OnSchedule
    <3> QED
      BY <1>3, <3>1, <3>2 DEF Lesser, Horizon
  <2> QED
    BY <2>1, <2>2
<1>6. p + Payout(c, t) \in Nat
  BY <1>2
<1>7. 0 \in Nat /\ "Terminated" \in ChannelStatus
  BY DEF ChannelStatus
<1>8. OnSchedule(Settled(c, t), p + Payout(c, t), t)
  BY <1>1, <1>2, <1>5, <1>6, SameTermsSameSchedule
<1>9. OnSchedule(Flushed(c, t), p + Payout(c, t), t)
  BY <1>1, <1>5, <1>6, <1>7, SameTermsSameSchedule
<1>10. Accounted(Settled(c, t), p + Payout(c, t), r)
  <2>1. /\ Settled(c, t).available = Residual(c, t)
        /\ Settled(c, t).status = st
        /\ Settled(c, t).pool = c.pool
    BY <1>1, <1>2, SettledFields
  <2>2. st # "Active" => Residual(c, t) = 0
    BY <1>1, <1>2, <1>3, <1>4 DEF StatusAfter, Lesser, Active
  <2>3. st = "Active" => Residual(c, t) > 0
    BY <1>1, <1>2, <1>3, <1>4 DEF StatusAfter, Lesser, Active
  <2> QED
    BY <1>2, <1>3, <2>1, <2>2, <2>3 DEF Accounted, Active
<1>11. Accounted(Flushed(c, t), p + Payout(c, t), r + Residual(c, t))
  <2>1. /\ Flushed(c, t).available = 0
        /\ ~Active(Flushed(c, t))
        /\ Flushed(c, t).pool = c.pool
    BY <1>1, FlushedFields
  <2> QED
    BY <1>2, <1>3, <2>1 DEF Accounted
<1> QED
  BY <1>8, <1>9, <1>10, <1>11

\* Whatever the moment, settling brings the recipient to the entitlement.
LEMMA EntitlementNow ==
    ASSUME NEW c \in Card, NEW t \in Nat, NEW p \in Nat, NEW r \in Nat,
           OnSchedule(c, p, t), Accounted(c, p, r), Active(c), Opened(c)
    PROVE  p + Payout(c, t) = Escrow!Entitlement(c, t)
<1>1. /\ c.available \in Nat /\ c.pool \in Nat /\ c.genesis \in Nat
      /\ c.lifespan \in Nat /\ c.checkpoint \in Nat /\ c.velocity \in Nat
  BY DEF Card
<1>2. r = 0 /\ c.available > 0 /\ p + c.available = c.pool
  BY <1>1 DEF Accounted
<1>3. CASE c.lifespan = 0
  BY <1>1, <1>2, <1>3 DEF Payout, AccruedDebt, Lesser, Escrow!Entitlement
<1>4. CASE c.lifespan > 0 /\ AccruedDebt(c, t) # 0
  BY <1>2, <1>4, EntitlementAdvances
<1>5. CASE c.lifespan > 0 /\ AccruedDebt(c, t) = 0
  <2> DEFINE v == c.velocity
  <2> DEFINE k == c.checkpoint - c.genesis
  <2>1. Payout(c, t) = 0
    BY <1>1, <1>2, <1>5 DEF Payout, Lesser
  <2>2. /\ c.genesis <= c.checkpoint /\ c.checkpoint <= c.genesis + c.lifespan
        /\ c.checkpoint > c.genesis => c.checkpoint <= t
        /\ p = Escrow!Entitlement(c, c.checkpoint)
    BY <1>5 DEF OnSchedule, Horizon
  <2>3. k \in Nat /\ p = Escrow!Lesser(c.pool, k * v) /\ k * v \in Nat
    <3>1. k \in Nat /\ Escrow!Elapsed(c, c.checkpoint) = k
      BY <1>1, <2>2, ElapsedInWindow DEF Horizon
    <3> QED
      BY <1>1, <1>5, <2>2, <3>1, Product DEF Escrow!Entitlement
  <2>4. p = k * v
    BY <1>1, <1>2, <2>3 DEF Escrow!Lesser
  <2>5. Escrow!Elapsed(c, t) * v = k * v
    <3>1. CASE EvaluatedEpoch(c, t) <= c.checkpoint
      <4>1. Escrow!Elapsed(c, t) = k
        BY <1>1, <1>5, <2>2, <3>1
           DEF EvaluatedEpoch, Horizon, Lesser, Escrow!Elapsed, Escrow!Lesser
      <4> QED
        BY <4>1
    <3>2. CASE ~(EvaluatedEpoch(c, t) <= c.checkpoint)
      <4>1. EvaluatedEpoch(c, t) \in Nat
        BY <1>1 DEF EvaluatedEpoch, Horizon, Lesser
      <4>2. (EvaluatedEpoch(c, t) - c.checkpoint) * v = 0
        BY <1>5, <3>2 DEF AccruedDebt
      <4>3. EvaluatedEpoch(c, t) - c.checkpoint > 0
        BY <1>1, <3>2, <4>1
      <4>4. \A a, b \in Nat : a > 0 /\ a * b = 0 => b = 0
        OBVIOUS
      <4>5. v = 0
        BY <1>1, <4>1, <4>2, <4>3, <4>4
      <4>6. Escrow!Elapsed(c, t) \in Nat
        BY <1>1 DEF Escrow!Elapsed, Escrow!Lesser
      <4> QED
        BY <2>3, <4>5, <4>6
    <3> QED
      BY <3>1, <3>2
  <2>6. Escrow!Entitlement(c, t) = Escrow!Lesser(c.pool, k * v)
    BY <1>5, <2>5 DEF Escrow!Entitlement
  <2> QED
    BY <2>1, <2>3, <2>6
<1> QED
  BY <1>1, <1>3, <1>4, <1>5

-----------------------------------------------------------------------------
(* The inductive invariant of the books.                                   *)

\* An id nobody opened reads as the zero entry and has no history.
BlankUntilOpened ==
    \A id \in PaycardIds :
        ~Registered(id) => /\ registry[id] = Blank
                           /\ paid[id] = 0
                           /\ refunded[id] = 0

BooksInv ==
    TypeOK /\ Solvent /\ PoolAccounted /\ PaidPerSchedule /\ BlankUntilOpened

Balances == [id \in PaycardIds |-> registry[id].available]

\* The zero value of the mapping is an entry.
LEMMA BlankIsCard == Blank \in Card
BY DEF Blank, Card, ChannelStatus

\* Changing one balance, and the vault's token balance by as much, keeps the
\* vault solvent and its token balance natural.
LEMMA SolventStep ==
    ASSUME NEW id \in PaycardIds, NEW after \in Card, NEW delta \in Int,
           registry \in [PaycardIds -> Card], Solvent,
           registry' = [registry EXCEPT ![id] = after],
           after.available = registry[id].available + delta,
           escrow' = escrow + delta
    PROVE  Solvent' /\ escrow' \in Nat
<1> DEFINE f == Balances
<1> DEFINE g == [j \in PaycardIds |-> registry'[j].available]
<1>1. f \in [PaycardIds -> Nat] /\ g \in [PaycardIds -> Nat]
  BY DEF Balances, Card
<1>2. \A j \in PaycardIds \ {id} : g[j] = f[j]
  BY DEF Balances
<1>3. f[id] = registry[id].available /\ g[id] = after.available
  BY DEF Balances
<1>4. IsFiniteSet(Coins(f)) /\ escrow = Cardinality(Coins(f))
  BY DEF Solvent, Balances
<1>5. /\ IsFiniteSet(Coins(g))
      /\ Cardinality(Coins(g)) = Cardinality(Coins(f)) - f[id] + g[id]
  <2> HIDE DEF f, g
  <2> QED
    BY <1>1, <1>2, <1>4, OneStackChanges
<1>6. Cardinality(Coins(f)) \in Nat /\ Cardinality(Coins(g)) \in Nat
  BY <1>4, <1>5, FS_CardinalityType
<1>7. f[id] \in Nat /\ g[id] \in Nat
  BY <1>1
<1>8. escrow' = Cardinality(Coins(g))
  <2>1. escrow' = Cardinality(Coins(f)) + delta /\ g[id] = f[id] + delta
    BY <1>3, <1>4
  <2> HIDE DEF f, g
  <2> QED
    BY <1>5, <1>6, <1>7, <2>1
<1> QED
  BY <1>5, <1>6, <1>8 DEF Solvent

\* A step that pays `out` and returns `back` from one entry keeps the books
\* when the entry it leaves behind does.
LEMMA ReleaseKeepsBooks ==
    ASSUME BooksInv, NEW id \in PaycardIds, NEW after \in Card,
           NEW out \in Nat, NEW back \in Nat,
           Release(id, after, out, back),
           after.available = registry[id].available - out - back,
           OnSchedule(after, paid[id] + out, now),
           Accounted(after, paid[id] + out, refunded[id] + back),
           Opened(after)
    PROVE  BooksInv'
<1> USE DEF BooksInv
<1>1. /\ registry' = [registry EXCEPT ![id] = after]
      /\ wallet' = Credit(registry[id], out, back)
      /\ escrow' = escrow - out - back
      /\ paid' = [paid EXCEPT ![id] = paid[id] + out]
      /\ refunded' = [refunded EXCEPT ![id] = refunded[id] + back]
      /\ UNCHANGED <<now, owner, pendingOwner, isPaused, nonces, redeemed>>
  BY DEF Release, admin
<1>2. Solvent' /\ escrow' \in Nat
  <2>1. 0 - out - back \in Int /\ registry[id].available \in Nat /\ escrow \in Nat
    BY DEF TypeOK, Card
  <2>2. /\ after.available = registry[id].available + (0 - out - back)
        /\ escrow' = escrow + (0 - out - back)
    BY <1>1, <2>1
  <2> QED
    BY <1>1, <2>1, <2>2, SolventStep DEF TypeOK
<1>3. TypeOK'
  <2>1. wallet' \in [Accounts -> Nat]
    BY <1>1 DEF Credit, TypeOK
  <2>2. registry' \in [PaycardIds -> Card]
    BY <1>1 DEF TypeOK
  <2>3. paid' \in [PaycardIds -> Nat] /\ refunded' \in [PaycardIds -> Nat]
    BY <1>1 DEF TypeOK
  <2> QED
    BY <1>1, <1>2, <2>1, <2>2, <2>3 DEF TypeOK
<1>4. \A j \in PaycardIds \ {id} :
          registry'[j] = registry[j] /\ paid'[j] = paid[j] /\ refunded'[j] = refunded[j]
  BY <1>1 DEF TypeOK
<1>5. /\ registry'[id] = after /\ paid'[id] = paid[id] + out
      /\ refunded'[id] = refunded[id] + back /\ now' = now
  BY <1>1 DEF TypeOK
<1>6. PoolAccounted' /\ PaidPerSchedule'
  BY <1>4, <1>5 DEF PoolAccounted, PaidPerSchedule
<1>7. BlankUntilOpened'
  BY <1>4, <1>5 DEF BlankUntilOpened, Registered
<1> QED
  BY <1>2, <1>3, <1>6, <1>7

\* The fields of the entry that _openPaycardChannel writes.
LEMMA NewCardFields ==
    ASSUME NEW e \in Envelope, NEW stored \in Accounts
    PROVE  /\ NewCard(e, stored) \in Card
           /\ NewCard(e, stored).payer = e.payer
           /\ NewCard(e, stored).recipient = stored
           /\ NewCard(e, stored).pool = e.pool
           /\ NewCard(e, stored).available = e.pool
           /\ NewCard(e, stored).velocity = e.velocity
           /\ NewCard(e, stored).genesis = e.genesis
           /\ NewCard(e, stored).lifespan = e.lifespan
           /\ NewCard(e, stored).checkpoint = e.genesis
           /\ NewCard(e, stored).residual = e.residual
           /\ NewCard(e, stored).status = "Active"
BY DEF NewCard, Card, Envelope, ChannelStatus

\* The fields of an envelope.
LEMMA EnvelopeFields ==
    ASSUME NEW e \in Envelope
    PROVE  /\ e.id \in PaycardIds /\ e.payer \in Accounts /\ e.pool \in Nat
           /\ e.recipient \in Accounts \cup {Zero}
           /\ e.velocity \in Nat /\ e.genesis \in Nat /\ e.lifespan \in Nat
           /\ e.channel \in Channels /\ e.nonce \in Nat
           /\ e.residual \in Accounts \cup {Zero}
BY DEF Envelope

\* Whatever is submitted is an envelope.
LEMMA SubmittedIsEnvelope == \A e \in Submitted : e \in Envelope
BY VaultAssumption

\* Putting another recipient into an envelope changes nothing else.
LEMMA WithRecipient ==
    ASSUME NEW e \in Envelope, NEW r \in Accounts \cup {Zero}
    PROVE  /\ [e EXCEPT !.recipient = r] \in Envelope
           /\ [e EXCEPT !.recipient = r].id = e.id
           /\ [e EXCEPT !.recipient = r].payer = e.payer
           /\ [e EXCEPT !.recipient = r].recipient = r
           /\ [e EXCEPT !.recipient = r].pool = e.pool
           /\ [e EXCEPT !.recipient = r].velocity = e.velocity
           /\ [e EXCEPT !.recipient = r].genesis = e.genesis
           /\ [e EXCEPT !.recipient = r].lifespan = e.lifespan
           /\ [e EXCEPT !.recipient = r].residual = e.residual
           /\ [e EXCEPT !.recipient = r].channel = e.channel
           /\ [e EXCEPT !.recipient = r].nonce = e.nonce
BY DEF Envelope

\* An entry whose checkpoint is its genesis has paid nothing.
LEMMA NothingAtGenesis ==
    ASSUME NEW c \in Card, NEW t \in Nat, c.checkpoint = c.genesis
    PROVE  OnSchedule(c, 0, t)
<1> SUFFICES ASSUME c.lifespan > 0 PROVE OnSchedule(c, 0, t)
  BY DEF OnSchedule
<1>1. /\ c.genesis \in Nat /\ c.lifespan \in Nat /\ c.velocity \in Nat
      /\ c.pool \in Nat
  BY DEF Card
<1>2. Escrow!Elapsed(c, c.checkpoint) = 0
  BY <1>1 DEF Escrow!Elapsed
<1>3. Escrow!Entitlement(c, c.checkpoint) = 0
  BY <1>1, <1>2 DEF Escrow!Entitlement, Escrow!Lesser
<1> QED
  BY <1>1, <1>3 DEF OnSchedule, Horizon

\* Opening a paycard escrows exactly the pool of its new entry.
LEMMA OpenKeepsBooks ==
    ASSUME BooksInv, NEW e \in Envelope, NEW signed \in Accounts \cup {Zero},
           NEW stored \in Accounts, OpenChannel(e, signed, stored)
    PROVE  BooksInv'
<1> DEFINE c == NewCard(e, stored)
<1> USE DEF BooksInv
<1>1. /\ e.id \in PaycardIds /\ e.payer \in Accounts /\ e.pool \in Nat
      /\ e.channel \in Channels /\ e.nonce \in Nat
  BY EnvelopeFields
<1>2. /\ c \in Card /\ c.available = e.pool /\ c.pool = e.pool
      /\ c.checkpoint = c.genesis /\ c.status = "Active" /\ c.payer = e.payer
  BY NewCardFields
<1> HIDE DEF c
<1>3. /\ ~Registered(e.id) /\ e.pool # 0 /\ wallet[e.payer] >= e.pool
      /\ nonces' = [nonces EXCEPT ![e.payer][e.channel] = e.nonce + 1]
      /\ wallet' = [wallet EXCEPT ![e.payer] = wallet[e.payer] - e.pool]
      /\ escrow' = escrow + e.pool
      /\ registry' = [registry EXCEPT ![e.id] = c]
      /\ redeemed' = redeemed \cup {[e EXCEPT !.recipient = signed]}
      /\ UNCHANGED <<now, owner, pendingOwner, isPaused, paid, refunded>>
  BY DEF OpenChannel, Collision, WellFormed, c, admin
<1>4. /\ registry[e.id] = Blank /\ paid[e.id] = 0 /\ refunded[e.id] = 0
  BY <1>1, <1>3 DEF BlankUntilOpened
<1>5. Solvent' /\ escrow' \in Nat
  <2>1. registry[e.id].available = 0
    BY <1>4 DEF Blank
  <2>2. c.available = registry[e.id].available + e.pool
    BY <1>1, <1>2, <2>1
  <2>3. e.pool \in Int /\ registry \in [PaycardIds -> Card]
    BY <1>1 DEF TypeOK
  <2> QED
    BY <1>1, <1>2, <1>3, <2>2, <2>3, SolventStep
<1>6. TypeOK'
  <2>1. wallet' \in [Accounts -> Nat]
    BY <1>1, <1>3 DEF TypeOK
  <2>2. nonces' \in [Accounts -> [Channels -> Nat]]
    BY <1>1, <1>3 DEF TypeOK
  <2>3. registry' \in [PaycardIds -> Card]
    BY <1>2, <1>3 DEF TypeOK
  <2>4. redeemed' \subseteq Envelope
    BY <1>3, WithRecipient DEF TypeOK
  <2> QED
    BY <1>3, <1>5, <2>1, <2>2, <2>3, <2>4 DEF TypeOK
<1>7. \A j \in PaycardIds \ {e.id} : registry'[j] = registry[j]
  BY <1>3 DEF TypeOK
<1>8. registry'[e.id] = c
  BY <1>1, <1>3 DEF TypeOK
<1>9. OnSchedule(c, paid[e.id], now) /\ Accounted(c, paid[e.id], refunded[e.id])
  <2>1. OnSchedule(c, 0, now)
    BY <1>2, NothingAtGenesis DEF TypeOK
  <2> QED
    BY <1>1, <1>2, <1>3, <1>4, <2>1 DEF Accounted, Active
<1>10. PoolAccounted' /\ PaidPerSchedule'
  BY <1>3, <1>7, <1>8, <1>9 DEF PoolAccounted, PaidPerSchedule
<1>11. BlankUntilOpened'
  <2>1. Opened(c)
    BY <1>1, <1>2, VaultAssumption DEF Opened
  <2> QED
    BY <1>3, <1>7, <1>8, <2>1 DEF BlankUntilOpened, Registered
<1> QED
  BY <1>5, <1>6, <1>10, <1>11

\* Settling an id nobody registered changes nothing.
LEMMA SettleBlank ==
    ASSUME TypeOK, NEW id \in PaycardIds, registry[id] = Blank,
           ProcessDripSettle(id)
    PROVE  UNCHANGED vars
<1>1. AccruedDebt(Blank, now) = 0
  BY DEF AccruedDebt, Blank
<1>2. Payout(Blank, now) = 0
  BY <1>1 DEF Payout, Lesser, Blank
<1>3. Settled(Blank, now) = Blank
  BY <1>1 DEF Settled
<1>4. Release(id, Blank, 0, 0)
  BY <1>2, <1>3 DEF ProcessDripSettle
<1>5. wallet' = wallet
  <2>1. \A a \in Accounts : wallet[a] \in Nat
    BY DEF TypeOK
  <2>2. wallet' = [a \in Accounts |-> wallet[a]]
    BY <1>4, <2>1 DEF Release, Credit
  <2> QED
    BY <2>2 DEF TypeOK
<1>6. /\ registry' = registry /\ escrow' = escrow
      /\ paid' = paid /\ refunded' = refunded
  BY <1>4 DEF Release, TypeOK
<1> QED
  BY <1>4, <1>5, <1>6 DEF Release, vars, admin

\* processDripSettle keeps the books.
LEMMA SettleKeepsInvariant ==
    ASSUME BooksInv, NEW id \in PaycardIds, ProcessDripSettle(id)
    PROVE  BooksInv'
<1> DEFINE c == registry[id]
<1>1. /\ c \in Card /\ now \in Nat /\ paid[id] \in Nat /\ refunded[id] \in Nat
      /\ OnSchedule(c, paid[id], now) /\ Accounted(c, paid[id], refunded[id])
  BY DEF BooksInv, TypeOK, PoolAccounted, PaidPerSchedule
<1>2. Active(c) /\ Release(id, Settled(c, now), Payout(c, now), 0)
  BY DEF ProcessDripSettle, MaySettle
<1>3. CASE Registered(id)
  <2>1. Opened(c)
    BY <1>3 DEF Registered
  <2> HIDE DEF c
  <2>2. /\ OnSchedule(Settled(c, now), paid[id] + Payout(c, now), now)
        /\ Accounted(Settled(c, now), paid[id] + Payout(c, now), refunded[id] + 0)
    BY <1>1, <1>2, <2>1, SettleKeepsBooks
  <2>3. /\ Settled(c, now) \in Card /\ Payout(c, now) \in Nat
        /\ Settled(c, now).available = c.available - Payout(c, now) - 0
        /\ Opened(Settled(c, now))
    <3>1. PICK cp \in Nat, st \in ChannelStatus :
              Settled(c, now) = Moved(c, Residual(c, now), cp, st)
      BY <1>1, SettledEntry
    <3>2. /\ Residual(c, now) = c.available - Payout(c, now)
          /\ Residual(c, now) \in Nat /\ Payout(c, now) \in Nat
      BY <1>1, SettledEntry
    <3>3. /\ Settled(c, now) \in Card
          /\ Settled(c, now).available = Residual(c, now)
          /\ Settled(c, now).payer = c.payer
      BY <1>1, <3>1, <3>2, SettledFields
    <3>4. c.available \in Nat
      BY <1>1 DEF Card
    <3> QED
      BY <2>1, <3>2, <3>3, <3>4 DEF Opened
  <2> QED
    BY <1>2, <2>2, <2>3, ReleaseKeepsBooks DEF c
<1>4. CASE ~Registered(id)
  <2>1. UNCHANGED vars
    BY <1>4, SettleBlank DEF BooksInv, BlankUntilOpened
  <2> QED
    BY <2>1 DEF vars, BooksInv, TypeOK, Solvent, PoolAccounted, PaidPerSchedule,
                BlankUntilOpened, Registered
<1> QED
  BY <1>3, <1>4

\* flushResidualDelta keeps the books, and only works on a registered id.
LEMMA FlushKeepsInvariant ==
    ASSUME BooksInv, NEW caller \in Accounts, NEW id \in PaycardIds,
           FlushResidualDelta(caller, id)
    PROVE  BooksInv' /\ Registered(id)
<1> DEFINE c == registry[id]
<1>1. /\ c \in Card /\ now \in Nat /\ paid[id] \in Nat /\ refunded[id] \in Nat
      /\ OnSchedule(c, paid[id], now) /\ Accounted(c, paid[id], refunded[id])
  BY DEF BooksInv, TypeOK, PoolAccounted, PaidPerSchedule
<1>2. /\ Active(c) /\ caller \in {c.payer, c.recipient}
      /\ Release(id, Flushed(c, now), Payout(c, now), Residual(c, now))
  BY DEF FlushResidualDelta
<1>3. Opened(c)
  <2>1. ASSUME ~Opened(c) PROVE FALSE
    <3>1. c = Blank
      BY <2>1 DEF BooksInv, BlankUntilOpened, Registered
    <3>2. c.payer = Zero /\ c.recipient = Zero
      BY <3>1 DEF Blank
    <3> QED
      BY <1>2, <3>2, VaultAssumption
  <2> QED
    BY <2>1
<1>4. Registered(id)
  BY <1>3 DEF Registered
<1> HIDE DEF c
<1>5. /\ OnSchedule(Flushed(c, now), paid[id] + Payout(c, now), now)
      /\ Accounted(Flushed(c, now), paid[id] + Payout(c, now),
                   refunded[id] + Residual(c, now))
  BY <1>1, <1>2, <1>3, SettleKeepsBooks
<1>6. /\ Flushed(c, now) \in Card /\ Payout(c, now) \in Nat
      /\ Residual(c, now) \in Nat
      /\ Flushed(c, now).available = c.available - Payout(c, now) - Residual(c, now)
      /\ Opened(Flushed(c, now))
  <2>1. PICK cp \in Nat : Flushed(c, now) = Moved(c, 0, cp, "Terminated")
    BY <1>1, SettledEntry
  <2>2. /\ Residual(c, now) = c.available - Payout(c, now)
        /\ Residual(c, now) \in Nat /\ Payout(c, now) \in Nat
    BY <1>1, SettledEntry
  <2>3. /\ Flushed(c, now) \in Card /\ Flushed(c, now).available = 0
        /\ Flushed(c, now).payer = c.payer
    BY <1>1, <2>1, FlushedFields
  <2>4. c.available \in Nat
    BY <1>1 DEF Card
  <2> QED
    BY <1>3, <2>2, <2>3, <2>4 DEF Opened
<1> QED
  BY <1>2, <1>4, <1>5, <1>6, ReleaseKeepsBooks DEF c

\* Time passing leaves the schedule intact: checkpoints stay behind the clock.
LEMMA TickKeepsInvariant == BooksInv /\ Tick => BooksInv'
<1> SUFFICES ASSUME BooksInv, Tick PROVE BooksInv'
  OBVIOUS
<1>1. /\ now' = now + 1 /\ now \in Nat
      /\ UNCHANGED <<owner, pendingOwner, isPaused, nonces, registry, wallet,
                     escrow, paid, refunded, redeemed>>
  BY DEF Tick, admin, money, BooksInv, TypeOK
<1>2. PaidPerSchedule'
  <2> SUFFICES ASSUME NEW id \in PaycardIds
               PROVE  OnSchedule(registry[id], paid[id], now')
    BY <1>1 DEF PaidPerSchedule
  <2>1. OnSchedule(registry[id], paid[id], now)
    BY DEF BooksInv, PaidPerSchedule
  <2>2. registry[id].checkpoint \in Nat
    BY DEF BooksInv, TypeOK, Card
  <2> QED
    BY <1>1, <2>1, <2>2 DEF OnSchedule
<1> QED
  BY <1>1, <1>2 DEF BooksInv, TypeOK, Solvent, PoolAccounted, BlankUntilOpened,
                    Registered

\* The books hold before the first call.
LEMMA BooksInitially == Init => BooksInv
<1> SUFFICES ASSUME Init PROVE BooksInv
  OBVIOUS
<1>1. registry = [id \in PaycardIds |-> Blank] /\ Blank \in Card
  BY BlankIsCard DEF Init
<1>2. TypeOK
  BY <1>1, VaultAssumption DEF Init, TypeOK
<1>3. Solvent
  <2> DEFINE f == [id \in PaycardIds |-> registry[id].available]
  <2>1. \A id \in PaycardIds : f[id] = 0
    BY <1>1 DEF Blank
  <2>2. Coins(f) = {}
    BY <2>1 DEF Coins, Stack
  <2> QED
    BY <2>2, FS_EmptySet DEF Solvent, Init
<1>4. \A id \in PaycardIds :
          ~Registered(id) /\ paid[id] = 0 /\ refunded[id] = 0 /\ registry[id] = Blank
  BY <1>1 DEF Registered, Opened, Blank, Init
<1>5. PoolAccounted /\ PaidPerSchedule
  <2>1. Accounted(Blank, 0, 0)
    BY DEF Accounted, Active, Opened, Blank
  <2>2. OnSchedule(Blank, 0, now)
    BY DEF OnSchedule, Blank
  <2> QED
    BY <1>4, <2>1, <2>2 DEF PoolAccounted, PaidPerSchedule
<1> QED
  BY <1>2, <1>3, <1>4, <1>5 DEF BooksInv, BlankUntilOpened

\* The books are an inductive invariant of the vault.
LEMMA BooksStep == BooksInv /\ [Next]_vars => BooksInv'
<1> SUFFICES ASSUME BooksInv, [Next]_vars PROVE BooksInv'
  OBVIOUS
<1>1. ASSUME UNCHANGED <<now, nonces, registry, wallet, escrow, paid, refunded,
                         redeemed>>,
             owner' \in Accounts, pendingOwner' \in Accounts \cup {Zero},
             isPaused' \in BOOLEAN
      PROVE  BooksInv'
  BY <1>1 DEF BooksInv, TypeOK, Solvent, PoolAccounted, PaidPerSchedule,
              BlankUntilOpened, Registered
<1>2. CASE Tick
  BY <1>2, TickKeepsInvariant
<1>3. ASSUME NEW e \in Submitted, OpenPaycardChannel(e) PROVE BooksInv'
  <2>1. e \in Envelope /\ e.recipient \in Accounts
    BY <1>3, SubmittedIsEnvelope, EnvelopeFields DEF OpenPaycardChannel
  <2> QED
    BY <1>3, <2>1, OpenKeepsBooks DEF OpenPaycardChannel
<1>4. ASSUME NEW e \in Submitted, NEW a \in Accounts,
             ClaimWildcardPaycardChannel(e, a)
      PROVE  BooksInv'
  BY <1>4, SubmittedIsEnvelope, OpenKeepsBooks DEF ClaimWildcardPaycardChannel
<1>5. ASSUME NEW id \in PaycardIds, ProcessDripSettle(id) PROVE BooksInv'
  BY <1>5, SettleKeepsInvariant
<1>6. ASSUME NEW a \in Accounts, NEW id \in PaycardIds, FlushResidualDelta(a, id)
      PROVE  BooksInv'
  BY <1>6, FlushKeepsInvariant
<1>7. ASSUME NEW a \in Accounts, TransferOwnership(a) PROVE BooksInv'
  BY <1>1, <1>7 DEF TransferOwnership, money, BooksInv, TypeOK
<1>8. CASE AcceptOwnership
  BY <1>1, <1>8 DEF AcceptOwnership, money, BooksInv, TypeOK
<1>9. CASE Pause
  BY <1>1, <1>9 DEF Pause, money, BooksInv, TypeOK
<1>10. CASE Unpause
  BY <1>1, <1>10 DEF Unpause, money, BooksInv, TypeOK
<1>11. CASE UNCHANGED vars
  BY <1>1, <1>11 DEF vars, BooksInv, TypeOK
<1> QED
  BY <1>2, <1>3, <1>4, <1>5, <1>6, <1>7, <1>8, <1>9, <1>10, <1>11 DEF Next

\* The books hold in every reachable state of the vault, for any number of
\* accounts, paycards, envelopes and seconds.
THEOREM BooksAlways == Spec => []BooksInv
  BY BooksInitially, BooksStep, PTL DEF Spec

\* Every reachable state is well typed: no balance, total or nonce of the vault
\* ever leaves the naturals.
THEOREM TypeAlways == Spec => []TypeOK
<1>1. BooksInv => TypeOK
  BY DEF BooksInv
<1> QED
  BY <1>1, BooksAlways, PTL

\* The token balance of the vault is the sum of what its paycards still hold.
THEOREM SolventAlways == Spec => []Solvent
<1>1. BooksInv => Solvent
  BY DEF BooksInv
<1> QED
  BY <1>1, BooksAlways, PTL

\* Paid, refunded and held add up to the pool of each paycard.
THEOREM PoolAccountedAlways == Spec => []PoolAccounted
<1>1. BooksInv => PoolAccounted
  BY DEF BooksInv
<1> QED
  BY <1>1, BooksAlways, PTL

\* What processDripSettle has paid is the entitlement at the checkpoint,
\* whatever the number and the times of its calls.
THEOREM PaidPerScheduleAlways == Spec => []PaidPerSchedule
<1>1. BooksInv => PaidPerSchedule
  BY DEF BooksInv
<1> QED
  BY <1>1, BooksAlways, PTL

\* A stream whose rate fits a word over its lifespan never gets stuck: no
\* settlement of it, however late, overflows.
THEOREM ClosableWithinWordAlways == Spec => []ClosableWithinWord
<1>1. ASSUME BooksInv
      PROVE  ClosableWithinWord
  <2> SUFFICES ASSUME NEW id \in PaycardIds, registry[id].lifespan > 0,
                      registry[id].velocity * registry[id].lifespan <= MaxWord
               PROVE  AccruedDebt(registry[id], now) <= MaxWord
    BY DEF ClosableWithinWord, Representable
  <2> DEFINE c == registry[id]
             upto == EvaluatedEpoch(c, now)
  <2>1. c \in Card /\ now \in Nat /\ MaxWord \in Nat
    BY <1>1, VaultAssumption DEF BooksInv, TypeOK
  <2>2. c.genesis <= c.checkpoint
    BY <1>1 DEF BooksInv, PaidPerSchedule, OnSchedule
  <2>3. CASE upto <= c.checkpoint
    BY <2>1, <2>3 DEF AccruedDebt, Card
  <2>4. CASE ~(upto <= c.checkpoint)
    <3> DEFINE elapsed == upto - c.checkpoint
    <3>1. elapsed \in Nat /\ c.velocity \in Nat /\ c.lifespan - elapsed \in Nat
      BY <2>1, <2>2, <2>4 DEF EvaluatedEpoch, Horizon, Lesser, Card
    <3>2. /\ elapsed * c.velocity \in Nat
          /\ (c.lifespan - elapsed) * c.velocity \in Nat
          /\ c.velocity * c.lifespan \in Nat
      BY <2>1, <3>1, Product DEF Card
    <3>3. c.velocity * c.lifespan
            = elapsed * c.velocity + (c.lifespan - elapsed) * c.velocity
      BY <2>1, <3>1 DEF Card
    <3>4. AccruedDebt(c, now) = elapsed * c.velocity
      BY <2>1, <2>4 DEF AccruedDebt, Card
    <3> QED
      BY <2>1, <3>2, <3>3, <3>4
  <2> QED
    BY <2>3, <2>4
<1> QED
  BY <1>1, BooksAlways, PTL

-----------------------------------------------------------------------------
(* Signatures and terms: signatures are spent one by one, entries are as   *)
(* signed and stay so, and closing a stream takes nothing that was earned. *)

\* A step that opens nothing: no signature is spent and entries keep their
\* terms, the terminated ones their whole content.
Quiet ==
    /\ UNCHANGED <<nonces, redeemed>>
    /\ \A id \in PaycardIds :
          /\ \E av, cp \in Nat, st \in ChannelStatus :
                registry'[id] = Moved(registry[id], av, cp, st)
          /\ ~Active(registry[id]) => registry'[id] = registry[id]

\* When the registry does not change and no signature is spent, it is quiet.
LEMMA StillIsQuiet ==
    ASSUME TypeOK, UNCHANGED <<nonces, registry, redeemed>>
    PROVE  Quiet
<1> SUFFICES ASSUME NEW id \in PaycardIds
             PROVE  \E av, cp \in Nat, st \in ChannelStatus :
                        registry'[id] = Moved(registry[id], av, cp, st)
  BY DEF Quiet
<1>1. /\ registry[id] \in Card
      /\ registry[id].available \in Nat /\ registry[id].checkpoint \in Nat
      /\ registry[id].status \in ChannelStatus
  BY DEF TypeOK, Card
<1> QED
  BY <1>1, MovedNowhere

\* Releasing tokens of an active entry is quiet if it only moves that entry.
LEMMA ReleaseIsQuiet ==
    ASSUME TypeOK, NEW id \in PaycardIds, NEW out, NEW back,
           NEW av \in Nat, NEW cp \in Nat, NEW st \in ChannelStatus,
           Active(registry[id]),
           Release(id, Moved(registry[id], av, cp, st), out, back)
    PROVE  Quiet
<1> DEFINE after == Moved(registry[id], av, cp, st)
<1>1. /\ registry' = [registry EXCEPT ![id] = after]
      /\ UNCHANGED <<nonces, redeemed>>
  BY DEF Release
<1> SUFFICES ASSUME NEW j \in PaycardIds
             PROVE  /\ \E av2, cp2 \in Nat, st2 \in ChannelStatus :
                          registry'[j] = Moved(registry[j], av2, cp2, st2)
                    /\ ~Active(registry[j]) => registry'[j] = registry[j]
  BY <1>1 DEF Quiet
<1>2. CASE j = id
  <2>1. registry'[id] = after
    BY <1>1 DEF TypeOK
  <2> QED
    BY <1>2, <2>1
<1>3. CASE j # id
  <2>1. registry'[j] = registry[j]
    BY <1>1, <1>3 DEF TypeOK
  <2>2. /\ registry[j] \in Card
        /\ registry[j].available \in Nat /\ registry[j].checkpoint \in Nat
        /\ registry[j].status \in ChannelStatus
    BY DEF TypeOK, Card
  <2> QED
    BY <2>1, <2>2, MovedNowhere
<1> QED
  BY <1>2, <1>3

\* Every step of the vault opens a paycard or is quiet.
LEMMA OpensOrQuiet ==
    ASSUME BooksInv, [Next]_vars
    PROVE  \/ Quiet
           \/ \E e \in Submitted, signed \in Accounts \cup {Zero}, stored \in Accounts :
                 /\ OpenChannel(e, signed, stored)
                 /\ signed \in {stored, Zero}
<1> USE DEF BooksInv
<1>1. ASSUME NEW e \in Submitted, OpenPaycardChannel(e)
      PROVE  /\ e.recipient \in Accounts
             /\ OpenChannel(e, e.recipient, e.recipient)
  BY <1>1, SubmittedIsEnvelope, EnvelopeFields DEF OpenPaycardChannel
<1>2. ASSUME NEW e \in Submitted, NEW a \in Accounts,
             ClaimWildcardPaycardChannel(e, a)
      PROVE  OpenChannel(e, Zero, a)
  BY <1>2 DEF ClaimWildcardPaycardChannel
<1>3. ASSUME NEW id \in PaycardIds, ProcessDripSettle(id) PROVE Quiet
  <2> DEFINE c == registry[id]
  <2>1. c \in Card /\ now \in Nat
    BY DEF TypeOK
  <2>2. Active(c) /\ Release(id, Settled(c, now), Payout(c, now), 0)
    BY <1>3 DEF ProcessDripSettle, MaySettle
  <2>3. Residual(c, now) \in Nat /\ \E cp \in Nat, st \in ChannelStatus :
            Settled(c, now) = Moved(c, Residual(c, now), cp, st)
    BY <2>1, SettledEntry
  <2> QED
    BY <2>2, <2>3, ReleaseIsQuiet
<1>4. ASSUME NEW a \in Accounts, NEW id \in PaycardIds, FlushResidualDelta(a, id)
      PROVE  Quiet
  <2> DEFINE c == registry[id]
  <2>1. c \in Card /\ now \in Nat
    BY DEF TypeOK
  <2>2. Active(c) /\ Release(id, Flushed(c, now), Payout(c, now), Residual(c, now))
    BY <1>4 DEF FlushResidualDelta
  <2>3. \E cp \in Nat : Flushed(c, now) = Moved(c, 0, cp, "Terminated")
    BY <2>1, SettledEntry
  <2>4. 0 \in Nat /\ "Terminated" \in ChannelStatus
    BY DEF ChannelStatus
  <2> QED
    BY <2>2, <2>3, <2>4, ReleaseIsQuiet
<1>5. CASE Tick \/ AcceptOwnership \/ Pause \/ Unpause \/ UNCHANGED vars
           \/ \E a \in Accounts : TransferOwnership(a)
  BY <1>5, StillIsQuiet
     DEF Tick, AcceptOwnership, Pause, Unpause, vars, TransferOwnership, money
<1> QED
  BY <1>1, <1>2, <1>3, <1>4, <1>5 DEF Next

-----------------------------------------------------------------------------
(* Terms and refunds.                                                      *)

\* A paycard's terms never change and a terminated paycard never comes back.
THEOREM TermsFrozenAlways == Spec => TermsFrozen
<1>1. BooksInv /\ [Next]_vars =>
         \A id \in PaycardIds : Registered(id) =>
          /\ LET new == registry'[id] IN
             new = Moved(registry[id], new.available, new.checkpoint, new.status)
          /\ ~Active(registry[id]) => registry'[id] = registry[id]
  <2> SUFFICES ASSUME BooksInv, [Next]_vars, NEW id \in PaycardIds, Registered(id)
      PROVE
          /\ registry'[id] = Moved(registry[id], registry'[id].available,
                                   registry'[id].checkpoint, registry'[id].status)
          /\ ~Active(registry[id]) => registry'[id] = registry[id]
    OBVIOUS
  <2>1. CASE Quiet
    <3>1. PICK av \in Nat, cp \in Nat, st \in ChannelStatus :
              registry'[id] = Moved(registry[id], av, cp, st)
      BY <2>1 DEF Quiet
    <3>2. registry[id] \in Card
      BY DEF BooksInv, TypeOK
    <3>3. /\ registry'[id].available = av /\ registry'[id].checkpoint = cp
          /\ registry'[id].status = st
      BY <3>1, <3>2, MovedCard
    <3> QED
      BY <2>1, <3>1, <3>3 DEF Quiet
  <2>2. ASSUME NEW e \in Submitted, NEW signed \in Accounts \cup {Zero},
               NEW stored \in Accounts, OpenChannel(e, signed, stored)
        PROVE  registry'[id] = registry[id]
    <3>1. ~Registered(e.id) /\ registry' = [registry EXCEPT ![e.id] = NewCard(e, stored)]
      BY <2>2 DEF OpenChannel, Collision
    <3> QED
      BY <3>1 DEF BooksInv, TypeOK
  <2>3. registry[id] \in Card
    BY DEF BooksInv, TypeOK
  <2> QED
    BY <2>1, <2>2, <2>3, OpensOrQuiet, MovedNowhere
<1> QED
  BY <1>1, BooksAlways, PTL DEF TermsFrozen, Spec

\* A refund only happens in a flush, and leaves the recipient paid in full up
\* to that block.
THEOREM NoClawbackAlways == Spec => NoClawback
<1>1. BooksInv /\ [Next]_vars =>
         \A id \in PaycardIds : refunded'[id] # refunded[id] =>
          /\ paid'[id] = Escrow!Entitlement(registry[id], now)
          /\ ~Active(registry'[id])
  <2> SUFFICES ASSUME BooksInv, [Next]_vars, NEW id \in PaycardIds,
                      refunded'[id] # refunded[id]
      PROVE  /\ paid'[id] = Escrow!Entitlement(registry[id], now)
             /\ ~Active(registry'[id])
    OBVIOUS
  <2> DEFINE c == registry[id]
  <2>1. \E a \in Accounts : FlushResidualDelta(a, id)
    <3>1. ~UNCHANGED refunded
      OBVIOUS
    <3>2. ASSUME NEW j \in PaycardIds, ProcessDripSettle(j) PROVE FALSE
      <4>1. refunded' = [refunded EXCEPT ![j] = refunded[j] + 0]
        BY <3>2 DEF ProcessDripSettle, Release
      <4> QED
        BY <4>1 DEF BooksInv, TypeOK
    <3>3. ASSUME NEW a \in Accounts, NEW j \in PaycardIds, j # id,
                 FlushResidualDelta(a, j)
          PROVE  FALSE
      <4>1. refunded' = [refunded EXCEPT ![j] = refunded[j] + Residual(registry[j], now)]
        BY <3>3 DEF FlushResidualDelta, Release
      <4> QED
        BY <3>3, <4>1 DEF BooksInv, TypeOK
    <3> QED
      BY <3>1, <3>2, <3>3
         DEF Next, Tick, AcceptOwnership, Pause, Unpause, vars, TransferOwnership,
             money, OpenPaycardChannel, ClaimWildcardPaycardChannel, OpenChannel
  <2>2. PICK a \in Accounts : FlushResidualDelta(a, id)
    BY <2>1
  <2>3. Registered(id) /\ Active(c)
    BY <2>2, FlushKeepsInvariant DEF FlushResidualDelta
  <2>4. /\ c \in Card /\ now \in Nat /\ paid[id] \in Nat /\ refunded[id] \in Nat
        /\ OnSchedule(c, paid[id], now) /\ Accounted(c, paid[id], refunded[id])
        /\ Opened(c)
    BY <2>3 DEF BooksInv, TypeOK, PoolAccounted, PaidPerSchedule, Registered
  <2>5. /\ paid' = [paid EXCEPT ![id] = paid[id] + Payout(c, now)]
        /\ registry' = [registry EXCEPT ![id] = Flushed(c, now)]
    BY <2>2 DEF FlushResidualDelta, Release
  <2>6. paid[id] + Payout(c, now) = Escrow!Entitlement(c, now)
    <3> HIDE DEF c
    <3> QED
      BY <2>3, <2>4, EntitlementNow
  <2>7. ~Active(Flushed(c, now))
    <3> HIDE DEF c
    <3>1. PICK cp \in Nat : Flushed(c, now) = Moved(c, 0, cp, "Terminated")
      BY <2>4, SettledEntry
    <3> QED
      BY <2>4, <3>1, FlushedFields
  <2> QED
    BY <2>5, <2>6, <2>7 DEF BooksInv, TypeOK
<1> QED
  BY <1>1, BooksAlways, PTL DEF NoClawback, Spec

-----------------------------------------------------------------------------
(* Signatures.                                                             *)

Spent(a, ch) == {e \in redeemed : e.payer = a /\ e.channel = ch}

\* Spending the next nonce of a track keeps every track linear.
LEMMA OpenSpendsNext ==
    ASSUME TypeOK, NonceTrackLinear, NEW e \in Envelope,
           NEW signed \in Accounts \cup {Zero}, NEW stored \in Accounts,
           OpenChannel(e, signed, stored)
    PROVE  NonceTrackLinear'
<1> DEFINE s == [e EXCEPT !.recipient = signed]
<1>1. /\ e.payer \in Accounts /\ e.channel \in Channels /\ e.nonce \in Nat
      /\ s.payer = e.payer /\ s.channel = e.channel /\ s.nonce = e.nonce
  BY EnvelopeFields, WithRecipient
<1>2. /\ nonces[e.payer][e.channel] = e.nonce
      /\ nonces' = [nonces EXCEPT ![e.payer][e.channel] = e.nonce + 1]
      /\ redeemed' = redeemed \cup {s}
  BY DEF OpenChannel, NonceExpected
<1> HIDE DEF s
<1> SUFFICES ASSUME NEW a \in Accounts, NEW ch \in Channels
             PROVE  /\ {f.nonce : f \in Spent(a, ch)'} = 0..(nonces'[a][ch] - 1)
                    /\ \A f, g \in Spent(a, ch)' : f.nonce = g.nonce => f = g
  BY DEF NonceTrackLinear, Spent
<1>3. /\ {f.nonce : f \in Spent(a, ch)} = 0..(nonces[a][ch] - 1)
      /\ \A f, g \in Spent(a, ch) : f.nonce = g.nonce => f = g
      /\ nonces[a][ch] \in Nat
  BY DEF NonceTrackLinear, Spent, TypeOK
<1>4. CASE a = e.payer /\ ch = e.channel
  <2>1. Spent(a, ch)' = Spent(a, ch) \cup {s}
    BY <1>1, <1>2, <1>4 DEF Spent
  <2>2. nonces[a][ch] = e.nonce /\ nonces'[a][ch] = e.nonce + 1
    BY <1>1, <1>2, <1>4 DEF TypeOK
  <2>3. {f.nonce : f \in Spent(a, ch)'} = 0..(e.nonce - 1) \cup {e.nonce}
    <3>1. {f.nonce : f \in Spent(a, ch)'} = {f.nonce : f \in Spent(a, ch)} \cup {s.nonce}
      BY <2>1
    <3> QED
      BY <1>1, <1>3, <2>2, <3>1
  <2>4. 0..(e.nonce - 1) \cup {e.nonce} = 0..((e.nonce + 1) - 1)
    BY <1>1
  <2>5. \A f \in Spent(a, ch) : f.nonce # e.nonce
    <3> SUFFICES ASSUME NEW f \in Spent(a, ch) PROVE f.nonce # e.nonce
      OBVIOUS
    <3>1. f.nonce \in 0..(e.nonce - 1)
      BY <1>3, <2>2
    <3> QED
      BY <1>1, <3>1
  <2> QED
    BY <1>1, <1>3, <2>1, <2>2, <2>3, <2>4, <2>5
<1>5. CASE ~(a = e.payer /\ ch = e.channel)
  <2>1. Spent(a, ch)' = Spent(a, ch)
    BY <1>1, <1>2, <1>5 DEF Spent
  <2>2. nonces'[a][ch] = nonces[a][ch]
    BY <1>1, <1>2, <1>5 DEF TypeOK
  <2> QED
    BY <1>3, <2>1, <2>2
<1> QED
  BY <1>4, <1>5

\* On every nonce track the redeemed envelopes carry 0 .. n-1, once each: no
\* signature can be used twice or out of turn.
THEOREM NonceTrackLinearAlways == Spec => []NonceTrackLinear
<1>1. Init => NonceTrackLinear
  <2> SUFFICES ASSUME Init, NEW a \in Accounts, NEW ch \in Channels
               PROVE  {e \in redeemed : e.payer = a /\ e.channel = ch} = {}
                      /\ 0..(nonces[a][ch] - 1) = {}
    BY DEF NonceTrackLinear
  <2> QED
    BY DEF Init
<1>2. BooksInv /\ NonceTrackLinear /\ [Next]_vars => NonceTrackLinear'
  <2> SUFFICES ASSUME BooksInv, NonceTrackLinear, [Next]_vars
               PROVE  NonceTrackLinear'
    OBVIOUS
  <2>1. CASE Quiet
    BY <2>1 DEF Quiet, NonceTrackLinear
  <2>2. ASSUME NEW e \in Submitted, NEW signed \in Accounts \cup {Zero},
               NEW stored \in Accounts, OpenChannel(e, signed, stored)
        PROVE  NonceTrackLinear'
    BY <2>2, OpenSpendsNext, SubmittedIsEnvelope DEF BooksInv
  <2> QED
    BY <2>1, <2>2, OpensOrQuiet
<1> QED
  BY <1>1, <1>2, BooksAlways, PTL DEF Spec

\* An envelope s covers an entry c: same terms, and the same recipient unless s
\* left it open.
Covers(s, id, c) ==
    /\ s.id = id /\ s.payer = c.payer
    /\ s.recipient \in {c.recipient, Zero}
    /\ s.pool = c.pool /\ s.velocity = c.velocity
    /\ s.genesis = c.genesis /\ s.lifespan = c.lifespan
    /\ s.residual = c.residual

\* The signature that _openPaycardChannel accepts covers the entry it writes.
LEMMA SignatureCovers ==
    ASSUME NEW e \in Envelope, NEW stored \in Accounts, NEW signed \in {stored, Zero}
    PROVE  Covers([e EXCEPT !.recipient = signed], e.id, NewCard(e, stored))
<1> DEFINE s == [e EXCEPT !.recipient = signed]
<1> DEFINE c == NewCard(e, stored)
<1>1. /\ s.id = e.id /\ s.payer = e.payer /\ s.recipient = signed
      /\ s.pool = e.pool /\ s.velocity = e.velocity /\ s.genesis = e.genesis
      /\ s.lifespan = e.lifespan /\ s.residual = e.residual
  BY WithRecipient
<1>2. /\ c.payer = e.payer /\ c.recipient = stored /\ c.pool = e.pool
      /\ c.velocity = e.velocity /\ c.genesis = e.genesis
      /\ c.lifespan = e.lifespan /\ c.residual = e.residual
  BY NewCardFields
<1> HIDE DEF s, c
<1>3. Covers(s, e.id, c)
  BY <1>1, <1>2 DEF Covers
<1> QED
  BY <1>3 DEF s, c

\* Moving an entry leaves it covered.
LEMMA MovedStaysCovered ==
    ASSUME NEW c \in Card, NEW av \in Nat, NEW cp \in Nat, NEW st \in ChannelStatus,
           NEW s, NEW id, Covers(s, id, c)
    PROVE  Covers(s, id, Moved(c, av, cp, st))
<1> DEFINE d == Moved(c, av, cp, st)
<1>1. /\ d.payer = c.payer /\ d.recipient = c.recipient /\ d.pool = c.pool
      /\ d.velocity = c.velocity /\ d.genesis = c.genesis
      /\ d.lifespan = c.lifespan /\ d.residual = c.residual
  BY MovedCard
<1> HIDE DEF d
<1>2. Covers(s, id, d)
  BY <1>1 DEF Covers
<1> QED
  BY <1>2 DEF d

Covered ==
    \A id \in PaycardIds : Registered(id) =>
        \E s \in Signed \cap redeemed : Covers(s, id, registry[id])

\* Every registered paycard is one its payer signed for: same terms, and the
\* signed recipient unless the payer left it open.
THEOREM CardsAsSignedAlways == Spec => []CardsAsSigned
<1>1. Init => Covered
  BY DEF Init, Covered, Registered, Opened, Blank
<1>2. BooksInv /\ Covered /\ [Next]_vars => Covered'
  <2> SUFFICES ASSUME BooksInv, Covered, [Next]_vars,
                      NEW id \in PaycardIds, Registered(id)'
               PROVE  \E s \in Signed \cap redeemed' : Covers(s, id, registry'[id])
    BY DEF Covered
  <2>1. registry[id] \in Card
    BY DEF BooksInv, TypeOK
  <2>2. CASE Quiet
    <3>1. PICK av \in Nat, cp \in Nat, st \in ChannelStatus :
              registry'[id] = Moved(registry[id], av, cp, st)
      BY <2>2 DEF Quiet
    <3>2. registry'[id].payer = registry[id].payer
      BY <2>1, <3>1, MovedCard
    <3>3. Registered(id)
      BY <3>2 DEF Registered, Opened
    <3>4. PICK s \in Signed \cap redeemed : Covers(s, id, registry[id])
      BY <3>3 DEF Covered
    <3>5. Covers(s, id, registry'[id])
      BY <2>1, <3>1, <3>4, MovedStaysCovered
    <3> QED
      BY <2>2, <3>5 DEF Quiet
  <2>3. ASSUME NEW e \in Submitted, NEW signed \in Accounts \cup {Zero},
               NEW stored \in Accounts, OpenChannel(e, signed, stored),
               signed \in {stored, Zero}
        PROVE  \E s \in Signed \cap redeemed' : Covers(s, id, registry'[id])
    <3>1. e \in Envelope /\ e.id \in PaycardIds
      BY SubmittedIsEnvelope, EnvelopeFields
    <3>2. /\ registry' = [registry EXCEPT ![e.id] = NewCard(e, stored)]
          /\ redeemed' = redeemed \cup {[e EXCEPT !.recipient = signed]}
          /\ [e EXCEPT !.recipient = signed] \in Signed
      BY <2>3 DEF OpenChannel, SignatureValid
    <3>3. CASE id = e.id
      <4>1. registry'[id] = NewCard(e, stored)
        BY <3>1, <3>2, <3>3 DEF BooksInv, TypeOK
      <4>2. Covers([e EXCEPT !.recipient = signed], id, NewCard(e, stored))
        BY <2>3, <3>1, <3>3, SignatureCovers
      <4> QED
        BY <3>2, <4>1, <4>2
    <3>4. CASE id # e.id
      <4>1. registry'[id] = registry[id]
        BY <3>2, <3>4 DEF BooksInv, TypeOK
      <4>2. Registered(id)
        BY <4>1 DEF Registered
      <4> QED
        BY <3>2, <4>1, <4>2 DEF Covered
    <3> QED
      BY <3>3, <3>4
  <2> QED
    BY <2>2, <2>3, OpensOrQuiet
<1>3. Covered => CardsAsSigned
  BY DEF Covered, Covers, CardsAsSigned
<1> QED
  BY <1>1, <1>2, <1>3, BooksAlways, PTL DEF Spec

-----------------------------------------------------------------------------
(* The vault implements StreamEscrow: checkpoints and running balances give *)
(* every recipient the closed-form entitlement.                            *)

\* The refinement mapping of the vault's registry.
Deals == [id \in PaycardIds |-> DealOf(registry[id])]

\* The deal an entry stands for, field by field.
LEMMA DealFields ==
    ASSUME NEW c
    PROVE  /\ DealOf(c).pool = c.pool /\ DealOf(c).velocity = c.velocity
           /\ DealOf(c).genesis = c.genesis /\ DealOf(c).lifespan = c.lifespan
           /\ DealOf(c).phase = IF ~Opened(c) THEN "none"
                                ELSE IF Active(c) THEN "open" ELSE "closed"
BY DEF DealOf

\* An entry and its deal entitle the recipient to the same.
LEMMA SameEntitlement ==
    ASSUME NEW c, NEW t
    PROVE  Escrow!Entitlement(DealOf(c), t) = Escrow!Entitlement(c, t)
BY DealFields DEF Escrow!Entitlement, Escrow!Elapsed

\* Moving an entry changes at most the phase of its deal.
LEMMA MovedDeal ==
    ASSUME NEW c \in Card, NEW av \in Nat, NEW cp \in Nat, NEW st \in ChannelStatus
    PROVE  DealOf(Moved(c, av, cp, st)) =
             [DealOf(c) EXCEPT !.phase = IF ~Opened(c) THEN "none"
                                         ELSE IF st = "Active" THEN "open"
                                         ELSE "closed"]
<1> DEFINE d == Moved(c, av, cp, st)
<1>1. /\ d.payer = c.payer /\ d.pool = c.pool /\ d.status = st
      /\ d.velocity = c.velocity /\ d.genesis = c.genesis
      /\ d.lifespan = c.lifespan
  BY MovedCard
<1> HIDE DEF d
<1>2. DealOf(d) = [DealOf(c) EXCEPT !.phase = IF ~Opened(c) THEN "none"
                                              ELSE IF st = "Active" THEN "open"
                                              ELSE "closed"]
  BY <1>1 DEF DealOf, Opened, Active
<1> QED
  BY <1>2 DEF d

\* Terminating an open entry closes its deal.
LEMMA ClosedDeal ==
    ASSUME NEW c \in Card, NEW cp \in Nat, Opened(c)
    PROVE  DealOf(Moved(c, 0, cp, "Terminated")) = [DealOf(c) EXCEPT !.phase = "closed"]
BY DEF DealOf, Opened, Active, Moved, Card

\* Changing one entry changes one deal.
LEMMA OneDealChanges ==
    ASSUME NEW id \in PaycardIds, NEW after, registry \in [PaycardIds -> Card],
           registry' = [registry EXCEPT ![id] = after]
    PROVE  /\ Deals' = [Deals EXCEPT ![id] = DealOf(after)]
           /\ Deals'[id] = DealOf(after)
BY DEF Deals

\* _openPaycardChannel strikes a deal.
LEMMA OpenIsAgree ==
    ASSUME BooksInv, NEW e \in Envelope, NEW signed, NEW stored \in Accounts,
           OpenChannel(e, signed, stored)
    PROVE  Escrow!Next
<1> DEFINE c == NewCard(e, stored)
<1>1. /\ e.id \in PaycardIds /\ e.payer \in Accounts /\ e.pool \in Nat
      /\ e.velocity \in Nat /\ e.genesis \in Nat /\ e.lifespan \in Nat
  BY EnvelopeFields
<1>2. /\ ~Registered(e.id) /\ e.pool # 0
      /\ e.lifespan > 0 => now < e.genesis + e.lifespan
      /\ registry' = [registry EXCEPT ![e.id] = c]
      /\ UNCHANGED <<now, paid, refunded>>
  BY DEF OpenChannel, Collision, WellFormed, WindowOpen, Horizon
<1>3. /\ c.pool = e.pool /\ c.velocity = e.velocity /\ c.genesis = e.genesis
      /\ c.lifespan = e.lifespan /\ c.payer = e.payer /\ c.status = "Active"
  BY NewCardFields
<1> HIDE DEF c
<1>4. Deals[e.id].phase = "none"
  <2>1. Deals[e.id] = DealOf(registry[e.id]) /\ ~Opened(registry[e.id])
    BY <1>1, <1>2 DEF Deals, Registered
  <2> QED
    BY <2>1, DealFields
<1>5. /\ Deals' = [Deals EXCEPT ![e.id] = DealOf(c)]
      /\ Deals'[e.id] = DealOf(c)
  BY <1>1, <1>2, OneDealChanges DEF BooksInv, TypeOK
<1>6. /\ DealOf(c) \in Escrow!Terms
      /\ DealOf(c).lifespan > 0 => now < DealOf(c).genesis + DealOf(c).lifespan
  <2>1. DealOf(c) = [pool |-> e.pool, velocity |-> e.velocity,
                     genesis |-> e.genesis, lifespan |-> e.lifespan,
                     phase |-> "open"]
    BY <1>1, <1>3, VaultAssumption DEF DealOf, Opened, Active
  <2> QED
    BY <1>1, <1>2, <2>1 DEF Escrow!Terms
<1>7. Escrow!Agree(e.id)
  BY <1>2, <1>4, <1>5, <1>6 DEF Escrow!Agree, Deals
<1> QED
  BY <1>1, <1>7 DEF Escrow!Next

\* Settling a registered entry pays its deal.
LEMMA SettleIsPay ==
    ASSUME BooksInv, NEW id \in PaycardIds, ProcessDripSettle(id), Registered(id)
    PROVE  Escrow!Next
<1> DEFINE c == registry[id]
<1> DEFINE due == Escrow!Entitlement(c, now)
<1>1. /\ c \in Card /\ now \in Nat /\ paid[id] \in Nat /\ refunded[id] \in Nat
      /\ OnSchedule(c, paid[id], now) /\ Accounted(c, paid[id], refunded[id])
      /\ Opened(c) /\ registry \in [PaycardIds -> Card]
  BY DEF BooksInv, TypeOK, PoolAccounted, PaidPerSchedule, Registered
<1>2. /\ Active(c)
      /\ registry' = [registry EXCEPT ![id] = Settled(c, now)]
      /\ paid' = [paid EXCEPT ![id] = paid[id] + Payout(c, now)]
      /\ refunded' = [refunded EXCEPT ![id] = refunded[id] + 0]
      /\ now' = now
  BY DEF ProcessDripSettle, MaySettle, Release
<1>3. refunded' = refunded
  BY <1>2 DEF BooksInv, TypeOK
<1>4. Deals[id] = DealOf(c)
  BY DEF Deals
<1> HIDE DEF c
<1>5. paid[id] + Payout(c, now) = due
  BY <1>1, <1>2, EntitlementNow
<1>6. PICK cp \in Nat, st \in ChannelStatus :
          Settled(c, now) = Moved(c, Residual(c, now), cp, st)
  BY <1>1, SettledEntry
<1>7. /\ Residual(c, now) = c.available - Payout(c, now)
      /\ Residual(c, now) \in Nat /\ Payout(c, now) \in Nat
  BY <1>1, SettledEntry
<1>8. st = "Active" <=> due # c.pool
  <2>1. /\ Settled(c, now).available = Residual(c, now)
        /\ Settled(c, now).status = st
        /\ Settled(c, now).payer = c.payer
        /\ Settled(c, now).pool = c.pool
    BY <1>1, <1>6, <1>7, SettledFields
  <2>2. Accounted(Settled(c, now), due, refunded[id])
    BY <1>1, <1>2, <1>5, SettleKeepsBooks
  <2>3. refunded[id] = 0 /\ c.pool \in Nat /\ Opened(Settled(c, now))
    BY <1>1, <1>2, <2>1 DEF Accounted, Card, Opened
  <2>4. due \in Nat
    BY <1>1, <1>5, <1>7
  <2> QED
    BY <1>7, <2>1, <2>2, <2>3, <2>4 DEF Accounted, Active
<1>9. DealOf(Settled(c, now)) =
        [DealOf(c) EXCEPT !.phase = IF due = c.pool THEN "closed" ELSE "open"]
  <2> DEFINE rest == Residual(c, now)
  <2>1. c \in Card /\ rest \in Nat /\ Opened(c)
    BY <1>1, <1>7
  <2>2. Settled(c, now) = Moved(c, rest, cp, st)
    BY <1>6
  <2> HIDE DEF rest, due
  <2>3. DealOf(Moved(c, rest, cp, st)) =
          [DealOf(c) EXCEPT !.phase = IF st = "Active" THEN "open" ELSE "closed"]
    <3>1. cp \in Nat /\ st \in ChannelStatus
      BY <1>6
    <3> QED
      BY <2>1, <3>1, MovedDeal
  <2>4. (IF st = "Active" THEN "open" ELSE "closed")
          = (IF due = c.pool THEN "closed" ELSE "open")
    BY <1>8
  <2> QED
    BY <2>2, <2>3, <2>4
<1>10. Deals' = [Deals EXCEPT ![id] = DealOf(Settled(c, now))]
  BY <1>1, <1>2, OneDealChanges
<1>11. /\ DealOf(c).phase = "open" /\ DealOf(c).pool = c.pool
       /\ Escrow!Entitlement(DealOf(c), now) = due
  BY <1>1, <1>2, DealFields, SameEntitlement
<1>12. Escrow!Pay(id)
  <2> HIDE DEF due
  <2>1. Deals' = [Deals EXCEPT ![id] = [Deals[id] EXCEPT !.phase =
                     IF due = Deals[id].pool THEN "closed" ELSE "open"]]
    BY <1>4, <1>9, <1>10, <1>11
  <2>2. paid' = [paid EXCEPT ![id] = due]
    BY <1>2, <1>5
  <2> QED
    BY <1>2, <1>3, <1>4, <1>11, <2>1, <2>2 DEF Escrow!Pay, Deals
<1> QED
  BY <1>12 DEF Escrow!Next

\* Flushing closes the deal.
LEMMA FlushIsClose ==
    ASSUME BooksInv, NEW a \in Accounts, NEW id \in PaycardIds,
           FlushResidualDelta(a, id)
    PROVE  Escrow!Next
<1> DEFINE c == registry[id]
<1> DEFINE due == Escrow!Entitlement(c, now)
<1>1. /\ c \in Card /\ now \in Nat /\ paid[id] \in Nat /\ refunded[id] \in Nat
      /\ OnSchedule(c, paid[id], now) /\ Accounted(c, paid[id], refunded[id])
      /\ Opened(c) /\ registry \in [PaycardIds -> Card]
  BY FlushKeepsInvariant
     DEF BooksInv, TypeOK, PoolAccounted, PaidPerSchedule, Registered
<1>2. /\ Active(c)
      /\ registry' = [registry EXCEPT ![id] = Flushed(c, now)]
      /\ paid' = [paid EXCEPT ![id] = paid[id] + Payout(c, now)]
      /\ refunded' = [refunded EXCEPT ![id] = refunded[id] + Residual(c, now)]
      /\ now' = now
  BY DEF FlushResidualDelta, Release
<1>3. Deals[id] = DealOf(c)
  BY DEF Deals
<1> HIDE DEF c
<1>4. paid[id] + Payout(c, now) = due
  BY <1>1, <1>2, EntitlementNow
<1>5. PICK cp \in Nat : Flushed(c, now) = Moved(c, 0, cp, "Terminated")
  BY <1>1, SettledEntry
<1>6. /\ Residual(c, now) = c.available - Payout(c, now)
      /\ Residual(c, now) \in Nat /\ Payout(c, now) \in Nat
  BY <1>1, SettledEntry
<1>7. refunded[id] + Residual(c, now) = c.pool - due
  <2>1. refunded[id] = 0 /\ paid[id] + c.available = c.pool
        /\ c.pool \in Nat /\ c.available \in Nat
    BY <1>1, <1>2 DEF Accounted, Card
  <2> QED
    BY <1>1, <1>4, <1>6, <2>1
<1>8. DealOf(Flushed(c, now)) = [DealOf(c) EXCEPT !.phase = "closed"]
  BY <1>1, <1>5, ClosedDeal
<1>9. Deals' = [Deals EXCEPT ![id] = DealOf(Flushed(c, now))]
  BY <1>1, <1>2, OneDealChanges
<1>10. /\ DealOf(c).phase = "open" /\ DealOf(c).pool = c.pool
       /\ Escrow!Entitlement(DealOf(c), now) = due
  BY <1>1, <1>2, DealFields, SameEntitlement
<1>11. Escrow!Close(id)
  <2> HIDE DEF due
  <2>1. Deals' = [Deals EXCEPT ![id] = [Deals[id] EXCEPT !.phase = "closed"]]
    BY <1>3, <1>8, <1>9
  <2>2. /\ paid' = [paid EXCEPT ![id] = due]
        /\ refunded' = [refunded EXCEPT ![id] = c.pool - due]
    BY <1>2, <1>4, <1>7
  <2> QED
    BY <1>2, <1>3, <1>10, <2>1, <2>2 DEF Escrow!Close, Deals
<1> QED
  BY <1>11 DEF Escrow!Next

\* The books kept by checkpoint and running balance implement the closed-form
\* escrow of StreamEscrow: initial states to initial states, steps to steps.
THEOREM VaultImplementsEscrow == Spec => ImplementsEscrow
<1>1. Init => Escrow!Init
  BY DEF Init, Escrow!Init, DealOf, Opened, Blank
<1>2. BooksInv /\ [Next]_vars => [Escrow!Next]_Escrow!vars
  <2> SUFFICES ASSUME BooksInv, [Next]_vars PROVE [Escrow!Next]_Escrow!vars
    OBVIOUS
  <2>1. ASSUME UNCHANGED <<now, registry, paid, refunded>>
        PROVE  UNCHANGED Escrow!vars
    BY <2>1 DEF Escrow!vars
  <2>2. CASE Tick
    <3>1. now' = now + 1 /\ now \in Nat /\ UNCHANGED <<registry, paid, refunded>>
      BY <2>2 DEF Tick, money, BooksInv, TypeOK
    <3>2. Escrow!TimePasses
      BY <3>1 DEF Escrow!TimePasses
    <3> QED
      BY <3>2 DEF Escrow!Next
  <2>3. ASSUME NEW e \in Submitted,
               \/ OpenPaycardChannel(e)
               \/ \E a \in Accounts : ClaimWildcardPaycardChannel(e, a)
        PROVE  Escrow!Next
    <3>1. e \in Envelope /\ e.recipient \in Accounts \cup {Zero}
      BY SubmittedIsEnvelope, EnvelopeFields
    <3>2. \E signed, stored : stored \in Accounts /\ OpenChannel(e, signed, stored)
      BY <2>3, <3>1 DEF OpenPaycardChannel, ClaimWildcardPaycardChannel
    <3> QED
      BY <3>1, <3>2, OpenIsAgree
  <2>4. ASSUME NEW id \in PaycardIds, ProcessDripSettle(id)
        PROVE  [Escrow!Next]_Escrow!vars
    <3>1. CASE Registered(id)
      BY <2>4, <3>1, SettleIsPay
    <3>2. CASE ~Registered(id)
      <4>1. UNCHANGED vars
        BY <2>4, <3>2, SettleBlank DEF BooksInv, BlankUntilOpened
      <4> QED
        BY <2>1, <4>1 DEF vars
    <3> QED
      BY <3>1, <3>2
  <2>5. ASSUME NEW a \in Accounts, NEW id \in PaycardIds, FlushResidualDelta(a, id)
        PROVE  Escrow!Next
    BY <2>5, FlushIsClose
  <2>6. CASE AcceptOwnership \/ Pause \/ Unpause \/ UNCHANGED vars
             \/ \E a \in Accounts : TransferOwnership(a)
    BY <2>1, <2>6
       DEF AcceptOwnership, Pause, Unpause, vars, TransferOwnership, money
  <2> QED
    BY <2>2, <2>3, <2>4, <2>5, <2>6 DEF Next
<1> QED
  BY <1>1, <1>2, BooksAlways, PTL DEF Spec, Escrow!Spec, ImplementsEscrow

=============================================================================
