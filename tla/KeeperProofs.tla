---------------------------- MODULE KeeperProofs ----------------------------
(***************************************************************************)
(* A sweep of the cron leaves dust, for any number of streams, runs that   *)
(* overlap, window and batch.  What a run has dealt with stays dealt with  *)
(* until time passes; what it has not dealt with is still on its list.     *)
(***************************************************************************)
EXTENDS Keeper, VaultProofs, WellFoundedInduction, SequenceTheorems

Log == [id : PaycardIds, at : Nat]
Run == [on : BOOLEAN, left : Seq(Log), clock : Nat, settled : Nat,
        sending : BOOLEAN]

KeeperTypeOK ==
    /\ provisioned \in Seq(Log)
    /\ runs \in [Runs -> Run]
    /\ swept \in BOOLEAN
    /\ failures \in Nat
    /\ \A r \in Runs : runs[r].sending => runs[r].left # <<>>

\* One log per registered paycard, in the order of their blocks.
Logged ==
    /\ \A i \in 1..Len(provisioned) :
          provisioned[i].at <= now /\ Registered(provisioned[i].id)
    /\ \A i, j \in 1..Len(provisioned) :
          /\ i <= j => provisioned[i].at <= provisioned[j].at
          /\ provisioned[i].id = provisioned[j].id => i = j
    /\ \A id \in PaycardIds : Registered(id) =>
          \E i \in 1..Len(provisioned) : provisioned[i].id = id

\* A run of the cron is over before time passes.
CronInTime ==
    runs[Cron].on => runs[Cron].clock = now /\ (~swept \/ now = MaxTime)

Served(id) == Sweepable(id) => Arrears(id) < Dust

\* What the cron's run has not dealt with is still on its list.
OnTheList ==
    failures = 0 /\ runs[Cron].on =>
        LET left == runs[Cron].left IN
        /\ runs[Cron].settled + Len(left) <= Len(Listed)
        /\ \A id \in PaycardIds :
              Served(id) \/ \E k \in 1..Len(left) : left[k].id = id

SweepInv ==
    BooksInv /\ KeeperTypeOK /\ Logged /\ CronInTime /\ OnTheList /\ SweepLeavesDust

USE KeeperAssumption

-----------------------------------------------------------------------------
(* The list.                                                               *)

\* A set of naturals that is not empty has a least element.
LEMMA LeastExists ==
    ASSUME NEW S, S \subseteq Nat, S # {}
    PROVE  \E x \in S : \A y \in S : x <= y
<1>1. PICK R : R = OpToRel(<, Nat)
  OBVIOUS
<1>2. IsWellFoundedOn(R, Nat)
  BY <1>1, NatLessThanWellFounded
<1>3. PICK x \in S : \A y \in S : ~(<<y, x>> \in R)
  BY <1>2, WFMin
<1>4. \A y \in S : y < x => <<y, x>> \in R
  BY <1>1 DEF OpToRel
<1>5. \A y \in S : ~(y < x)
  BY <1>3, <1>4
<1> QED
  BY <1>5

\* The entries of the list of logs are logs.
LEMMA LogAt ==
    ASSUME KeeperTypeOK
    PROVE  /\ Len(provisioned) \in Nat
           /\ \A i \in 1..Len(provisioned) :
                 /\ provisioned[i] \in Log
                 /\ provisioned[i].id \in PaycardIds
                 /\ provisioned[i].at \in Nat
<1>1. provisioned \in Seq(Log)
  BY DEF KeeperTypeOK
<1>2. Len(provisioned) \in Nat
  BY <1>1
<1>3. \A i \in 1..Len(provisioned) : provisioned[i] \in Log
  BY <1>1
<1> QED
  BY <1>2, <1>3 DEF Log

Older == {i \in 1..Len(provisioned) : provisioned[i].at < now - Window}

\* The logs are in block order: the older ones come first.
LEMMA OlderFirst ==
    ASSUME KeeperTypeOK, Logged, now \in Nat
    PROVE  \E n \in 0..Len(provisioned) : Older = 1..n /\ Cardinality(Older) = n
<1> DEFINE L == Len(provisioned)
           W == (1..L) \ Older
<1>1. L \in Nat /\ \A i \in 1..L : provisioned[i].at \in Nat
  BY LogAt
<1>2. \E n \in 0..L : Older = 1..n
  <2>1. CASE W = {}
    <3>1. Older = 1..L
      BY <2>1 DEF Older
    <3> QED
      BY <1>1, <3>1
  <2>2. CASE W # {}
    <3>1. PICK w \in W : \A y \in W : w <= y
      <4>1. W \subseteq Nat
        OBVIOUS
      <4> HIDE DEF W
      <4> QED
        BY <2>2, <4>1, LeastExists
    <3>2. w \in 1..L /\ ~(provisioned[w].at < now - Window)
      BY DEF Older
    <3>3. ASSUME NEW i \in 1..L, i < w PROVE i \in Older
      BY <3>1, <3>3
    <3>4. ASSUME NEW i \in 1..L, w <= i PROVE i \notin Older
      <4>1. provisioned[w].at <= provisioned[i].at
        BY <3>2, <3>4 DEF Logged
      <4> QED
        BY <1>1, <3>2, <4>1 DEF Older
    <3>5. Older = 1..(w - 1)
      <4>1. Older \subseteq 1..L
        BY DEF Older
      <4>2. w \in Nat
        BY <1>1, <3>2
      <4>3. ASSUME NEW i \in Older PROVE i \in 1..(w - 1)
        <5>1. i \in 1..L /\ ~(w <= i)
          BY <3>4, <4>1, <4>3
        <5> QED
          BY <1>1, <4>2, <5>1
      <4>4. ASSUME NEW i \in 1..(w - 1) PROVE i \in Older
        <5>1. i \in 1..L /\ i < w
          BY <1>1, <3>2, <4>2
        <5> QED
          BY <3>3, <5>1
      <4> QED
        BY <4>3, <4>4
    <3>6. w - 1 \in 0..L
      BY <1>1, <3>2
    <3> QED
      BY <3>5, <3>6
  <2> QED
    BY <2>1, <2>2
<1>3. PICK n \in 0..L : Older = 1..n
  BY <1>2
<1>4. Cardinality(1..n) = n
  <2>1. n \in Nat /\ 1 \in Nat
    BY <1>1
  <2>2. Cardinality(1..n) = IF 1 > n THEN 0 ELSE n - 1 + 1
    BY <2>1, FS_Interval
  <2> QED
    BY <2>1, <2>2
<1> QED
  BY <1>3, <1>4

\* The list holds every stream of the window.
LEMMA ListedWindow ==
    ASSUME KeeperTypeOK, Logged, now \in Nat
    PROVE  /\ Listed \in Seq(Log)
           /\ \A i \in 1..Len(provisioned) : now - Window <= provisioned[i].at =>
                 \E k \in 1..Len(Listed) : Listed[k] = provisioned[i]
<1> DEFINE L == Len(provisioned)
<1>1. PICK n \in 0..L : Older = 1..n /\ Cardinality(Older) = n
  BY OlderFirst
<1>2. provisioned \in Seq(Log) /\ L \in Nat
  BY DEF KeeperTypeOK
<1>3. Listed = SubSeq(provisioned, n + 1, L)
  BY <1>1 DEF Listed, Older
<1>4. /\ Listed \in Seq(Log)
      /\ Len(Listed) = L - n
      /\ \A k \in 1..(L - n) : Listed[k] = provisioned[n + k]
  <2>1. n + 1 \in 1..(L + 1) /\ L \in 0..L
    BY <1>2
  <2> QED
    BY <1>2, <1>3, <2>1, SubSeqProperties
<1>5. ASSUME NEW i \in 1..L, now - Window <= provisioned[i].at
      PROVE  \E k \in 1..Len(Listed) : Listed[k] = provisioned[i]
  <2>1. provisioned[i].at \in Nat
    BY LogAt
  <2>2. i \notin 1..n
    BY <1>1, <1>5, <2>1 DEF Older
  <2>3. i - n \in 1..(L - n) /\ n + (i - n) = i
    BY <1>2, <2>2
  <2> QED
    BY <1>4, <2>3
<1> QED
  BY <1>4, <1>5

\* A new log makes the list longer, never shorter, while time stands still.
LEMMA ListedGrows ==
    ASSUME KeeperTypeOK, Logged, now \in Nat, now' = now,
           \/ provisioned' = provisioned
           \/ \E id \in PaycardIds :
                 provisioned' = Append(provisioned, [id |-> id, at |-> now])
    PROVE  Len(Listed) \in Nat /\ Len(Listed') \in Nat /\ Len(Listed) <= Len(Listed')
<1> DEFINE L == Len(provisioned)
<1>1. PICK n \in 0..L : Older = 1..n /\ Cardinality(Older) = n
  BY OlderFirst
<1>2. provisioned \in Seq(Log) /\ L \in Nat
  BY DEF KeeperTypeOK
<1>3. Len(SubSeq(provisioned, n + 1, L)) = L - n
  <2>1. n + 1 \in 1..(L + 1) /\ L \in 0..L
    BY <1>2
  <2> QED
    BY <1>2, <2>1, SubSeqProperties
<1>4. Len(Listed) = L - n
  BY <1>1, <1>3 DEF Listed, Older
<1>5. CASE provisioned' = provisioned
  <2>1. Listed' = Listed
    BY <1>5 DEF Listed
  <2> QED
    BY <1>2, <1>4, <2>1
<1>6. ASSUME NEW id \in PaycardIds,
             provisioned' = Append(provisioned, [id |-> id, at |-> now])
      PROVE  Len(Listed') = L + 1 - n
  <2> DEFINE p == provisioned'
  <2>1. /\ p \in Seq(Log) /\ Len(p) = L + 1
        /\ \A i \in 1..L : p[i] = provisioned[i]
        /\ p[L + 1] = [id |-> id, at |-> now]
    BY <1>2, <1>6 DEF Log
  <2>2. {i \in 1..Len(p) : p[i].at < now - Window} = Older
    <3>1. ~(p[L + 1].at < now - Window)
      BY <2>1
    <3>2. 1..Len(p) = 1..L \cup {L + 1}
      BY <1>2, <2>1
    <3> QED
      BY <2>1, <3>1, <3>2 DEF Older
  <2>3. Listed' = SubSeq(p, n + 1, Len(p))
    BY <1>1, <2>2 DEF Listed
  <2>4. n + 1 \in 1..(Len(p) + 1) /\ Len(p) \in 0..Len(p)
    BY <1>2, <2>1
  <2> HIDE DEF p
  <2>5. Len(SubSeq(p, n + 1, Len(p))) = Len(p) - (n + 1) + 1
    BY <1>2, <2>1, <2>4, SubSeqProperties
  <2> QED
    BY <1>2, <2>1, <2>3, <2>5
<1>7. Len(Listed) \in Nat /\ L + 1 - n \in Nat /\ L - n <= L + 1 - n
  BY <1>2, <1>4
<1> QED
  BY <1>4, <1>5, <1>6, <1>7

AtIn(s, id) == (CHOOSE l \in {s[i] : i \in 1..Len(s)} : l.id = id).at

\* A stream was opened at the time its log says.
LEMMA OpenedAtItsLog ==
    ASSUME NEW s, NEW i \in 1..Len(s),
           \A j \in 1..Len(s) : s[j].id = s[i].id => j = i
    PROVE  AtIn(s, s[i].id) = s[i].at
<1> DEFINE l == CHOOSE l \in {s[j] : j \in 1..Len(s)} : l.id = s[i].id
<1>1. l \in {s[j] : j \in 1..Len(s)} /\ l.id = s[i].id
  OBVIOUS
<1>2. PICK j \in 1..Len(s) : l = s[j]
  BY <1>1
<1>3. l = s[i]
  BY <1>1, <1>2
<1> QED
  BY <1>3 DEF AtIn

-----------------------------------------------------------------------------
(* What the vault's calls do to a stream while time stands still.          *)

VaultCall ==
    \/ \E e \in Submitted : OpenPaycardChannel(e)
    \/ \E e \in Submitted, a \in Accounts : ClaimWildcardPaycardChannel(e, a)
    \/ \E id \in PaycardIds : ProcessDripSettle(id)
    \/ \E a \in Accounts, id \in PaycardIds : FlushResidualDelta(a, id)
    \/ Pause \/ Unpause

\* The stream is as it was, closed, or paid up to this moment.
Handled(id) ==
    \/ registry'[id] = registry[id] /\ paid'[id] = paid[id]
    \/ ~Active(registry'[id])
    \/ Escrow!Entitlement(registry'[id], now) - paid'[id] = 0

\* A settlement pays its stream up to this moment.
LEMMA SettlePaysUp ==
    ASSUME BooksInv, NEW id \in PaycardIds, Registered(id), ProcessDripSettle(id)
    PROVE  Escrow!Entitlement(registry'[id], now) - paid'[id] = 0
<1> DEFINE c == registry[id]
           d == registry'[id]
<1>1. /\ c \in Card /\ now \in Nat /\ paid[id] \in Nat /\ refunded[id] \in Nat
      /\ OnSchedule(c, paid[id], now) /\ Accounted(c, paid[id], refunded[id])
      /\ paid \in [PaycardIds -> Nat] /\ registry \in [PaycardIds -> Card]
  BY DEF BooksInv, TypeOK, PoolAccounted, PaidPerSchedule
<1>2. Active(c) /\ Opened(c) /\ Release(id, Settled(c, now), Payout(c, now), 0)
  BY DEF ProcessDripSettle, MaySettle, Registered
<1>3. d = Settled(c, now) /\ paid'[id] = paid[id] + Payout(c, now)
  BY <1>1, <1>2 DEF Release
<1> HIDE DEF c
<1>4. paid[id] + Payout(c, now) = Escrow!Entitlement(c, now)
  BY <1>1, <1>2, EntitlementNow
<1>5. /\ d.pool = c.pool /\ d.velocity = c.velocity
      /\ d.genesis = c.genesis /\ d.lifespan = c.lifespan
  <2>1. /\ Residual(c, now) \in Nat
        /\ \E cp \in Nat, st \in ChannelStatus :
              Settled(c, now) = Moved(c, Residual(c, now), cp, st)
    BY <1>1, SettledEntry
  <2>2. PICK cp \in Nat, st \in ChannelStatus : d = Moved(c, Residual(c, now), cp, st)
    BY <1>3, <2>1
  <2> DEFINE rest == Residual(c, now)
  <2>3. rest \in Nat /\ d = Moved(c, rest, cp, st)
    BY <2>1, <2>2
  <2>4. c \in Card
    BY <1>1
  <2> HIDE DEF d, rest
  <2>5. /\ Moved(c, rest, cp, st).pool = c.pool
        /\ Moved(c, rest, cp, st).velocity = c.velocity
        /\ Moved(c, rest, cp, st).genesis = c.genesis
        /\ Moved(c, rest, cp, st).lifespan = c.lifespan
    BY <2>3, <2>4, MovedCard
  <2> QED
    BY <2>3, <2>5
<1> HIDE DEF d
<1>6. Escrow!Entitlement(d, now) = Escrow!Entitlement(c, now)
  BY <1>5 DEF Escrow!Entitlement, Escrow!Elapsed
<1>7. Payout(c, now) \in Nat
  BY <1>1, SettledEntry
<1> QED
  BY <1>1, <1>3, <1>4, <1>6, <1>7 DEF d

\* No call of anybody leaves a registered stream worse served than it was.
LEMMA CallsServe ==
    ASSUME BooksInv, VaultCall, NEW id \in PaycardIds, Registered(id)
    PROVE  Handled(id)
<1>1. registry \in [PaycardIds -> Card] /\ paid \in [PaycardIds -> Nat]
  BY DEF BooksInv, TypeOK
<1>2. ASSUME NEW e \in Envelope, NEW signed, NEW stored, OpenChannel(e, signed, stored)
      PROVE  registry'[id] = registry[id] /\ paid'[id] = paid[id]
  BY <1>1, <1>2 DEF OpenChannel, Collision
<1>3. ASSUME NEW e \in Submitted, OpenPaycardChannel(e) PROVE Handled(id)
  BY <1>2, <1>3, SubmittedIsEnvelope DEF OpenPaycardChannel, Handled
<1>4. ASSUME NEW e \in Submitted, NEW a \in Accounts, ClaimWildcardPaycardChannel(e, a)
      PROVE  Handled(id)
  BY <1>2, <1>4, SubmittedIsEnvelope DEF ClaimWildcardPaycardChannel, Handled
<1>5. ASSUME NEW j \in PaycardIds, NEW after, NEW out, NEW back,
             Release(j, after, out, back), j # id
      PROVE  Handled(id)
  BY <1>1, <1>5 DEF Release, Handled
<1>6. ASSUME NEW j \in PaycardIds, ProcessDripSettle(j) PROVE Handled(id)
  <2>1. CASE j = id
    BY <1>6, <2>1, SettlePaysUp DEF Handled
  <2>2. CASE j # id
    BY <1>5, <1>6, <2>2 DEF ProcessDripSettle
  <2> QED
    BY <2>1, <2>2
<1>7. ASSUME NEW a \in Accounts, NEW j \in PaycardIds, FlushResidualDelta(a, j)
      PROVE  Handled(id)
  <2> DEFINE c == registry[j]
  <2>1. Release(j, Flushed(c, now), Payout(c, now), Residual(c, now))
    BY <1>7 DEF FlushResidualDelta
  <2>2. CASE j = id
    <3>1. registry'[id] = Flushed(c, now)
      BY <1>1, <2>1, <2>2 DEF Release
    <3>2. c \in Card /\ now \in Nat
      BY <1>1 DEF BooksInv, TypeOK
    <3>3. PICK cp \in Nat : Flushed(c, now) = Moved(c, 0, cp, "Terminated")
      BY <3>2, SettledEntry
    <3>4. ~Active(Flushed(c, now))
      BY <3>2, <3>3, FlushedFields
    <3> QED
      BY <3>1, <3>4 DEF Handled
  <2>3. CASE j # id
    BY <1>5, <2>1, <2>3
  <2> QED
    BY <2>2, <2>3
<1>8. CASE Pause \/ Unpause
  BY <1>8 DEF Pause, Unpause, money, Handled
<1> QED
  BY <1>3, <1>4, <1>6, <1>7, <1>8 DEF VaultCall

\* A call writes the log of the paycard it opens, and no other.
Extended ==
    /\ now' = now
    /\ \/ /\ provisioned' = provisioned
          /\ \A j \in PaycardIds : Opened(registry'[j]) <=> Registered(j)
       \/ \E id \in PaycardIds :
             /\ ~Registered(id)
             /\ provisioned' = Append(provisioned, [id |-> id, at |-> now])
             /\ \A j \in PaycardIds :
                   Opened(registry'[j]) <=> Registered(j) \/ j = id

\* Every call is one of the vault's steps and leaves the clock alone.
LEMMA CallIsStep == VaultCall => Next /\ now' = now
<1> SUFFICES ASSUME VaultCall PROVE Next /\ now' = now
  OBVIOUS
<1>1. Next
  BY DEF VaultCall, Next
<1>2. now' = now
  BY DEF VaultCall, OpenPaycardChannel, ClaimWildcardPaycardChannel, OpenChannel,
         ProcessDripSettle, FlushResidualDelta, Release, Pause, Unpause
<1> QED
  BY <1>1, <1>2

\* What a call opens.
LEMMA CallOpens ==
    ASSUME BooksInv, VaultCall
    PROVE  \/ \A j \in PaycardIds : Opened(registry'[j]) <=> Registered(j)
           \/ \E id \in PaycardIds :
                 /\ ~Registered(id)
                 /\ \A j \in PaycardIds :
                       Opened(registry'[j]) <=> Registered(j) \/ j = id
<1>1. CASE Quiet
  <2> SUFFICES ASSUME NEW j \in PaycardIds
               PROVE  Opened(registry'[j]) <=> Registered(j)
    OBVIOUS
  <2>1. PICK av \in Nat, cp \in Nat, st \in ChannelStatus :
            registry'[j] = Moved(registry[j], av, cp, st)
    BY <1>1 DEF Quiet
  <2>2. registry[j] \in Card
    BY DEF BooksInv, TypeOK
  <2>3. registry'[j].payer = registry[j].payer
    BY <2>1, <2>2, MovedCard
  <2> QED
    BY <2>3 DEF Registered, Opened
<1>2. ASSUME NEW e \in Submitted, NEW signed, NEW stored \in Accounts,
             OpenChannel(e, signed, stored)
      PROVE  \E id \in PaycardIds :
                 /\ ~Registered(id)
                 /\ \A j \in PaycardIds :
                       Opened(registry'[j]) <=> Registered(j) \/ j = id
  <2>1. e \in Envelope /\ e.id \in PaycardIds /\ e.payer \in Accounts
    BY SubmittedIsEnvelope, EnvelopeFields
  <2>2. registry' = [registry EXCEPT ![e.id] = NewCard(e, stored)] /\ ~Registered(e.id)
    BY <1>2 DEF OpenChannel, Collision
  <2>3. NewCard(e, stored).payer = e.payer /\ e.payer # Zero
    BY <2>1, NewCardFields, VaultAssumption
  <2>4. registry \in [PaycardIds -> Card]
    BY DEF BooksInv, TypeOK
  <2>5. Opened(registry'[e.id])
    BY <2>1, <2>2, <2>3, <2>4 DEF Opened
  <2>6. \A j \in PaycardIds : j # e.id => registry'[j] = registry[j]
    BY <2>2, <2>4
  <2> QED
    BY <2>1, <2>2, <2>5, <2>6 DEF Registered
<1> QED
  BY <1>1, <1>2, CallIsStep, OpensOrQuiet

\* The log of a paycard keeps its place; a new one is of this moment.
LEMMA LogsExtend ==
    ASSUME KeeperTypeOK, Logged, now \in Nat, Extended
    PROVE  /\ provisioned' \in Seq(Log)
           /\ Logged'
           /\ \A id \in PaycardIds : Registered(id) => OpenedAt(id)' = OpenedAt(id)
           /\ \A id \in PaycardIds :
                 ~Registered(id) /\ Opened(registry'[id]) => OpenedAt(id)' = now
<1> DEFINE L == Len(provisioned)
           p == provisioned'
<1>1. L \in Nat /\ provisioned \in Seq(Log)
  BY DEF KeeperTypeOK
<1>2. \A id \in PaycardIds :
          OpenedAt(id) = AtIn(provisioned, id) /\ OpenedAt(id)' = AtIn(provisioned', id)
  BY DEF OpenedAt, AtIn
<1>3. CASE /\ provisioned' = provisioned
           /\ \A j \in PaycardIds : Opened(registry'[j]) <=> Registered(j)
  BY <1>1, <1>2, <1>3, LogAt DEF Extended, Logged, Registered
<1>4. ASSUME NEW new \in PaycardIds, ~Registered(new),
             provisioned' = Append(provisioned, [id |-> new, at |-> now]),
             \A j \in PaycardIds :
                 Opened(registry'[j]) <=> Registered(j) \/ j = new
      PROVE  /\ provisioned' \in Seq(Log)
             /\ Logged'
             /\ \A id \in PaycardIds : Registered(id) => OpenedAt(id)' = OpenedAt(id)
             /\ \A id \in PaycardIds :
                   ~Registered(id) /\ Opened(registry'[id]) => OpenedAt(id)' = now
  <2>1. /\ p \in Seq(Log) /\ Len(p) = L + 1
        /\ \A i \in 1..L : p[i] = provisioned[i]
        /\ p[L + 1] = [id |-> new, at |-> now]
    BY <1>1, <1>4 DEF Log
  <2>2. p[L + 1].id = new /\ p[L + 1].at = now
    BY <2>1
  <2>3. 1..Len(p) = 1..L \cup {L + 1} /\ L + 1 \notin 1..L
    BY <1>1, <2>1
  <2>4. \A i \in 1..L : /\ provisioned[i].id \in PaycardIds
                        /\ provisioned[i].at \in Nat
                        /\ provisioned[i].at <= now
                        /\ Registered(provisioned[i].id)
                        /\ provisioned[i].id # new
    BY <1>4, LogAt DEF Logged
  <2>5. now' = now
    BY DEF Extended
  <2>6. \A i \in 1..Len(p) : p[i].at <= now /\ Opened(registry'[p[i].id])
    BY <1>4, <2>1, <2>2, <2>3, <2>4
  <2>7. \A i, j \in 1..Len(p) : i <= j => p[i].at <= p[j].at
    <3> SUFFICES ASSUME NEW i \in 1..Len(p), NEW j \in 1..Len(p), i <= j
                 PROVE  p[i].at <= p[j].at
      OBVIOUS
    <3>1. CASE j = L + 1
      BY <2>2, <2>6, <3>1
    <3>2. CASE j # L + 1
      <4>1. i \in 1..L /\ j \in 1..L
        BY <1>1, <2>1, <3>2
      <4> QED
        BY <2>1, <4>1 DEF Logged
    <3> QED
      BY <3>1, <3>2
  <2>8. \A i, j \in 1..Len(p) : p[i].id = p[j].id => i = j
    BY <2>1, <2>2, <2>3, <2>4 DEF Logged
  <2>9. \A id \in PaycardIds : Opened(registry'[id]) => \E i \in 1..Len(p) : p[i].id = id
    <3> SUFFICES ASSUME NEW id \in PaycardIds, Opened(registry'[id])
                 PROVE  \E i \in 1..Len(p) : p[i].id = id
      OBVIOUS
    <3>1. CASE id = new
      BY <2>2, <2>3, <3>1
    <3>2. CASE id # new
      <4>1. Registered(id)
        BY <1>4, <3>2
      <4>2. PICK i \in 1..L : provisioned[i].id = id
        BY <4>1 DEF Logged
      <4> QED
        BY <2>1, <2>3, <4>2
    <3> QED
      BY <3>1, <3>2
  <2>10. Logged'
    BY <2>5, <2>6, <2>7, <2>8, <2>9 DEF Logged, Registered
  <2> HIDE DEF p
  <2>11. ASSUME NEW id \in PaycardIds, Registered(id)
         PROVE  AtIn(p, id) = AtIn(provisioned, id)
    <3>1. PICK i \in 1..L : provisioned[i].id = id
      BY <2>11 DEF Logged
    <3>2. AtIn(provisioned, id) = provisioned[i].at
      BY <3>1, OpenedAtItsLog DEF Logged
    <3>3. i \in 1..Len(p) /\ p[i].id = id /\ p[i].at = provisioned[i].at
      BY <2>1, <2>3, <3>1
    <3>4. AtIn(p, p[i].id) = p[i].at
      BY <2>8, <3>3, OpenedAtItsLog
    <3> QED
      BY <3>2, <3>3, <3>4
  <2>12. AtIn(p, new) = now
    <3>1. L + 1 \in 1..Len(p)
      BY <2>3
    <3>2. AtIn(p, p[L + 1].id) = p[L + 1].at
      BY <2>8, <3>1, OpenedAtItsLog
    <3> QED
      BY <2>2, <3>2
  <2> QED
    BY <1>2, <1>4, <2>1, <2>10, <2>11, <2>12 DEF p
<1> QED
  BY <1>3, <1>4 DEF Extended

-----------------------------------------------------------------------------
(* Served streams.                                                         *)

\* A stream that has been served stays served until time passes.
LEMMA ServedStays ==
    ASSUME BooksInv, KeeperTypeOK, Logged, VaultCall, Extended,
           NEW id \in PaycardIds, Served(id)
    PROVE  Served(id)'
<1> SUFFICES ASSUME Sweepable(id)' PROVE Arrears(id)' < Dust
  BY DEF Served
<1>1. now \in Nat /\ now' = now
  BY DEF BooksInv, TypeOK, Extended
<1>2. /\ Opened(registry'[id]) /\ Active(registry'[id])
      /\ Representable(registry'[id], now)
      /\ now - Window <= OpenedAt(id)' /\ OpenedAt(id)' < now
  BY <1>1 DEF Sweepable, Registered
<1>3. Registered(id) /\ OpenedAt(id)' = OpenedAt(id)
  BY <1>1, <1>2, LogsExtend
<1>4. Handled(id)
  BY <1>3, CallsServe
<1>5. Arrears(id)' = Escrow!Entitlement(registry'[id], now) - paid'[id]
  BY <1>1 DEF Arrears
<1>6. CASE registry'[id] = registry[id] /\ paid'[id] = paid[id]
  <2>1. Sweepable(id)
    BY <1>2, <1>3, <1>6 DEF Sweepable
  <2> QED
    BY <1>5, <1>6, <2>1 DEF Served, Arrears
<1>7. CASE Escrow!Entitlement(registry'[id], now) - paid'[id] = 0
  BY <1>5, <1>7
<1> QED
  BY <1>2, <1>4, <1>6, <1>7 DEF Handled

\* What a run owes no transaction is served.
LEMMA NotWorthIsServed ==
    ASSUME BooksInv, NEW id \in PaycardIds, ~Worth(registry[id], now)
    PROVE  Served(id)
<1> DEFINE c == registry[id]
<1> SUFFICES ASSUME Sweepable(id) PROVE Arrears(id) < Dust
  BY DEF Served
<1>1. /\ c \in Card /\ now \in Nat /\ paid[id] \in Nat /\ refunded[id] \in Nat
      /\ OnSchedule(c, paid[id], now) /\ Accounted(c, paid[id], refunded[id])
  BY DEF BooksInv, TypeOK, PoolAccounted, PaidPerSchedule
<1>2. Opened(c) /\ Active(c)
  BY DEF Sweepable, Registered
<1>3. ~Worth(c, now) /\ Arrears(id) = Escrow!Entitlement(c, now) - paid[id]
  BY DEF Arrears
<1> HIDE DEF c
<1>4. Arrears(id) = Payout(c, now)
  <2>1. paid[id] + Payout(c, now) = Escrow!Entitlement(c, now)
    BY <1>1, <1>2, EntitlementNow
  <2>2. Payout(c, now) \in Nat
    BY <1>1, SettledEntry
  <2> QED
    BY <1>1, <1>3, <2>1, <2>2
<1>5. c.available > 0 /\ c.available \in Nat /\ c.checkpoint \in Nat
      /\ c.lifespan \in Nat /\ c.genesis \in Nat /\ c.velocity \in Nat
  BY <1>1, <1>2 DEF Accounted, Card
<1>6. c.lifespan > 0 /\ ~(Estimate(c, now) >= Dust)
  BY <1>2, <1>3, <1>5 DEF Worth
<1>7. Estimate(c, now) = Payout(c, now)
  <2> DEFINE upto == Lesser(now, Horizon(c))
  <2>1. upto = EvaluatedEpoch(c, now) /\ upto \in Nat
    BY <1>1, <1>5, <1>6 DEF EvaluatedEpoch, Lesser, Horizon
  <2>2. CASE upto > c.checkpoint
    <3> DEFINE elapsed == upto - c.checkpoint
               velocity == c.velocity
    <3>1. elapsed \in Int /\ velocity \in Int
      BY <1>5, <2>1
    <3>2. AccruedDebt(c, now) = elapsed * velocity
      BY <1>5, <1>6, <2>1, <2>2 DEF AccruedDebt
    <3>3. Estimate(c, now) = Lesser(velocity * elapsed, c.available)
      BY <2>2 DEF Estimate
    <3> HIDE DEF elapsed, velocity
    <3>4. elapsed * velocity = velocity * elapsed
      BY <3>1
    <3> QED
      BY <3>2, <3>3, <3>4 DEF Payout
  <2>3. CASE ~(upto > c.checkpoint)
    <3>1. AccruedDebt(c, now) = 0
      BY <1>5, <1>6, <2>1, <2>3 DEF AccruedDebt
    <3>2. Estimate(c, now) = 0
      BY <2>3 DEF Estimate
    <3> QED
      BY <1>5, <3>1, <3>2 DEF Payout, Lesser
  <2> QED
    BY <2>2, <2>3
<1>8. Payout(c, now) \in Nat
  BY <1>1, SettledEntry
<1> QED
  BY <1>4, <1>6, <1>7, <1>8

\* Taking a served stream off the list keeps the rest of it.
LEMMA ListShrinks ==
    ASSUME NEW left \in Seq(Log), left # <<>>, NEW Good, Head(left).id \in Good,
           \A id \in PaycardIds : id \in Good \/ \E k \in 1..Len(left) : left[k].id = id
    PROVE  /\ Tail(left) \in Seq(Log) /\ Len(Tail(left)) = Len(left) - 1
           /\ Len(left) \in Nat
           /\ \A id \in PaycardIds :
                 id \in Good \/ \E k \in 1..Len(Tail(left)) : Tail(left)[k].id = id
<1>1. /\ Tail(left) \in Seq(Log) /\ Len(Tail(left)) = Len(left) - 1
      /\ Len(left) \in Nat
      /\ \A k \in 1..Len(Tail(left)) : Tail(left)[k] = left[k + 1]
      /\ Head(left) = left[1]
  BY HeadTailProperties
<1>2. ASSUME NEW id \in PaycardIds, id \notin Good
      PROVE  \E k \in 1..Len(Tail(left)) : Tail(left)[k].id = id
  <2>1. PICK k \in 1..Len(left) : left[k].id = id
    BY <1>2
  <2>2. k # 1
    BY <1>1, <1>2, <2>1
  <2>3. k - 1 \in 1..Len(Tail(left)) /\ (k - 1) + 1 = k
    BY <1>1, <2>1, <2>2
  <2> QED
    BY <1>1, <2>1, <2>3
<1> QED
  BY <1>1, <1>2

-----------------------------------------------------------------------------
(* Steps.                                                                  *)

\* The fields of a run.
LEMMA RunFields ==
    ASSUME KeeperTypeOK, NEW r \in Runs
    PROVE  /\ runs[r].on \in BOOLEAN /\ runs[r].left \in Seq(Log)
           /\ runs[r].clock \in Nat /\ runs[r].settled \in Nat
           /\ runs[r].sending \in BOOLEAN
<1>1. runs[r] \in Run
  BY DEF KeeperTypeOK
<1> QED
  BY <1>1 DEF Run

\* A step that leaves vault and logs alone leaves what is served alone.
LEMMA VaultAlone ==
    ASSUME BooksInv, Logged, UNCHANGED <<vault, provisioned>>
    PROVE  /\ BooksInv' /\ Logged' /\ Listed' = Listed /\ now' = now
           /\ \A id \in PaycardIds : Served(id)' <=> Served(id)
<1>1. UNCHANGED vars /\ provisioned' = provisioned
  BY DEF vault, vars, admin, money
<1>2. BooksInv'
  BY <1>1, BooksStep
<1>3. now' = now /\ registry' = registry /\ paid' = paid
  BY <1>1 DEF vars
<1>4. Logged' /\ Listed' = Listed
  BY <1>1, <1>3 DEF Logged, Registered, Listed
<1>5. ASSUME NEW id \in PaycardIds PROVE Served(id)' <=> Served(id)
  BY <1>1, <1>3 DEF Served, Sweepable, Arrears, OpenedAt, Registered
<1> QED
  BY <1>2, <1>3, <1>4, <1>5

\* What the calls around the runs do.
LEMMA VaultStepIs ==
    ASSUME BooksInv, KeeperTypeOK, VaultStep
    PROVE  /\ UNCHANGED <<runs, failures>>
           /\ \/ VaultCall /\ Extended /\ swept' = swept
              \/ /\ Tick /\ swept /\ swept' = FALSE
                 /\ provisioned' = provisioned
<1> DEFINE Any == \E id \in PaycardIds : Opening(id)
           it == CHOOSE id \in PaycardIds : Opening(id)
<1>1. /\ UNCHANGED <<runs, failures>>
      /\ swept' = (swept /\ now' = now)
      /\ provisioned' = IF Any THEN Append(provisioned, [id |-> it, at |-> now])
                        ELSE provisioned
      /\ (Tick /\ swept) \/ VaultCall
  BY DEF VaultStep, VaultCall
<1>2. CASE Tick /\ swept
  <2>1. now \in Nat /\ now' = now + 1 /\ registry' = registry
    BY <1>2 DEF BooksInv, TypeOK, Tick, money
  <2>2. ~Any
    BY <2>1 DEF Opening, Registered
  <2>3. now' # now
    BY <2>1
  <2>4. swept' = FALSE
    BY <1>1, <2>3, Zenon
  <2> QED
    BY <1>1, <1>2, <2>2, <2>4
<1>3. CASE VaultCall
  <2>1. now' = now
    BY <1>3, CallIsStep
  <2>2. swept' = swept
    BY <1>1, <2>1 DEF KeeperTypeOK
  <2>3. CASE \A j \in PaycardIds : Opened(registry'[j]) <=> Registered(j)
    <3>1. ~Any
      BY <2>3 DEF Opening
    <3>2. Extended
      BY <1>1, <2>1, <2>3, <3>1 DEF Extended
    <3> QED
      BY <1>1, <1>3, <2>2, <3>2
  <2>4. ASSUME NEW id \in PaycardIds, ~Registered(id),
               \A j \in PaycardIds :
                   Opened(registry'[j]) <=> Registered(j) \/ j = id
        PROVE  Extended
    <3>1. \A j \in PaycardIds : Opening(j) <=> j = id
      BY <2>4 DEF Opening
    <3>2. Any /\ it = id
      BY <3>1
    <3>3. provisioned' = Append(provisioned, [id |-> id, at |-> now])
      BY <1>1, <3>2
    <3> QED
      BY <2>1, <2>4, <3>3 DEF Extended
  <2> QED
    BY <1>1, <1>3, <2>2, <2>3, <2>4, CallOpens
<1> QED
  BY <1>1, <1>2, <1>3

\* Calls around the runs, and time that passes between two runs of the cron.
LEMMA AroundKeeps ==
    ASSUME SweepInv, VaultStep
    PROVE  SweepInv'
<1> USE DEF SweepInv
<1>1. UNCHANGED <<runs, failures>> /\ now \in Nat /\ Cron \in Runs
  BY VaultStepIs DEF BooksInv, TypeOK
<1>2. CASE VaultCall /\ Extended /\ swept' = swept
  <2>1. BooksInv'
    BY <1>2, CallIsStep, BooksStep
  <2>2. /\ provisioned' \in Seq(Log) /\ Logged' /\ now' = now
        /\ Len(Listed) \in Nat /\ Len(Listed') \in Nat /\ Len(Listed) <= Len(Listed')
    BY <1>1, <1>2, LogsExtend, ListedGrows DEF Extended
  <2>3. KeeperTypeOK' /\ CronInTime'
    BY <1>1, <1>2, <2>2 DEF KeeperTypeOK, CronInTime
  <2>4. \A id \in PaycardIds : Served(id) => Served(id)'
    BY <1>2, ServedStays
  <2>5. OnTheList'
    <3> DEFINE left == runs[Cron].left
               done == runs[Cron].settled
    <3> SUFFICES ASSUME failures = 0, runs[Cron].on
                 PROVE  /\ done + Len(left) <= Len(Listed')
                        /\ \A id \in PaycardIds :
                              Served(id)' \/ \E k \in 1..Len(left) : left[k].id = id
      BY <1>1 DEF OnTheList
    <3>1. /\ done + Len(left) <= Len(Listed)
          /\ \A id \in PaycardIds :
                Served(id) \/ \E k \in 1..Len(left) : left[k].id = id
      BY DEF OnTheList
    <3>2. done \in Nat /\ Len(left) \in Nat
      BY <1>1, RunFields
    <3> QED
      BY <2>2, <2>4, <3>1, <3>2
  <2>6. SweepLeavesDust'
    <3> SUFFICES ASSUME swept, failures = 0, Len(Listed') <= BatchLimit,
                        NEW id \in PaycardIds
                 PROVE  Served(id)'
      BY <1>1, <1>2 DEF SweepLeavesDust, Served
    <3>1. Len(Listed) <= BatchLimit
      BY <2>2
    <3>2. Served(id)
      BY <3>1 DEF SweepLeavesDust, Served
    <3> QED
      BY <2>4, <3>2
  <2> QED
    BY <2>1, <2>2, <2>3, <2>5, <2>6
<1>3. CASE Tick /\ swept /\ swept' = FALSE /\ provisioned' = provisioned
  <2>1. now' = now + 1 /\ now < MaxTime /\ registry' = registry
    BY <1>3 DEF Tick, money
  <2>2. BooksInv'
    BY <1>3, TickKeepsInvariant
  <2>3. Logged'
    BY <1>1, <1>3, <2>1, LogAt DEF Logged, Registered
  <2>4. ~runs[Cron].on
    BY <1>1, <1>3, <2>1 DEF CronInTime
  <2>5. KeeperTypeOK' /\ CronInTime' /\ OnTheList' /\ SweepLeavesDust'
    BY <1>1, <1>3, <2>4 DEF KeeperTypeOK, CronInTime, OnTheList, SweepLeavesDust
  <2> QED
    BY <2>2, <2>3, <2>5
<1> QED
  BY <1>2, <1>3, VaultStepIs

\* A run begins with the whole list.
LEMMA StartKeeps ==
    ASSUME SweepInv, NEW r \in Runs, StartRun(r)
    PROVE  SweepInv'
<1> USE DEF SweepInv
<1> DEFINE x == [Resting EXCEPT !.on = TRUE, !.left = Listed, !.clock = now]
<1>1. /\ ~runs[r].on /\ (r = Cron => ~swept \/ now = MaxTime)
      /\ runs' = [runs EXCEPT ![r] = x]
      /\ UNCHANGED <<vault, provisioned, swept, failures>>
  BY DEF StartRun
<1>2. /\ BooksInv' /\ Logged' /\ Listed' = Listed /\ now' = now /\ now \in Nat
      /\ \A id \in PaycardIds : Served(id)' <=> Served(id)
  BY <1>1, VaultAlone DEF BooksInv, TypeOK
<1>3. Listed \in Seq(Log) /\ Len(Listed) \in Nat
  BY <1>2, ListedWindow
<1>4. /\ x \in Run /\ x.on /\ x.left = Listed /\ x.clock = now /\ x.settled = 0
      /\ ~x.sending
  BY <1>2, <1>3 DEF Resting, Run
<1> HIDE DEF x
<1>5. /\ runs' \in [Runs -> Run] /\ runs'[r] = x
      /\ \A s \in Runs : s # r => runs'[s] = runs[s]
  BY <1>1, <1>4 DEF KeeperTypeOK
<1>6. KeeperTypeOK'
  BY <1>1, <1>4, <1>5 DEF KeeperTypeOK
<1>7. CronInTime'
  BY <1>1, <1>2, <1>4, <1>5 DEF CronInTime
<1>8. OnTheList'
  <2>1. CASE r # Cron
    BY <1>1, <1>2, <1>5, <2>1 DEF OnTheList
  <2>2. CASE r = Cron
    <3>1. ASSUME NEW id \in PaycardIds, ~Served(id)
          PROVE  \E k \in 1..Len(Listed) : Listed[k].id = id
      <4>1. Registered(id) /\ now - Window <= OpenedAt(id)
        BY <3>1 DEF Served, Sweepable
      <4>2. PICK i \in 1..Len(provisioned) : provisioned[i].id = id
        BY <4>1 DEF Logged
      <4>3. OpenedAt(id) = AtIn(provisioned, id)
        BY DEF OpenedAt, AtIn
      <4>4. AtIn(provisioned, provisioned[i].id) = provisioned[i].at
        BY OpenedAtItsLog DEF Logged
      <4>5. now - Window <= provisioned[i].at
        BY <4>1, <4>2, <4>3, <4>4
      <4> QED
        BY <1>2, <4>2, <4>5, ListedWindow
    <3>2. runs'[Cron].left = Listed /\ runs'[Cron].settled = 0
      BY <1>4, <1>5, <2>2
    <3>3. 0 + Len(Listed) <= Len(Listed)
      BY <1>3
    <3> QED
      BY <1>2, <3>1, <3>2, <3>3 DEF OnTheList
  <2> QED
    BY <2>1, <2>2
<1>9. SweepLeavesDust'
  BY <1>1, <1>2 DEF SweepLeavesDust, Served
<1> QED
  BY <1>2, <1>6, <1>7, <1>8, <1>9

\* A run's local variables after it has dealt with a stream.
LEMMA ProceedFields ==
    ASSUME KeeperTypeOK, NEW r \in Runs, runs[r].left # <<>>,
           NEW n \in Nat, Proceed(r, n)
    PROVE  /\ runs' \in [Runs -> Run]
           /\ runs'[r].on = runs[r].on /\ runs'[r].clock = runs[r].clock
           /\ runs'[r].left = Tail(runs[r].left) /\ ~runs'[r].sending
           /\ runs'[r].settled = runs[r].settled + n
           /\ \A s \in Runs : s # r => runs'[s] = runs[s]
<1> DEFINE x == [runs[r] EXCEPT !.left = Tail(@), !.sending = FALSE,
                                !.settled = @ + n]
<1>1. runs \in [Runs -> Run] /\ runs[r] \in Run
  BY DEF KeeperTypeOK
<1>2. Tail(runs[r].left) \in Seq(Log) /\ runs[r].settled + n \in Nat
  BY RunFields, HeadTailProperties
<1>3. runs' = [runs EXCEPT ![r] = x]
  BY <1>1 DEF Proceed
<1>4. /\ x \in Run
      /\ x.on = runs[r].on /\ x.clock = runs[r].clock
      /\ x.left = Tail(runs[r].left) /\ ~x.sending
      /\ x.settled = runs[r].settled + n
  BY <1>1, <1>2 DEF Run
<1> HIDE DEF x
<1> QED
  BY <1>1, <1>3, <1>4

\* A run that has dealt with a stream leaves it served, unless something failed.
LEMMA ProceedKeeps ==
    ASSUME SweepInv, NEW r \in Runs, runs[r].left # <<>>,
           NEW n \in {0, 1}, Proceed(r, n),
           BooksInv', Logged', now' = now, swept' = swept,
           provisioned' = provisioned,
           \/ failures' = failures + 1
           \/ /\ failures' = failures
              /\ \A id \in PaycardIds :
                    Served(id) \/ id = Current(r) => Served(id)'
    PROVE  SweepInv'
<1> USE DEF SweepInv
<1>1. /\ runs' \in [Runs -> Run]
      /\ runs'[r].on = runs[r].on /\ runs'[r].clock = runs[r].clock
      /\ runs'[r].left = Tail(runs[r].left) /\ ~runs'[r].sending
      /\ runs'[r].settled = runs[r].settled + n
      /\ \A s \in Runs : s # r => runs'[s] = runs[s]
  BY ProceedFields
<1>2. failures \in Nat /\ failures' \in Nat
  BY DEF KeeperTypeOK
<1>3. KeeperTypeOK'
  BY <1>1, <1>2 DEF KeeperTypeOK
<1>4. CronInTime'
  BY <1>1 DEF CronInTime
<1>5. CASE failures' = failures + 1
  <2>1. failures' # 0
    BY <1>2, <1>5
  <2> QED
    BY <1>3, <1>4, <2>1 DEF OnTheList, SweepLeavesDust
<1>6. CASE /\ failures' = failures
           /\ \A id \in PaycardIds : Served(id) \/ id = Current(r) => Served(id)'
  <2>1. Listed' = Listed
    BY DEF Listed
  <2>2. SweepLeavesDust'
    BY <1>6, <2>1 DEF SweepLeavesDust, Served
  <2>3. OnTheList'
    <3>1. CASE r # Cron
      BY <1>1, <1>6, <2>1, <3>1 DEF OnTheList
    <3>2. CASE r = Cron
      <4> DEFINE left == runs[Cron].left
                 Good == {id \in PaycardIds : Served(id)'}
      <4>a. /\ runs'[Cron].on = runs[Cron].on /\ failures' = failures
            /\ runs'[Cron].left = Tail(left) /\ Listed' = Listed
        BY <1>1, <1>6, <2>1, <3>2
      <4> SUFFICES ASSUME failures = 0, runs[Cron].on
                   PROVE  /\ runs'[Cron].settled + Len(Tail(left)) <= Len(Listed)
                          /\ \A id \in PaycardIds : Served(id)'
                                \/ \E k \in 1..Len(Tail(left)) : Tail(left)[k].id = id
        <5> HIDE DEF left
        <5> QED
          BY <4>a DEF OnTheList
      <4>1. /\ runs[Cron].settled + Len(left) <= Len(Listed)
            /\ \A id \in PaycardIds :
                  Served(id) \/ \E k \in 1..Len(left) : left[k].id = id
        BY DEF OnTheList
      <4>2. left \in Seq(Log) /\ left # <<>> /\ runs[Cron].settled \in Nat
        BY <3>2, RunFields
      <4>3. Head(left).id \in Good
        <5>1. Head(left) \in Log
          BY <4>2, HeadTailProperties
        <5> QED
          BY <1>6, <3>2, <5>1 DEF Log, Current
      <4>4. \A id \in PaycardIds :
                id \in Good \/ \E k \in 1..Len(left) : left[k].id = id
        BY <1>6, <4>1
      <4>5. Listed \in Seq(Log) /\ Len(Listed) \in Nat
        BY ListedWindow DEF BooksInv, TypeOK
      <4>6. /\ Len(Tail(left)) = Len(left) - 1 /\ Len(left) \in Nat
            /\ \A id \in PaycardIds : id \in Good
                  \/ \E k \in 1..Len(Tail(left)) : Tail(left)[k].id = id
        <5> HIDE DEF left, Good
        <5> QED
          BY <4>2, <4>3, <4>4, ListShrinks
      <4>7. runs'[Cron].settled + Len(Tail(left)) <= Len(Listed)
        <5>1. runs'[Cron].settled = runs[Cron].settled + n
          BY <1>1, <3>2
        <5> QED
          BY <4>1, <4>2, <4>5, <4>6, <5>1
      <4> QED
        BY <4>6, <4>7
    <3> QED
      BY <3>1, <3>2
  <2> QED
    BY <1>3, <1>4, <2>2, <2>3
<1> QED
  BY <1>5, <1>6

\* Reading the registry decides what a run sends, and takes off its list only
\* what needs no transaction.
LEMMA ExamineKeeps ==
    ASSUME SweepInv, NEW r \in Runs, Examine(r)
    PROVE  SweepInv'
<1> USE DEF SweepInv
<1> DEFINE cur == Current(r)
<1>1. /\ runs[r].on /\ ~runs[r].sending /\ runs[r].left # <<>>
      /\ UNCHANGED <<vault, provisioned, swept, failures>>
      /\ runs' = IF Worth(registry[cur], runs[r].clock)
                 THEN [runs EXCEPT ![r].sending = TRUE]
                 ELSE [runs EXCEPT ![r].left = Tail(@)]
  BY DEF Examine
<1>2. /\ BooksInv' /\ Logged' /\ Listed' = Listed /\ now' = now
      /\ \A id \in PaycardIds : Served(id)' <=> Served(id)
  BY <1>1, VaultAlone
<1>3. runs[r].left \in Seq(Log) /\ runs[r] \in Run /\ runs[r].settled \in Nat
  BY RunFields DEF KeeperTypeOK
<1>4. cur \in PaycardIds
  <2>1. Head(runs[r].left) \in Log
    BY <1>1, <1>3, HeadTailProperties
  <2> QED
    BY <2>1 DEF Current, Log
<1>5. CASE Worth(registry[cur], runs[r].clock)
  <2> DEFINE x == [runs[r] EXCEPT !.sending = TRUE]
  <2>1. runs' = [runs EXCEPT ![r] = x]
    BY <1>1, <1>5 DEF KeeperTypeOK
  <2>2. /\ x \in Run /\ x.on = runs[r].on /\ x.clock = runs[r].clock
        /\ x.left = runs[r].left /\ x.settled = runs[r].settled
    BY <1>3 DEF Run
  <2> HIDE DEF x
  <2>3. /\ runs' \in [Runs -> Run] /\ runs'[r] = x
        /\ \A s \in Runs : s # r => runs'[s] = runs[s]
    BY <2>1, <2>2 DEF KeeperTypeOK
  <2>4. KeeperTypeOK'
    BY <1>1, <2>2, <2>3 DEF KeeperTypeOK
  <2>5. /\ runs'[Cron].on = runs[Cron].on /\ runs'[Cron].clock = runs[Cron].clock
        /\ runs'[Cron].left = runs[Cron].left
        /\ runs'[Cron].settled = runs[Cron].settled
    BY <2>2, <2>3
  <2>6. CronInTime' /\ OnTheList' /\ SweepLeavesDust'
    BY <1>1, <1>2, <2>5 DEF CronInTime, OnTheList, SweepLeavesDust, Served
  <2> QED
    BY <1>2, <2>4, <2>6
<1>6. CASE ~Worth(registry[cur], runs[r].clock)
  <2>1. Proceed(r, 0)
    <3> DEFINE x == [runs[r] EXCEPT !.left = Tail(@)]
               y == [runs[r] EXCEPT !.left = Tail(@), !.sending = FALSE,
                                    !.settled = @ + 0]
    <3>1. runs' = [runs EXCEPT ![r] = x]
      BY <1>1, <1>6 DEF KeeperTypeOK
    <3>2. x = y
      <4>1. runs[r].sending = FALSE /\ runs[r].settled + 0 = runs[r].settled
        BY <1>1, <1>3 DEF Run
      <4>2. x = [x EXCEPT !.sending = FALSE, !.settled = @ + 0]
        BY <1>3, <4>1 DEF Run
      <4> QED
        BY <1>3, <4>2 DEF Run
    <3> QED
      BY <3>1, <3>2 DEF Proceed, KeeperTypeOK
  <2>2. CASE r = Cron
    <3>1. runs[r].clock = now
      BY <1>1, <2>2 DEF CronInTime
    <3>2. Served(cur)
      BY <1>4, <1>6, <3>1, NotWorthIsServed
    <3>3. \A id \in PaycardIds : Served(id) \/ id = Current(r) => Served(id)'
      BY <1>2, <3>2
    <3> QED
      BY <1>1, <1>2, <2>1, <3>3, ProceedKeeps
  <2>3. CASE r # Cron
    <3>1. /\ runs' \in [Runs -> Run] /\ ~runs'[r].sending
          /\ \A s \in Runs : s # r => runs'[s] = runs[s]
      BY <1>1, <2>1, <2>3, ProceedFields
    <3>2. KeeperTypeOK'
      BY <1>1, <3>1 DEF KeeperTypeOK
    <3>3. runs'[Cron] = runs[Cron]
      BY <2>3, <3>1
    <3>4. CronInTime' /\ OnTheList'
      BY <1>1, <1>2, <3>3 DEF CronInTime, OnTheList
    <3>5. SweepLeavesDust'
      BY <1>1, <1>2 DEF SweepLeavesDust, Served
    <3> QED
      BY <1>2, <3>2, <3>4, <3>5
  <2> QED
    BY <2>2, <2>3
<1> QED
  BY <1>5, <1>6

\* A settlement that lands serves its stream; a run that fails to learn of it
\* promises nothing.
LEMMA SubmitKeeps ==
    ASSUME SweepInv, NEW r \in Runs, Submit(r)
    PROVE  SweepInv'
<1> USE DEF SweepInv
<1>1. /\ runs[r].left # <<>> /\ ProcessDripSettle(Current(r))
      /\ \/ Proceed(r, 1) /\ failures' = failures
         \/ Proceed(r, 0) /\ failures' = failures + 1
      /\ provisioned' = provisioned /\ swept' = swept
  BY DEF Submit, Fail, KeeperTypeOK
<1>2. Current(r) \in PaycardIds
  <2>1. Head(runs[r].left) \in Log
    BY <1>1, RunFields, HeadTailProperties
  <2> QED
    BY <2>1 DEF Current, Log
<1>3. VaultCall
  BY <1>1, <1>2 DEF VaultCall
<1>4. Next /\ now' = now /\ now \in Nat
  BY <1>3, CallIsStep DEF BooksInv, TypeOK
<1>5. BooksInv'
  BY <1>4, BooksStep
<1>6. registry \in [PaycardIds -> Card] /\ registry' \in [PaycardIds -> Card]
  BY <1>5 DEF BooksInv, TypeOK
<1>7. Extended
  <2> SUFFICES ASSUME NEW j \in PaycardIds
               PROVE  Opened(registry'[j]) <=> Registered(j)
    BY <1>1, <1>4 DEF Extended
  <2> DEFINE id == Current(r)
             c == registry[id]
  <2>1. registry' = [registry EXCEPT ![id] = Settled(c, now)]
    BY <1>1 DEF ProcessDripSettle, Release
  <2>2. Settled(c, now).payer = c.payer
    <3>1. c \in Card
      BY <1>2, <1>6
    <3> HIDE DEF c
    <3>2. PICK cp \in Nat, st \in ChannelStatus :
              Settled(c, now) = Moved(c, Residual(c, now), cp, st)
      BY <1>4, <3>1, SettledEntry
    <3>3. Residual(c, now) \in Nat
      BY <1>4, <3>1, SettledEntry
    <3> QED
      BY <1>4, <3>1, <3>2, <3>3, SettledFields
  <2> QED
    BY <1>2, <1>6, <2>1, <2>2 DEF Registered, Opened
<1>8. Logged'
  BY <1>4, <1>7, LogsExtend
<1>9. ASSUME NEW id \in PaycardIds, Served(id) \/ id = Current(r)
      PROVE  Served(id)'
  <2>1. CASE Served(id)
    BY <1>3, <1>7, <2>1, ServedStays
  <2>2. CASE id = Current(r) /\ Registered(id)
    <3>1. Escrow!Entitlement(registry'[id], now) - paid'[id] = 0
      BY <1>1, <2>2, SettlePaysUp
    <3>2. Arrears(id)' = Escrow!Entitlement(registry'[id], now) - paid'[id]
      BY <1>4 DEF Arrears
    <3> QED
      BY <3>1, <3>2 DEF Served
  <2>3. CASE ~Registered(id)
    BY <1>3, <1>7, <2>3, ServedStays DEF Served, Sweepable
  <2> QED
    BY <1>9, <2>1, <2>2, <2>3
<1> QED
  BY <1>1, <1>4, <1>5, <1>8, <1>9, ProceedKeeps

\* The vault turns a settlement down for a stream that is closed or cannot be
\* settled by anybody.
LEMMA RevertedKeeps ==
    ASSUME SweepInv, NEW r \in Runs, Reverted(r)
    PROVE  SweepInv'
<1> USE DEF SweepInv
<1>1. /\ runs[r].left # <<>> /\ Proceed(r, 0)
      /\ ~(Active(registry[Current(r)]) /\ Representable(registry[Current(r)], now))
      /\ UNCHANGED <<vault, provisioned, swept, failures>>
  BY DEF Reverted, MaySettle, KeeperTypeOK
<1>2. /\ BooksInv' /\ Logged' /\ now' = now
      /\ \A id \in PaycardIds : Served(id)' <=> Served(id)
  BY <1>1, VaultAlone
<1>3. \A id \in PaycardIds : id = Current(r) => Served(id)
  BY <1>1 DEF Served, Sweepable
<1> QED
  BY <1>1, <1>2, <1>3, ProceedKeeps

\* What is lost counts as a failure.
LEMMA LostKeeps ==
    ASSUME SweepInv, NEW r \in Runs, Lost(r)
    PROVE  SweepInv'
<1> USE DEF SweepInv
<1>1. /\ runs[r].left # <<>> /\ Proceed(r, 0) /\ failures' = failures + 1
      /\ UNCHANGED <<vault, provisioned, swept>>
  BY DEF Lost, Fail
<1>2. BooksInv' /\ Logged' /\ now' = now
  BY <1>1, VaultAlone
<1> QED
  BY <1>1, <1>2, ProceedKeeps

\* A run of the cron that ends by itself has served what it listed.
LEMMA FinishKeeps ==
    ASSUME SweepInv, NEW r \in Runs, EndRun(r) \/ KillRun(r)
    PROVE  SweepInv'
<1> USE DEF SweepInv
<1>1. /\ runs[r].on /\ runs' = [runs EXCEPT ![r] = Resting]
      /\ swept' = (swept \/ r = Cron)
      /\ UNCHANGED <<vault, provisioned>>
      /\ \/ failures' = failures + 1
         \/ /\ failures' = failures
            /\ runs[r].left = <<>> \/ runs[r].settled >= BatchLimit
  BY DEF EndRun, KillRun, Finish, Fail
<1>2. /\ BooksInv' /\ Logged' /\ Listed' = Listed /\ now' = now
      /\ \A id \in PaycardIds : Served(id)' <=> Served(id)
  BY <1>1, VaultAlone
<1>3. Resting \in Run /\ ~Resting.on /\ ~Resting.sending
  BY DEF Resting, Run
<1>4. /\ runs' \in [Runs -> Run] /\ runs'[r] = Resting
      /\ \A s \in Runs : s # r => runs'[s] = runs[s]
  BY <1>1, <1>3 DEF KeeperTypeOK
<1>5. failures \in Nat /\ failures' \in Nat /\ swept' \in BOOLEAN
  BY <1>1 DEF KeeperTypeOK
<1>6. KeeperTypeOK'
  BY <1>1, <1>3, <1>4, <1>5 DEF KeeperTypeOK
<1>7. CASE r = Cron
  <2>1. CronInTime' /\ OnTheList'
    BY <1>3, <1>4, <1>7 DEF CronInTime, OnTheList
  <2>2. SweepLeavesDust'
    <3> SUFFICES ASSUME failures' = 0, Len(Listed) <= BatchLimit,
                        NEW id \in PaycardIds
                 PROVE  Served(id)
      BY <1>2 DEF SweepLeavesDust, Served
    <3> DEFINE left == runs[Cron].left
               done == runs[Cron].settled
    <3>1. failures' = failures /\ (left = <<>> \/ done >= BatchLimit)
      BY <1>1, <1>5, <1>7
    <3>2. /\ done + Len(left) <= Len(Listed)
          /\ \A j \in PaycardIds :
                Served(j) \/ \E k \in 1..Len(left) : left[k].id = j
      BY <1>1, <1>7, <3>1 DEF OnTheList
    <3>3. Listed \in Seq(Log) /\ left \in Seq(Log) /\ done \in Nat
      BY RunFields, ListedWindow DEF BooksInv, TypeOK
    <3>4. Len(left) = 0
      <4>1. Len(left) \in Nat /\ Len(Listed) \in Nat
        BY <3>3
      <4>2. CASE left = <<>>
        BY <4>2
      <4>3. CASE done >= BatchLimit
        <5> HIDE DEF left, done
        <5> QED
          BY <3>2, <3>3, <4>1, <4>3
      <4> QED
        BY <3>1, <4>2, <4>3
    <3> QED
      BY <3>2, <3>4
  <2> QED
    BY <1>2, <1>6, <2>1, <2>2
<1>8. CASE r # Cron
  <2>1. runs'[Cron] = runs[Cron] /\ swept' = swept
    BY <1>1, <1>4, <1>8 DEF KeeperTypeOK
  <2>2. failures' = 0 => failures = 0
    BY <1>1, <1>5
  <2>3. CronInTime'
    BY <1>2, <2>1 DEF CronInTime
  <2>4. OnTheList'
    BY <1>2, <2>1, <2>2 DEF OnTheList
  <2>5. SweepLeavesDust'
    BY <1>2, <2>1, <2>2 DEF SweepLeavesDust, Served
  <2> QED
    BY <1>2, <1>6, <2>3, <2>4, <2>5
<1> QED
  BY <1>7, <1>8

\* Before the first run nothing is registered.
LEMMA SweepInitially == KeeperInit => SweepInv
<1> SUFFICES ASSUME KeeperInit PROVE SweepInv
  OBVIOUS
<1>1. BooksInv
  BY BooksInitially DEF KeeperInit
<1>2. Resting \in Run /\ ~Resting.on /\ ~Resting.sending
  BY DEF Resting, Run
<1>3. KeeperTypeOK
  <2>1. /\ provisioned = <<>> /\ swept = FALSE /\ failures = 0
        /\ runs = [r \in Runs |-> Resting]
    BY DEF KeeperInit
  <2>2. provisioned \in Seq(Log)
    BY <2>1
  <2>3. runs \in [Runs -> Run] /\ \A r \in Runs : ~runs[r].sending
    BY <1>2, <2>1
  <2> QED
    BY <2>1, <2>2, <2>3 DEF KeeperTypeOK
<1>4. Logged
  <2>1. \A id \in PaycardIds : ~Registered(id)
    BY DEF KeeperInit, Init, Registered, Opened, Blank
  <2> QED
    BY <2>1 DEF KeeperInit, Logged
<1>5. CronInTime /\ OnTheList /\ SweepLeavesDust
  BY <1>2 DEF KeeperInit, CronInTime, OnTheList, SweepLeavesDust
<1> QED
  BY <1>1, <1>3, <1>4, <1>5 DEF SweepInv

\* Every step of vault and runs keeps the sweep's invariant.
LEMMA SweepStep == SweepInv /\ [KeeperNext]_<<vault, keeper>> => SweepInv'
<1> SUFFICES ASSUME SweepInv, [KeeperNext]_<<vault, keeper>> PROVE SweepInv'
  OBVIOUS
<1>1. CASE UNCHANGED <<vault, keeper>>
  <2>1. /\ UNCHANGED <<vault, provisioned>>
        /\ UNCHANGED <<runs, swept, failures>>
    BY <1>1 DEF keeper
  <2>2. /\ BooksInv' /\ Logged' /\ Listed' = Listed /\ now' = now
        /\ \A id \in PaycardIds : Served(id)' <=> Served(id)
    BY <2>1, VaultAlone DEF SweepInv
  <2>3. KeeperTypeOK' /\ CronInTime' /\ OnTheList'
    BY <2>1, <2>2 DEF SweepInv, KeeperTypeOK, CronInTime, OnTheList
  <2>4. SweepLeavesDust'
    BY <2>1, <2>2 DEF SweepInv, SweepLeavesDust, Served
  <2> QED
    BY <2>2, <2>3, <2>4 DEF SweepInv
<1>2. ASSUME NEW r \in Runs, StartRun(r) \/ RunStep(r) \/ Lost(r) \/ KillRun(r)
      PROVE  SweepInv'
  BY <1>2, StartKeeps, ExamineKeeps, SubmitKeeps, RevertedKeeps, LostKeeps,
     FinishKeeps DEF RunStep
<1> QED
  BY <1>1, <1>2, AroundKeeps DEF KeeperNext

\* The inductive invariant of the sweep: books, logs in order, the cron's run in
\* time, and every stream served or still on its list.
THEOREM SweepAlways == KeeperSpec => []SweepInv
  BY SweepInitially, SweepStep, PTL DEF KeeperSpec

\* An undisturbed run of the cron whose batch holds its list leaves no stream of
\* its window more than dust behind its schedule, for any number of streams and
\* runs and whatever anybody else does at the same time.
THEOREM SweepLeavesDustAlways == KeeperSpec => []SweepLeavesDust
<1>1. SweepInv => SweepLeavesDust
  BY DEF SweepInv
<1> QED
  BY <1>1, SweepAlways, PTL
-----------------------------------------------------------------------------
(* The keeper is one more caller of the vault.                             *)

\* Whatever a run or anybody else does is a step of the vault or leaves it alone:
\* a settlement sent by a run is one of a paycard the vault may have.
LEMMA KeeperStepIsVaultStep ==
    SweepInv /\ [KeeperNext]_<<vault, keeper>> => [Next]_vars
<1> SUFFICES ASSUME SweepInv, [KeeperNext]_<<vault, keeper>> PROVE [Next]_vars
  OBVIOUS
<1>1. UNCHANGED vault => UNCHANGED vars
  BY DEF vault, vars, admin, money
<1>2. ASSUME VaultStep PROVE Next
  BY <1>2 DEF VaultStep, Next
<1>3. ASSUME NEW r \in Runs, Submit(r) PROVE Next
  <2>1. Current(r) \in PaycardIds
    <3>1. runs[r].left \in Seq(Log) /\ runs[r].left # <<>>
      BY <1>3, RunFields DEF Submit, SweepInv, KeeperTypeOK
    <3>2. Head(runs[r].left) \in Log
      BY <3>1, HeadTailProperties
    <3> QED
      BY <3>2 DEF Current, Log
  <2> QED
    BY <1>3, <2>1 DEF Submit, Next
<1>4. \A r \in Runs : StartRun(r) \/ Examine(r) \/ Reverted(r) \/ EndRun(r) \/ Lost(r) \/ KillRun(r)
        => UNCHANGED vault
  BY DEF StartRun, Examine, Reverted, EndRun, Lost, KillRun, Finish
<1>5. UNCHANGED <<vault, keeper>> => UNCHANGED vault
  OBVIOUS
<1> QED
  BY <1>1, <1>2, <1>3, <1>4, <1>5 DEF KeeperNext, RunStep

\* The vault with its keeper is a vault, so all that is proved of the one holds
\* of the other.
THEOREM KeeperRefinesVault == KeeperSpec => Spec
<1>1. KeeperInit => Init
  BY DEF KeeperInit
<1> QED
  BY <1>1, SweepAlways, KeeperStepIsVaultStep, PTL DEF KeeperSpec, Spec

=============================================================================
