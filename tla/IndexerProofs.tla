---------------------------- MODULE IndexerProofs ----------------------------
(***************************************************************************)
(* The cursor never passes over an event, a row never shows less than its  *)
(* vault holds, and an undisturbed row with every event on record reads as *)
(* the contract does: for any number of vaults, ticks that overlap or end  *)
(* half way, and any length of the chain.                                  *)
(***************************************************************************)
EXTENDS Indexer, WellFoundedInduction, SequenceTheorems, TLAPS

LogEvent == [block : Nat, kind : {"provisioned", "settled", "reclaimed"}, amount : Int]
CardState == [available : Int, status : {"none", "Active", "Terminated"}]
TickState == [at : Steps, vault : ScanKeys, head : Nat, used : Nat, from : Nat,
              to : Nat, fresh : BOOLEAN, batch : SUBSET (Nat \cup Clones),
              todo : Seq(Vaults), balance : Int]

ChainTypes ==
    /\ head \in Nat
    /\ deployedAt \in [Vaults -> Nat]
    /\ \A v \in Vaults : deployedAt[v] <= head
    /\ registry \in [Vaults -> CardState]
    /\ logs \in [Vaults -> Seq(LogEvent)]
    /\ \A v \in Vaults : \A i \in DOMAIN logs[v] : logs[v][i].block <= head

TableTypes ==
    /\ watched \in Seq(Vaults)
    /\ cursor \in [ScanKeys -> Nat \cup {Unscanned}]
    /\ \A k \in ScanKeys : cursor[k] <= head
    /\ since \in [ScanKeys -> Nat]
    /\ recorded \in [Vaults -> SUBSET Nat]
    /\ row \in [Vaults -> CardState]

Types == ChainTypes /\ TableTypes /\ tick \in [Ticks -> TickState]

\* What is on record of the log of k.
Kept(k) == IF k = Factory THEN {v \in Clones : Contains(watched, v)} ELSE recorded[k]

\* A tick within a window has put on record what it has taken out of its batch,
\* and found everything before the window on record, unless the log had no
\* cursor when it opened it; it changes a row for a recorded event only.
InOrder(t) ==
    /\ t.head <= head
    /\ t.at \in {"store", "apply", "write"} =>
          /\ t.from <= t.head /\ t.to <= t.head
          /\ t.batch \subseteq LogsIn(t.vault, t.from, t.to)
          /\ LogsIn(t.vault, t.from, t.to) \ t.batch \subseteq Kept(t.vault)
          /\ ~t.fresh => LogsIn(t.vault, since[t.vault], t.from - 1) \subseteq Kept(t.vault)
    /\ t.at \in {"apply", "write"} =>
          t.vault # Factory /\ t.batch # {} /\ Earliest(t) \in recorded[t.vault]

\* NothingSkipped, with both kinds of logs alike.
CursorsBehind ==
    \A k \in ScanKeys : LogsIn(k, since[k], cursor[k]) \subseteq Kept(k)

Progress == Types /\ CursorsBehind /\ \A w \in Ticks : InOrder(tick[w])

USE IndexerAssumption DEF Vaults, ScanKeys, Steps, Unscanned

-----------------------------------------------------------------------------
(* Windows.                                                                *)

\* A set of naturals that is not empty has a least element.
LEMMA LeastExists ==
    ASSUME NEW S, S \subseteq Nat, S # {}
    PROVE  \E x \in S : \A y \in S : x <= y
<1>1. PICK R : R = OpToRel(<, Nat)
  OBVIOUS
<1>2. IsWellFoundedOn(R, Nat)
  BY <1>1, NatLessThanWellFounded
<1>3. PICK x \in S : \A y \in S : ~(<<y, x>> \in R)
  BY <1>2, WFMin
<1>4. \A y \in S : y < x => <<y, x>> \in R
  BY <1>1 DEF OpToRel
<1>5. \A y \in S : ~(y < x)
  BY <1>3, <1>4
<1> QED
  BY <1>5

\* The entries of a log are events.
LEMMA EventAt ==
    ASSUME ChainTypes, NEW v \in Vaults, NEW i \in DOMAIN logs[v]
    PROVE  logs[v][i] \in LogEvent
<1>1. logs[v] \in Seq(LogEvent)
  BY DEF ChainTypes
<1> HIDE DEF Vaults
<1> QED
  BY <1>1

\* Two windows that follow each other leave nothing out.
LEMMA WindowsMeet ==
    ASSUME ChainTypes, NEW k \in ScanKeys, NEW a \in Int, NEW b \in Int, NEW c \in Int
    PROVE  LogsIn(k, a, c) \subseteq LogsIn(k, a, b) \cup LogsIn(k, b + 1, c)
<1>1. CASE k = Factory
  <2>1. ASSUME NEW v \in Clones PROVE deployedAt[v] \in Nat
    BY DEF ChainTypes
  <2> QED
    BY <1>1, <2>1 DEF LogsIn
<1>2. CASE k # Factory
  <2>1. ASSUME NEW i \in DOMAIN logs[k] PROVE logs[k][i].block \in Nat
    BY <1>2, EventAt DEF LogEvent
  <2> QED
    BY <1>2, <2>1 DEF LogsIn
<1> QED
  BY <1>1, <1>2

\* A window that begins later or ends earlier holds no more.
LEMMA SmallerWindow ==
    ASSUME ChainTypes, NEW k \in ScanKeys, NEW a \in Int, NEW b \in Int,
           NEW c \in Int, NEW d \in Int, a <= b, c <= d
    PROVE  LogsIn(k, b, c) \subseteq LogsIn(k, a, d)
<1>1. CASE k = Factory
  <2>1. ASSUME NEW v \in Clones PROVE deployedAt[v] \in Nat
    BY DEF ChainTypes
  <2> QED
    BY <1>1, <2>1 DEF LogsIn
<1>2. CASE k # Factory
  <2>1. ASSUME NEW i \in DOMAIN logs[k] PROVE logs[k][i].block \in Nat
    BY <1>2, EventAt DEF LogEvent
  <2> QED
    BY <1>2, <2>1 DEF LogsIn
<1> QED
  BY <1>1, <1>2

\* The log of the factory holds vaults, the others hold positions.
LEMMA LogKinds ==
    ASSUME ChainTypes, NEW k \in ScanKeys, NEW a, NEW b
    PROVE  /\ k = Factory => LogsIn(k, a, b) \subseteq Clones
           /\ k # Factory => LogsIn(k, a, b) \subseteq DOMAIN logs[k] /\ DOMAIN logs[k] \subseteq Nat
BY DEF LogsIn, ChainTypes

\* The next event or vault of a batch is one of it.
LEMMA EarliestInBatch ==
    ASSUME ChainTypes, NEW t \in TickState, t.batch # {},
           t.batch \subseteq LogsIn(t.vault, t.from, t.to)
    PROVE  Earliest(t) \in t.batch
<1>1. CASE t.vault = Factory
  <2> DEFINE S == {deployedAt[v] : v \in t.batch}
  <2>1. t.batch \subseteq Clones
    BY <1>1, LogKinds DEF TickState
  <2>2. S \subseteq Nat /\ S # {}
    BY <2>1 DEF ChainTypes
  <2>3. PICK x \in S : \A y \in S : x <= y
    <3> HIDE DEF S
    <3> QED
      BY <2>2, LeastExists
  <2>4. \E v \in t.batch : \A u \in t.batch : deployedAt[v] <= deployedAt[u]
    BY <2>3
  <2> QED
    BY <1>1, <2>4 DEF Earliest
<1>2. CASE t.vault # Factory
  <2>1. t.batch \subseteq Nat
    BY <1>2, LogKinds DEF TickState
  <2>2. \E i \in t.batch : \A j \in t.batch : i <= j
    BY <2>1, LeastExists
  <2> QED
    BY <1>2, <2>2 DEF Earliest
<1> QED
  BY <1>1, <1>2

-----------------------------------------------------------------------------
(* A scan.                                                                 *)

\* The next window, or the end of the log.
LEMMA ScanStarts ==
    ASSUME ChainTypes, NEW t \in TickState, t.head <= head
    PROVE  /\ Scan(t) \in TickState
           /\ Scan(t).head = t.head
           /\ Scan(t).at \in {"store", "list", "pick"}
           /\ Scan(t).at = "store" =>
                 /\ Scan(t).vault = t.vault
                 /\ Scan(t).from = t.from
                 /\ Scan(t).fresh = t.fresh
                 /\ t.from <= t.head
                 /\ Scan(t).to <= t.head
                 /\ Scan(t).batch = LogsIn(t.vault, t.from, Scan(t).to)
<1>1. CASE MoreToScan(t)
  <2>1. WindowEnd(t) \in Nat /\ WindowEnd(t) <= t.head
    BY <1>1 DEF WindowEnd, Lesser, TickState, MoreToScan
  <2>2. LogsIn(t.vault, t.from, WindowEnd(t)) \in SUBSET (Nat \cup Clones)
    BY LogKinds DEF TickState
  <2>3. Scan(t) = Fetched(t)
    BY <1>1 DEF Scan
  <2>4. t.from <= t.head
    BY <1>1 DEF MoreToScan
  <2>5. DEFINE e == WindowEnd(t)
               b == LogsIn(t.vault, t.from, e)
  <2>6. Scan(t) = [t EXCEPT !.at = "store", !.to = e, !.used = @ + 1, !.batch = b]
    BY <2>3 DEF Fetched
  <2> HIDE DEF e, b
  <2>7. e \in Nat /\ e <= t.head /\ b \in SUBSET (Nat \cup Clones)
    BY <2>1, <2>2 DEF e, b
  <2>8. Scan(t) \in TickState
    <3>1. t.used + 1 \in Nat
      BY DEF TickState
    <3>2. PICK n \in Nat : n = t.used + 1
      BY <3>1
    <3>3. Scan(t) = [t EXCEPT !.at = "store", !.to = e, !.used = n, !.batch = b]
      BY <2>6, <3>2
    <3> QED
      BY <2>7, <3>2, <3>3 DEF TickState
  <2>9. /\ Scan(t).head = t.head /\ Scan(t).at = "store" /\ Scan(t).vault = t.vault
        /\ Scan(t).from = t.from /\ Scan(t).fresh = t.fresh /\ Scan(t).to = e
        /\ Scan(t).batch = b
    BY <2>6 DEF TickState
  <2> QED
    BY <2>4, <2>7, <2>8, <2>9 DEF b
<1>2. CASE ~MoreToScan(t)
  BY <1>2 DEF Scan, Done, TickState
<1> QED
  BY <1>1, <1>2

\* A tick that opens a log at its cursor finds what lies before it on record.
LEMMA OpenedInOrder ==
    ASSUME Types, CursorsBehind, NEW t \in TickState, t.head <= head, NEW k \in ScanKeys
    PROVE  /\ Opened(t, k) \in TickState /\ InOrder(Opened(t, k))
           /\ Opened(t, k).at \notin {"apply", "write"}
<1> DEFINE s == [t EXCEPT !.vault = k, !.from = FirstBlock(k, t.head),
                          !.fresh = (cursor[k] = Unscanned)]
<1>1. FirstBlock(k, t.head) \in Nat
  <2>1. cursor[k] \in Nat \cup {Unscanned}
    BY DEF Types, TableTypes
  <2>2. k \in Clones => deployedAt[k] \in Nat
    BY DEF Types, ChainTypes
  <2>3. t.head - Backfill \in Int
    BY DEF TickState
  <2> QED
    BY <2>1, <2>2, <2>3 DEF FirstBlock, AtLeast0
<1>2. s \in TickState /\ s.head = t.head
  BY <1>1 DEF TickState
<1>3. /\ s.vault = k
      /\ ~s.fresh => s.from = cursor[k] /\ cursor[k] \in Nat
  BY DEF FirstBlock, TickState, Types, TableTypes
<1>4. s.fresh \/ LogsIn(k, since[k], s.from - 1) \subseteq Kept(k)
  <2>1. SUFFICES ASSUME ~s.fresh PROVE LogsIn(k, since[k], s.from - 1) \subseteq Kept(k)
    OBVIOUS
  <2>2. LogsIn(k, since[k], cursor[k] - 1) \subseteq LogsIn(k, since[k], cursor[k])
    <3>1. since[k] \in Int /\ cursor[k] \in Int
      BY <2>1, <1>3 DEF Types, TableTypes
    <3>2. cursor[k] - 1 \in Int /\ cursor[k] - 1 <= cursor[k] /\ since[k] <= since[k]
      BY <3>1
    <3> QED
      BY <3>1, <3>2, SmallerWindow DEF Types
  <2>3. LogsIn(k, since[k], cursor[k]) \subseteq Kept(k)
    BY DEF CursorsBehind
  <2> QED
    BY <2>1, <2>2, <2>3, <1>3
<1>5. Opened(t, k) = Scan(s)
  BY DEF Opened
<1> HIDE DEF s
<1>6. s.head <= head
  BY <1>2
<1>7. PICK r : r = Scan(s)
  OBVIOUS
<1>8. /\ r \in TickState /\ r.head = s.head /\ r.at \in {"store", "list", "pick"}
      /\ r.at = "store" => /\ r.vault = k /\ r.from = s.from /\ r.fresh = s.fresh
                           /\ s.from <= s.head /\ r.to <= s.head
                           /\ r.batch = LogsIn(k, s.from, r.to)
  BY <1>2, <1>3, <1>6, <1>7, ScanStarts DEF Types
<1>9. InOrder(r)
  BY <1>3, <1>4, <1>6, <1>8 DEF InOrder
<1> QED
  BY <1>5, <1>7, <1>8, <1>9

-----------------------------------------------------------------------------
(* The chain grows by a block; the windows up to the old head stay.        *)

\* A transaction's events and card, or a deployment.
Grown(v, events, card) ==
    /\ Mined(v, events, card)
    /\ events \in Seq(LogEvent)
    /\ \A i \in DOMAIN events : events[i].block = head + 1
    /\ card \in CardState

\* Every step of the chain is a transaction of one vault or a deployment.
LEMMA ChainStepForms ==
    ASSUME ChainTypes, ChainStep
    PROVE  \/ \E v \in Vaults : \E events, card : Grown(v, events, card)
           \/ \E v \in Clones : Deploy(v)
<1>1. \A n \in Int : Card(n) \in CardState
  BY DEF Card, CardState
<1>2. \A v \in Vaults : registry[v] \in CardState /\ registry[v].available \in Int
  BY DEF ChainTypes, CardState
<1>3. ASSUME NEW a \in Int, NEW kind \in {"provisioned", "settled", "reclaimed"}
      PROVE  Event(kind, a) \in LogEvent /\ Event(kind, a).block = head + 1
  BY DEF Event, LogEvent, ChainTypes
<1>4. CASE MineEmpty
  <2>1. Grown(Canonical, <<>>, registry[Canonical])
    BY <1>2, <1>4 DEF MineEmpty, Grown
  <2> QED
    BY <2>1
<1>5. ASSUME NEW v \in Vaults, Provision(v)
      PROVE  \E events, card : Grown(v, events, card)
  <2>1. PICK e \in LogEvent : e = Event("provisioned", Pool) /\ e.block = head + 1
    BY <1>3
  <2>2. Grown(v, <<e>>, Card(Pool))
    BY <1>1, <1>5, <2>1 DEF Provision, Grown
  <2> QED
    BY <2>2
<1>6. ASSUME NEW v \in Vaults, Settle(v)
      PROVE  \E events, card : Grown(v, events, card)
  <2>1. PICK a \in 1..registry[v].available :
           Mined(v, <<Event("settled", a)>>, Card(registry[v].available - a))
    BY <1>6 DEF Settle
  <2>2. a \in Int /\ registry[v].available - a \in Int
    BY <1>2
  <2>3. PICK e \in LogEvent : e = Event("settled", a) /\ e.block = head + 1
    BY <1>3, <2>2
  <2>4. Card(registry[v].available - a) \in CardState
    BY <1>1, <2>2
  <2>5. Grown(v, <<e>>, Card(registry[v].available - a))
    BY <2>1, <2>3, <2>4 DEF Grown
  <2> QED
    BY <2>5
<1>7. ASSUME NEW v \in Vaults, Flush(v)
      PROVE  \E events, card : Grown(v, events, card)
  <2>1. PICK due \in 0..(registry[v].available - 1) :
           Mined(v, (IF due = 0 THEN <<>> ELSE <<Event("settled", due)>>)
                     \o <<Event("reclaimed", registry[v].available - due)>>, Card(0))
    BY <1>7 DEF Flush
  <2>2. due \in Int /\ registry[v].available - due \in Int
    BY <1>2
  <2>3. PICK e \in LogEvent : e = Event("settled", due) /\ e.block = head + 1
    BY <1>3, <2>2
  <2>4. PICK r \in LogEvent : r = Event("reclaimed", registry[v].available - due)
                              /\ r.block = head + 1
    BY <1>3, <2>2
  <2>5. PICK p \in Seq(LogEvent) : /\ p = IF due = 0 THEN <<>> ELSE <<e>>
                                   /\ \A i \in DOMAIN p : p[i].block = head + 1
    <3>1. <<>> \in Seq(LogEvent) /\ <<e>> \in Seq(LogEvent)
      BY <2>3
    <3>2. DOMAIN <<>> = {} /\ DOMAIN <<e>> = {1} /\ <<e>>[1].block = head + 1
      BY <2>3
    <3> QED
      BY <3>1, <3>2
  <2>6. PICK q \in Seq(LogEvent) : /\ q = <<r>>
                                   /\ \A i \in DOMAIN q : q[i].block = head + 1
    <3>1. <<r>> \in Seq(LogEvent) /\ DOMAIN <<r>> = {1} /\ <<r>>[1].block = head + 1
      BY <2>4
    <3> QED
      BY <3>1
  <2>7. /\ p \o q \in Seq(LogEvent)
        /\ \A i \in DOMAIN (p \o q) : (p \o q)[i].block = head + 1
    BY <2>5, <2>6
  <2>8. Mined(v, p \o q, Card(0))
    BY <2>1, <2>3, <2>4, <2>5, <2>6
  <2>9. Grown(v, p \o q, Card(0))
    BY <1>1, <2>7, <2>8 DEF Grown
  <2> QED
    BY <2>9
<1> QED
  BY <1>4, <1>5, <1>6, <1>7 DEF ChainStep

\* What a transaction leaves: the chain well formed, the old windows as they were.
LEMMA MinedKeeps ==
    ASSUME ChainTypes, NEW v \in Vaults, NEW events, NEW card, Grown(v, events, card)
    PROVE  /\ ChainTypes'
           /\ \A k \in ScanKeys : \A a, b \in Int :
                b <= head => LogsIn(k, a, b)' = LogsIn(k, a, b)
<1>1. /\ head \in Nat /\ head' = head + 1
      /\ deployedAt' = deployedAt
      /\ logs' = [logs EXCEPT ![v] = logs[v] \o events]
      /\ registry' = [registry EXCEPT ![v] = card]
      /\ events \in Seq(LogEvent) /\ card \in CardState
      /\ \A i \in DOMAIN events : events[i].block = head + 1
  BY DEF Grown, Mined, ChainTypes
<1>2. /\ logs[v] \in Seq(LogEvent) /\ logs'[v] = logs[v] \o events
      /\ \A u \in Vaults \ {v} : logs'[u] = logs[u]
  BY <1>1 DEF ChainTypes
<1>3. /\ logs'[v] \in Seq(LogEvent)
      /\ Len(logs'[v]) = Len(logs[v]) + Len(events)
      /\ \A i \in 1..Len(logs[v]) : logs'[v][i] = logs[v][i]
      /\ \A i \in 1..(Len(logs[v]) + Len(events)) :
           i \notin 1..Len(logs[v]) => logs'[v][i] = events[i - Len(logs[v])]
                                      /\ i - Len(logs[v]) \in DOMAIN events
  <2>1. ASSUME NEW p \in Seq(LogEvent), NEW q \in Seq(LogEvent)
        PROVE  /\ p \o q \in Seq(LogEvent)
               /\ Len(p \o q) = Len(p) + Len(q)
               /\ \A i \in 1..Len(p) : (p \o q)[i] = p[i]
               /\ \A i \in 1..(Len(p) + Len(q)) :
                    i \notin 1..Len(p) => /\ (p \o q)[i] = q[i - Len(p)]
                                          /\ i - Len(p) \in DOMAIN q
    OBVIOUS
  <2>2. PICK p \in Seq(LogEvent) : p = logs[v]
    BY <1>2
  <2>3. logs'[v] = p \o events
    BY <1>2, <2>2
  <2> HIDE DEF Vaults
  <2> QED
    BY <1>1, <2>1, <2>2, <2>3
<1>4. \A i \in DOMAIN logs'[v] :
         \/ i \in DOMAIN logs[v] /\ logs'[v][i] = logs[v][i]
         \/ i \notin DOMAIN logs[v] /\ logs'[v][i].block = head + 1
  BY <1>1, <1>2, <1>3
<1>5. DOMAIN logs[v] \subseteq DOMAIN logs'[v]
  BY <1>2, <1>3
<1>6. ChainTypes'
  <2>1. logs' \in [Vaults -> Seq(LogEvent)]
    <3> HIDE DEF Vaults
    <3> QED
      BY <1>1, <1>2, <1>3 DEF ChainTypes
  <2>2. \A u \in Vaults : \A i \in DOMAIN logs'[u] : logs'[u][i].block <= head'
    <3>1. ASSUME NEW u \in Vaults, NEW i \in DOMAIN logs'[u]
          PROVE  logs'[u][i].block <= head'
      <4>1. CASE u = v
        <5>1. CASE i \in DOMAIN logs[v] /\ logs'[v][i] = logs[v][i]
          <6>1. logs[v][i].block \in Nat
            BY <5>1, EventAt DEF LogEvent
          <6>2. logs[v][i].block <= head
            BY <5>1 DEF ChainTypes
          <6> QED
            BY <1>1, <4>1, <5>1, <6>1, <6>2
        <5>2. CASE i \notin DOMAIN logs[v] /\ logs'[v][i].block = head + 1
          BY <1>1, <4>1, <5>2
        <5>3. i \in DOMAIN logs'[v]
          BY <4>1
        <5> QED
          BY <1>4, <5>1, <5>2, <5>3
      <4>2. CASE u # v
        <5>1. logs'[u] = logs[u] /\ i \in DOMAIN logs[u]
          BY <1>2, <4>2
        <5>2. logs[u][i] \in LogEvent
          BY <5>1, EventAt
        <5>3. logs[u][i].block \in Nat
          BY <5>2 DEF LogEvent
        <5>4. logs[u][i].block <= head
          BY <5>1 DEF ChainTypes
        <5>5. \A n \in Nat : n <= head => n <= head'
          BY <1>1
        <5> QED
          BY <5>1, <5>3, <5>4, <5>5
      <4> QED
        BY <4>1, <4>2
    <3> QED
      BY <3>1
  <2>3. registry' \in [Vaults -> CardState]
    BY <1>1 DEF ChainTypes
  <2>4. \A u \in Vaults : deployedAt'[u] <= head'
    BY <1>1 DEF ChainTypes
  <2>5. deployedAt' \in [Vaults -> Nat]
    BY <1>1 DEF ChainTypes
  <2>6. head' \in Nat
    BY <1>1
  <2> QED
    BY <2>1, <2>2, <2>3, <2>4, <2>5, <2>6 DEF ChainTypes
<1>7. ASSUME NEW k \in ScanKeys, NEW a \in Int, NEW b \in Int, b <= head
      PROVE  LogsIn(k, a, b)' = LogsIn(k, a, b)
  <2>1. CASE k = v
    <3>1. \A i \in DOMAIN logs'[v] : i \notin DOMAIN logs[v] =>
             ~(logs'[v][i].block \in a..b)
      <4>1. ~(head + 1 <= b)
        BY <1>1, <1>7 DEF ChainTypes
      <4>2. \A i \in DOMAIN logs'[v] : i \notin DOMAIN logs[v] => logs'[v][i].block = head + 1
        BY <1>4
      <4> QED
        BY <4>1, <4>2
    <3>2. \A i \in DOMAIN logs'[v] : i \in DOMAIN logs[v] => logs'[v][i] = logs[v][i]
      BY <1>4
    <3>3. k # Factory
      BY <2>1
    <3> QED
      BY <2>1, <3>1, <3>2, <3>3, <1>5 DEF LogsIn
  <2>2. CASE k # v
    BY <1>1, <1>2, <2>2 DEF LogsIn
  <2> QED
    BY <2>1, <2>2
<1> QED
  BY <1>6, <1>7

\* The same of a deployment.
LEMMA DeployKeeps ==
    ASSUME ChainTypes, NEW v \in Clones, Deploy(v)
    PROVE  /\ ChainTypes'
           /\ \A k \in ScanKeys : \A a, b \in Int :
                b <= head => LogsIn(k, a, b)' = LogsIn(k, a, b)
<1>1. /\ head \in Nat /\ head' = head + 1 /\ deployedAt[v] = 0
      /\ deployedAt' = [deployedAt EXCEPT ![v] = head + 1]
      /\ logs' = logs /\ registry' = registry
  BY DEF Deploy, ChainTypes
<1>2. deployedAt \in [Vaults -> Nat] /\ deployedAt' \in [Vaults -> Nat]
  BY <1>1 DEF ChainTypes
<1>3. \A u \in Vaults : deployedAt'[u] <= head'
  BY <1>1, <1>2 DEF ChainTypes
<1>4. \A u \in Vaults : \A i \in DOMAIN logs[u] : logs[u][i].block <= head'
  <2>1. ASSUME NEW u \in Vaults, NEW i \in DOMAIN logs[u] PROVE logs[u][i].block <= head'
    <3>1. logs[u][i].block \in Nat /\ logs[u][i].block <= head
      BY EventAt DEF LogEvent, ChainTypes
    <3> QED
      BY <1>1, <3>1
  <2> QED
    BY <2>1
<1>5. ChainTypes'
  BY <1>1, <1>2, <1>3, <1>4 DEF ChainTypes
<1>6. ASSUME NEW k \in ScanKeys, NEW a \in Int, NEW b \in Int, b <= head
      PROVE  LogsIn(k, a, b)' = LogsIn(k, a, b)
  <2>1. \A u \in Clones : deployedAt'[u] \in (a..b) \ {0} <=> deployedAt[u] \in (a..b) \ {0}
    BY <1>1, <1>2, <1>6
  <2> QED
    BY <1>1, <2>1 DEF LogsIn
<1> QED
  BY <1>5, <1>6

-----------------------------------------------------------------------------
(* What every step does: nothing is taken off the record, no window with   *)
(* an end changes, and `since' only moves on.                              *)

Grows ==
    /\ head <= head'
    /\ \A k \in ScanKeys : since[k] <= since'[k] /\ Kept(k) \subseteq Kept(k)'
    /\ \A k \in ScanKeys : \A a, b \in Int :
         b <= head => LogsIn(k, a, b)' = LogsIn(k, a, b)

\* A tick that does not move stays in order.
LEMMA OthersInOrder ==
    ASSUME Types, Types', Grows, NEW t \in TickState, InOrder(t)
    PROVE  InOrder(t)'
<1>1. head \in Nat /\ head' \in Nat /\ head <= head'
  BY DEF Types, ChainTypes, Grows
<1>2. t.head \in Nat /\ t.from \in Nat /\ t.to \in Nat /\ t.vault \in ScanKeys
  BY DEF TickState
<1>3. t.head <= head'
  BY <1>1, <1>2 DEF InOrder
<1>4. Kept(t.vault) \subseteq Kept(t.vault)'
  BY <1>2 DEF Grows
<1>5. ASSUME t.at \in {"store", "apply", "write"}
      PROVE  /\ t.from <= t.head /\ t.to <= t.head
             /\ t.batch \subseteq LogsIn(t.vault, t.from, t.to)'
             /\ LogsIn(t.vault, t.from, t.to)' \ t.batch \subseteq Kept(t.vault)'
             /\ ~t.fresh => LogsIn(t.vault, since[t.vault], t.from - 1)' \subseteq Kept(t.vault)'
  <2>1. /\ t.from <= t.head /\ t.to <= t.head /\ t.head <= head
        /\ t.batch \subseteq LogsIn(t.vault, t.from, t.to)
        /\ LogsIn(t.vault, t.from, t.to) \ t.batch \subseteq Kept(t.vault)
        /\ ~t.fresh => LogsIn(t.vault, since[t.vault], t.from - 1) \subseteq Kept(t.vault)
    BY <1>5 DEF InOrder
  <2>2. t.to <= head /\ t.from - 1 <= head /\ t.from - 1 \in Int
    BY <1>1, <1>2, <2>1
  <2>3. LogsIn(t.vault, t.from, t.to)' = LogsIn(t.vault, t.from, t.to)
    BY <1>2, <2>2 DEF Grows
  <2>4. PICK k \in ScanKeys : k = t.vault
    BY <1>2
  <2>5. since[k] \in Nat /\ since'[k] \in Nat /\ since[k] <= since'[k]
    BY DEF Types, TableTypes, Grows
  <2>6. PICK n \in Nat : n = since'[k]
    BY <2>5
  <2>7. LogsIn(k, n, t.from - 1) \subseteq LogsIn(k, since[k], t.from - 1)
    BY <2>2, <2>5, <2>6, SmallerWindow DEF Types
  <2>8. LogsIn(k, n, t.from - 1)' = LogsIn(k, n, t.from - 1)
    BY <2>2, <2>6 DEF Grows
  <2>9. LogsIn(k, since[k], t.from - 1)' = LogsIn(k, n, t.from - 1)'
    BY <2>6
  <2> QED
    BY <1>4, <2>1, <2>3, <2>4, <2>7, <2>8, <2>9
<1>6. ASSUME t.at \in {"apply", "write"}
      PROVE  t.vault # Factory /\ t.batch # {} /\ Earliest(t)' \in recorded'[t.vault]
  <2>1. t.vault # Factory /\ t.batch # {} /\ Earliest(t) \in recorded[t.vault]
    BY <1>6 DEF InOrder
  <2>2. Earliest(t)' = Earliest(t)
    BY <2>1 DEF Earliest
  <2>3. recorded[t.vault] \subseteq recorded'[t.vault]
    BY <1>4, <2>1 DEF Kept
  <2> QED
    BY <2>1, <2>2, <2>3
<1> QED
  BY <1>3, <1>5, <1>6 DEF InOrder

\* A cursor that does not move stays behind what is recorded.
LEMMA CursorsStay ==
    ASSUME Types, Types', Grows, CursorsBehind, NEW k \in ScanKeys, cursor'[k] = cursor[k]
    PROVE  LogsIn(k, since[k], cursor[k])' \subseteq Kept(k)'
<1>1. since[k] \in Nat /\ since'[k] \in Nat /\ since[k] <= since'[k] /\ cursor[k] \in Int
  BY DEF Types, TableTypes, Grows
<1>2. cursor[k] <= head
  BY DEF Types, TableTypes
<1>3. PICK n \in Nat, c \in Int : n = since'[k] /\ c = cursor[k]
  BY <1>1
<1>4. LogsIn(k, n, c) \subseteq LogsIn(k, since[k], c)
  BY <1>1, <1>3, SmallerWindow DEF Types
<1>5. LogsIn(k, n, c)' = LogsIn(k, n, c)
  BY <1>2, <1>3 DEF Grows
<1>6. LogsIn(k, since[k], c) \subseteq Kept(k)
  BY <1>3 DEF CursorsBehind
<1>7. Kept(k) \subseteq Kept(k)'
  BY DEF Grows
<1>8. LogsIn(k, since[k], cursor[k])' = LogsIn(k, n, c)'
  BY <1>3
<1> QED
  BY <1>4, <1>5, <1>6, <1>7, <1>8

\* A step of one tick: it is enough to look at that tick and at the cursors.
LEMMA TickSteps ==
    ASSUME Progress, ChainTypes', TableTypes', Grows, CursorsBehind',
           NEW w \in Ticks, NEW r \in TickState, tick' = [tick EXCEPT ![w] = r],
           InOrder(r)'
    PROVE  Progress'
<1>1. tick \in [Ticks -> TickState]
  BY DEF Progress, Types
<1>2. tick' \in [Ticks -> TickState]
  <2> HIDE DEF Steps, ScanKeys, Vaults
  <2> QED
    BY <1>1
<1>3. Types /\ Types'
  BY <1>2 DEF Progress, Types
<1>4. ASSUME NEW u \in Ticks PROVE InOrder(tick[u])'
  <2>1. CASE u = w
    <3>1. tick'[u] = r
      BY <1>1, <2>1
    <3> QED
      BY <3>1 DEF InOrder
  <2>2. CASE u # w
    <3>1. PICK t \in TickState : t = tick[u]
      BY <1>1
    <3>2. tick'[u] = t
      BY <1>1, <2>2, <3>1
    <3>3. InOrder(t)
      BY <3>1 DEF Progress
    <3>4. InOrder(t)'
      BY <1>3, <3>3, OthersInOrder
    <3> QED
      BY <3>2, <3>4
  <2> QED
    BY <2>1, <2>2
<1> QED
  BY <1>3, <1>4 DEF Progress

\* A step of one tick that leaves the tables alone.
LEMMA QuietSteps ==
    ASSUME Progress, UNCHANGED <<chain, database, since>>,
           NEW w \in Ticks, NEW r \in TickState, tick' = [tick EXCEPT ![w] = r],
           InOrder(r)
    PROVE  Progress'
<1>1. Types /\ ChainTypes' /\ TableTypes'
  BY DEF Progress, Types, ChainTypes, TableTypes, chain, database
<1>2. Grows
  BY <1>1 DEF Grows, Kept, LogsIn, chain, database, Types, ChainTypes, TableTypes
<1>3. CursorsBehind'
  BY DEF Progress, CursorsBehind, Kept, LogsIn, chain, database
<1>4. InOrder(r)'
  BY DEF InOrder, Kept, LogsIn, Earliest, chain, database
<1> QED
  BY <1>1, <1>2, <1>3, <1>4, TickSteps

\* A step of one tick that adds to the vaults, the events or the rows.
LEMMA RecordingSteps ==
    ASSUME Progress, UNCHANGED <<chain, cursor, since>>, TableTypes',
           \A k \in ScanKeys : Kept(k) \subseteq Kept(k)',
           NEW w \in Ticks, NEW r \in TickState, tick' = [tick EXCEPT ![w] = r],
           InOrder(r)'
    PROVE  Progress'
<1>1. Types /\ ChainTypes' /\ TableTypes' /\ CursorsBehind
  BY DEF Progress, Types, ChainTypes, chain
<1>2. Grows
  BY <1>1 DEF Grows, LogsIn, chain, Types, ChainTypes, TableTypes
<1>3. CursorsBehind'
  <2>1. ASSUME NEW k \in ScanKeys PROVE LogsIn(k, since[k], cursor[k])' \subseteq Kept(k)'
    <3>1. LogsIn(k, since[k], cursor[k])' = LogsIn(k, since[k], cursor[k])
      BY DEF LogsIn, chain
    <3>2. LogsIn(k, since[k], cursor[k]) \subseteq Kept(k)
      BY <1>1 DEF CursorsBehind
    <3> QED
      BY <3>1, <3>2
  <2> QED
    BY <2>1 DEF CursorsBehind
<1> QED
  BY <1>1, <1>2, <1>3, TickSteps

\* idx_watched_vaults only grows, and holds the vault just inserted.
LEMMA WatchAdds ==
    ASSUME TableTypes, NEW v \in Vaults, Watch(v)
    PROVE  /\ watched' \in Seq(Vaults)
           /\ Contains(watched, v)'
           /\ \A u : Contains(watched, u) => Contains(watched, u)'
<1> HIDE DEF Vaults
<1>1. watched \in Seq(Vaults)
  BY DEF TableTypes
<1>2. CASE Contains(watched, v)
  BY <1>1, <1>2 DEF Watch, Contains
<1>3. CASE ~Contains(watched, v)
  <2>1. watched' = Append(watched, v)
    BY <1>3 DEF Watch
  <2>2. /\ watched' \in Seq(Vaults) /\ Len(watched') = Len(watched) + 1
        /\ watched'[Len(watched) + 1] = v
        /\ \A i \in 1..Len(watched) : watched'[i] = watched[i]
    BY <1>1, <2>1
  <2> QED
    BY <1>1, <2>2 DEF Contains
<1> QED
  BY <1>2, <1>3

-----------------------------------------------------------------------------
(* The steps, one by one.                                                  *)

\* A block on top changes nothing behind a cursor.
LEMMA ChainStepProgress ==
    ASSUME Progress, ChainStep
    PROVE  Progress'
<1>1. Types /\ ChainTypes /\ CursorsBehind
  BY DEF Progress, Types
<1>2. UNCHANGED <<database, tick, since>> /\ head' = head + 1
  BY <1>1, ChainStepForms DEF Grown, Mined, Deploy
<1>3. /\ ChainTypes'
      /\ \A k \in ScanKeys : \A a, b \in Int :
           b <= head => LogsIn(k, a, b)' = LogsIn(k, a, b)
  BY <1>1, ChainStepForms, MinedKeeps, DeployKeeps
<1>4. TableTypes'
  <2>1. \A k \in ScanKeys : cursor[k] \in Int /\ cursor[k] <= head
    BY <1>1 DEF Types, TableTypes
  <2>2. head \in Nat /\ \A k \in ScanKeys : cursor[k] <= head'
    BY <1>1, <1>2, <2>1 DEF ChainTypes
  <2> QED
    BY <1>1, <1>2, <2>2 DEF Types, TableTypes, database
<1>5. Types'
  BY <1>1, <1>2, <1>3, <1>4 DEF Types
<1>6. Grows
  <2>1. \A k \in ScanKeys : Kept(k)' = Kept(k)
    BY <1>2 DEF Kept, database
  <2> QED
    BY <1>1, <1>2, <1>3, <2>1 DEF Grows, Types, ChainTypes, TableTypes
<1>7. CursorsBehind'
  BY <1>1, <1>2, <1>5, <1>6, CursorsStay DEF CursorsBehind, database
<1>8. ASSUME NEW u \in Ticks PROVE InOrder(tick[u])'
  <2>1. PICK t \in TickState : t = tick[u]
    BY <1>1 DEF Types
  <2>2. InOrder(t)
    BY <2>1 DEF Progress
  <2>3. InOrder(t)'
    BY <1>1, <1>5, <1>6, <2>2, OthersInOrder
  <2>4. tick'[u] = t
    BY <1>2, <2>1
  <2> QED
    BY <2>3, <2>4
<1> QED
  BY <1>5, <1>7, <1>8 DEF Progress

\* A tick that is given up leaves nothing behind.
LEMMA NoTickInOrder ==
    ASSUME Types
    PROVE  NoTick \in TickState /\ InOrder(NoTick)
<1>1. NoTick \in TickState
  BY DEF NoTick, TickState
<1> QED
  BY <1>1 DEF InOrder, NoTick, Types, ChainTypes

\* A tick begins with no window.
LEMMA BeginProgress ==
    ASSUME Progress, NEW w \in Ticks, BeginTick(w)
    PROVE  Progress'
<1>1. PICK r : r = [NoTick EXCEPT !.at = "seed", !.head = head]
  OBVIOUS
<1>2. head \in Nat /\ NoTick \in TickState
  BY NoTickInOrder DEF Progress, Types, ChainTypes
<1>3. r \in TickState /\ r.at = "seed" /\ r.head = head
  BY <1>1, <1>2 DEF TickState
<1>4. InOrder(r)
  BY <1>2, <1>3 DEF InOrder
<1> QED
  BY <1>1, <1>3, <1>4, QuietSteps DEF BeginTick, Goes

\* The canonical vault is watched, and the log of the factory opened.
LEMMA SeedProgress ==
    ASSUME Progress, NEW w \in Ticks, SeedCanonical(w)
    PROVE  Progress'
<1>1. Types /\ TableTypes /\ CursorsBehind
  BY DEF Progress, Types
<1>2. PICK t \in TickState : t = tick[w]
  BY DEF Progress, Types
<1>3. t.head <= head
  BY <1>2 DEF Progress, InOrder
<1>4. PICK r : r = Opened(t, Factory)
  OBVIOUS
<1>5. r \in TickState /\ InOrder(r)
  BY <1>1, <1>3, <1>4, OpenedInOrder
<1>6. Watch(Canonical) /\ tick' = [tick EXCEPT ![w] = r]
      /\ UNCHANGED <<chain, cursor, recorded, row, since>>
  BY <1>2, <1>4 DEF SeedCanonical, Goes
<1>7. TableTypes' /\ \A k \in ScanKeys : Kept(k) \subseteq Kept(k)'
  BY <1>1, <1>6, WatchAdds DEF TableTypes, Kept, chain
<1>8. Types'
  <2>1. tick' \in [Ticks -> TickState]
    <3>1. tick \in [Ticks -> TickState]
      BY <1>1 DEF Types
    <3> HIDE DEF Steps, ScanKeys, Vaults
    <3> QED
      BY <1>5, <1>6, <3>1
  <2> QED
    BY <1>1, <1>6, <1>7, <2>1 DEF Types, ChainTypes, chain
<1>9. Grows
  BY <1>1, <1>6, <1>7 DEF Grows, LogsIn, chain, Types, ChainTypes, TableTypes
<1>10. InOrder(r)'
  BY <1>1, <1>5, <1>8, <1>9, OthersInOrder
<1> QED
  BY <1>5, <1>6, <1>7, <1>10, RecordingSteps

\* A batch with an entry less, which is on record now.
LEMMA TakenOff ==
    ASSUME Types, NEW t \in TickState, InOrder(t), t.at \in {"store", "apply", "write"},
           t.batch # {}, UNCHANGED <<chain, since>>,
           \A k \in ScanKeys : Kept(k) \subseteq Kept(k)', Earliest(t) \in Kept(t.vault)',
           NEW r, r = [t EXCEPT !.at = "store", !.batch = t.batch \ {Earliest(t)}]
    PROVE  r \in TickState /\ InOrder(r)'
<1>2. /\ r \in TickState
      /\ r.at = "store" /\ r.batch = t.batch \ {Earliest(t)}
      /\ r.vault = t.vault /\ r.head = t.head /\ r.from = t.from /\ r.to = t.to
      /\ r.fresh = t.fresh /\ t.vault \in ScanKeys
  BY DEF TickState
<1>3. /\ t.head <= head /\ t.from <= t.head /\ t.to <= t.head
      /\ t.batch \subseteq LogsIn(t.vault, t.from, t.to)
      /\ LogsIn(t.vault, t.from, t.to) \ t.batch \subseteq Kept(t.vault)
      /\ ~t.fresh => LogsIn(t.vault, since[t.vault], t.from - 1) \subseteq Kept(t.vault)
  BY DEF InOrder
<1>4. /\ LogsIn(t.vault, t.from, t.to)' = LogsIn(t.vault, t.from, t.to)
      /\ LogsIn(t.vault, since[t.vault], t.from - 1)' = LogsIn(t.vault, since[t.vault], t.from - 1)
      /\ head' = head
  BY DEF LogsIn, chain
<1>5. Kept(t.vault) \subseteq Kept(t.vault)'
  BY <1>2
<1>6. InOrder(r)'
  BY <1>2, <1>3, <1>4, <1>5 DEF InOrder
<1> QED
  BY <1>2, <1>6

\* A deployment is taken out of the batch once its vault is watched.
LEMMA RecordVaultProgress ==
    ASSUME Progress, NEW w \in Ticks, RecordVault(w)
    PROVE  Progress'
<1>1. Types /\ TableTypes /\ ChainTypes
  BY DEF Progress, Types
<1>2. PICK t \in TickState : t = tick[w]
  BY DEF Progress, Types
<1>3. InOrder(t) /\ t.at = "store" /\ t.vault = Factory /\ t.batch # {}
  BY <1>2 DEF Progress, RecordVault
<1>4. Earliest(t) \in t.batch /\ Earliest(t) \in Clones
  BY <1>1, <1>3, EarliestInBatch, LogKinds DEF InOrder
<1>5. /\ Watch(Earliest(t))
      /\ tick' = [tick EXCEPT ![w] = [t EXCEPT !.batch = t.batch \ {Earliest(t)}]]
      /\ UNCHANGED <<chain, cursor, recorded, row, since>>
  BY <1>2 DEF RecordVault, Goes
<1>6. /\ TableTypes' /\ \A k \in ScanKeys : Kept(k) \subseteq Kept(k)'
      /\ Earliest(t) \in Kept(t.vault)'
  BY <1>1, <1>3, <1>4, <1>5, WatchAdds DEF TableTypes, Kept, chain
<1>7. PICK r : r = [t EXCEPT !.at = "store", !.batch = t.batch \ {Earliest(t)}]
  OBVIOUS
<1>8. r \in TickState /\ InOrder(r)'
  BY <1>1, <1>3, <1>5, <1>6, <1>7, TakenOff
<1>9. [t EXCEPT !.batch = t.batch \ {Earliest(t)}] = r
  BY <1>3, <1>7 DEF TickState
<1>10. tick' = [tick EXCEPT ![w] = r]
  BY <1>5, <1>9
<1> QED
  BY <1>5, <1>6, <1>8, <1>10, RecordingSteps

\* An event is taken out of the batch, or applied, once it is recorded.
LEMMA StoreEventProgress ==
    ASSUME Progress, NEW w \in Ticks, StoreEvent(w)
    PROVE  Progress'
<1>1. Types /\ TableTypes /\ ChainTypes
  BY DEF Progress, Types
<1>2. PICK t \in TickState : t = tick[w]
  BY DEF Progress, Types
<1>3. PICK i : i = Earliest(t)
  OBVIOUS
<1>4. InOrder(t) /\ t.at = "store" /\ t.vault \in Vaults /\ t.vault # Factory /\ t.batch # {}
  BY <1>2 DEF Progress, StoreEvent, TickState
<1>5. i \in t.batch /\ i \in Nat
  BY <1>1, <1>3, <1>4, EarliestInBatch, LogKinds DEF InOrder
<1>6. /\ recorded' = [recorded EXCEPT ![t.vault] = @ \cup {i}]
      /\ tick' = [tick EXCEPT ![w] = IF Known(t.vault, i) THEN [t EXCEPT !.batch = t.batch \ {i}]
                                     ELSE [t EXCEPT !.at = "apply"]]
      /\ UNCHANGED <<chain, watched, cursor, row, since>>
  BY <1>2, <1>3 DEF StoreEvent, Goes
<1>7. recorded \in [Vaults -> SUBSET Nat]
  BY <1>1 DEF TableTypes
<1>8. recorded' \in [Vaults -> SUBSET Nat]
  <2>1. recorded[t.vault] \cup {i} \in SUBSET Nat
    BY <1>4, <1>5, <1>7
  <2> HIDE DEF Vaults
  <2> QED
    BY <1>6, <1>7, <2>1
<1>9. TableTypes'
  BY <1>1, <1>6, <1>8 DEF TableTypes, chain
<1>10. \A v \in Vaults : recorded[v] \subseteq recorded'[v]
  BY <1>6, <1>7
<1>11. i \in recorded'[t.vault]
  BY <1>4, <1>6, <1>7
<1>12. \A k \in ScanKeys : Kept(k) \subseteq Kept(k)'
  BY <1>6, <1>10 DEF Kept
<1>13. i \in Kept(t.vault)'
  BY <1>4, <1>11 DEF Kept
<1>14. CASE Known(t.vault, i)
  <2>1. PICK r : r = [t EXCEPT !.at = "store", !.batch = t.batch \ {Earliest(t)}]
    OBVIOUS
  <2>2. r \in TickState /\ InOrder(r)'
    BY <1>1, <1>3, <1>4, <1>6, <1>12, <1>13, <2>1, TakenOff
  <2>3. [t EXCEPT !.batch = t.batch \ {i}] = r
    BY <1>3, <1>4, <2>1 DEF TickState
  <2>4. tick' = [tick EXCEPT ![w] = r]
    BY <1>6, <1>14, <2>3
  <2> QED
    BY <1>6, <1>9, <1>12, <2>2, <2>4, RecordingSteps
<1>15. CASE ~Known(t.vault, i)
  <2>1. PICK r : r = [t EXCEPT !.at = "apply"]
    OBVIOUS
  <2>2. /\ r \in TickState /\ r.at = "apply" /\ r.vault = t.vault /\ r.head = t.head
        /\ r.from = t.from /\ r.to = t.to /\ r.fresh = t.fresh /\ r.batch = t.batch
    BY <2>1 DEF TickState
  <2>3. /\ t.head <= head /\ t.from <= t.head /\ t.to <= t.head
        /\ t.batch \subseteq LogsIn(t.vault, t.from, t.to)
        /\ LogsIn(t.vault, t.from, t.to) \ t.batch \subseteq Kept(t.vault)
        /\ ~t.fresh => LogsIn(t.vault, since[t.vault], t.from - 1) \subseteq Kept(t.vault)
    BY <1>4 DEF InOrder
  <2>4. /\ LogsIn(t.vault, t.from, t.to)' = LogsIn(t.vault, t.from, t.to)
        /\ LogsIn(t.vault, since[t.vault], t.from - 1)' = LogsIn(t.vault, since[t.vault], t.from - 1)
        /\ head' = head
    BY <1>6 DEF LogsIn, chain
  <2>5. Kept(t.vault) \subseteq Kept(t.vault)'
    BY <1>4, <1>12
  <2>6. Earliest(r)' = i
    BY <1>3, <1>4, <2>2 DEF Earliest
  <2>7. InOrder(r)'
    BY <1>4, <1>11, <2>2, <2>3, <2>4, <2>5, <2>6 DEF InOrder
  <2>8. tick' = [tick EXCEPT ![w] = r]
    BY <1>6, <1>15, <2>1
  <2> QED
    BY <1>6, <1>9, <1>12, <2>2, <2>7, <2>8, RecordingSteps
<1> QED
  BY <1>14, <1>15

\* A mutation of a row belongs to an event on record.
LEMMA MutateProgress ==
    ASSUME Progress, NEW w \in Ticks, Mutating(w), NEW card \in CardState, Mutate(w, card)
    PROVE  Progress'
<1>1. Types /\ TableTypes /\ ChainTypes
  BY DEF Progress, Types
<1>2. PICK t \in TickState : t = tick[w]
  BY DEF Progress, Types
<1>3. /\ InOrder(t) /\ t.at \in {"store", "apply", "write"}
      /\ t.vault \in Vaults /\ t.vault # Factory /\ Earliest(t) \in recorded[t.vault]
  BY <1>2 DEF Progress, Mutating, InOrder, TickState
<1>4. /\ row' = [row EXCEPT ![t.vault] = card]
      /\ tick' = [tick EXCEPT ![w] = [t EXCEPT !.at = "store", !.batch = t.batch \ {Earliest(t)},
                                               !.balance = 0]]
      /\ UNCHANGED <<chain, watched, cursor, recorded, since>>
  BY <1>2 DEF Mutate, Goes
<1>5. TableTypes'
  BY <1>1, <1>4 DEF TableTypes, chain
<1>6. \A k \in ScanKeys : Kept(k)' = Kept(k)
  BY <1>4 DEF Kept
<1>7. PICK r : r = [t EXCEPT !.at = "store", !.batch = t.batch \ {Earliest(t)}, !.balance = 0]
  OBVIOUS
<1>8. /\ r \in TickState
      /\ r.at = "store" /\ r.batch = t.batch \ {Earliest(t)}
      /\ r.vault = t.vault /\ r.head = t.head /\ r.from = t.from /\ r.to = t.to
      /\ r.fresh = t.fresh
  <2>1. PICK b : b = t.batch \ {Earliest(t)}
    OBVIOUS
  <2>2. b \in SUBSET (Nat \cup Clones)
    BY <2>1 DEF TickState
  <2>3. PICK n \in Int : n = 0
    OBVIOUS
  <2>4. r = [t EXCEPT !.at = "store", !.batch = b, !.balance = n]
    BY <1>7, <2>1, <2>3
  <2>5. r \in TickState
    BY <2>2, <2>4 DEF TickState
  <2> QED
    BY <2>1, <2>4, <2>5 DEF TickState
<1>9. /\ t.head <= head /\ t.from <= t.head /\ t.to <= t.head
      /\ t.batch \subseteq LogsIn(t.vault, t.from, t.to)
      /\ LogsIn(t.vault, t.from, t.to) \ t.batch \subseteq Kept(t.vault)
      /\ ~t.fresh => LogsIn(t.vault, since[t.vault], t.from - 1) \subseteq Kept(t.vault)
      /\ Earliest(t) \in Kept(t.vault)
  BY <1>3 DEF InOrder, Kept
<1>10. InOrder(r)
  BY <1>8, <1>9 DEF InOrder
<1>11. InOrder(r)'
  BY <1>4, <1>10, <1>8, <1>6 DEF InOrder, LogsIn, chain, Kept
<1>12. tick' = [tick EXCEPT ![w] = r]
  BY <1>4, <1>7
<1> QED
  BY <1>4, <1>5, <1>6, <1>8, <1>11, <1>12, RecordingSteps

\* A row is a row.
LEMMA CardWellFormed ==
    ASSUME NEW n \in Int
    PROVE  Card(n) \in CardState
BY DEF Card, CardState

\* The mutations of a row, one by one.
LEMMA ApplyProgress ==
    ASSUME Progress, NEW w \in Ticks,
           ApplyProvisioned(w) \/ ApplyReclaimed(w) \/ SkipSettled(w) \/ WriteBalance(w)
    PROVE  Progress'
<1>1. Types /\ TableTypes /\ ChainTypes
  BY DEF Progress, Types
<1>2. tick[w] \in TickState
  BY <1>1 DEF Types
<1>3. NoRow \in CardState
  BY DEF NoRow, CardState
<1>4. ASSUME Mutating(w) PROVE Pending(w).amount \in Int
  <2>1. PICK t \in TickState : t = tick[w]
    BY <1>2
  <2>2. /\ InOrder(t) /\ t.at \in {"apply", "write"} /\ t.vault # Factory
        /\ t.vault \in Vaults /\ t.batch # {}
        /\ t.batch \subseteq LogsIn(t.vault, t.from, t.to)
    BY <1>4, <2>1 DEF Progress, Mutating, InOrder, TickState
  <2>3. Earliest(t) \in DOMAIN logs[t.vault]
    BY <1>1, <2>2, EarliestInBatch, LogKinds
  <2>4. logs[t.vault][Earliest(t)] \in LogEvent
    BY <1>1, <2>2, <2>3, EventAt
  <2> QED
    BY <2>1, <2>4 DEF Pending, LogEvent
<1>5. CASE ApplyProvisioned(w)
  <2>1. Mutating(w)
    BY <1>5 DEF ApplyProvisioned, Mutating
  <2>2. [available |-> Pending(w).amount, status |-> "Active"] \in CardState
    BY <1>4, <2>1 DEF CardState
  <2> QED
    BY <1>5, <2>1, <2>2, MutateProgress DEF ApplyProvisioned
<1>6. CASE ApplyReclaimed(w)
  <2>1. Mutating(w)
    BY <1>6 DEF ApplyReclaimed, Mutating
  <2>2. (IF row[tick[w].vault] = NoRow THEN NoRow ELSE Reclaimed(w)) \in CardState
    BY <1>3, CardWellFormed DEF Reclaimed
  <2> QED
    BY <1>6, <2>1, <2>2, MutateProgress DEF ApplyReclaimed
<1>7. CASE SkipSettled(w)
  <2>1. Mutating(w)
    BY <1>7 DEF SkipSettled, Mutating
  <2> QED
    BY <1>3, <1>7, <2>1, MutateProgress DEF SkipSettled
<1>8. CASE WriteBalance(w)
  <2>1. Mutating(w)
    BY <1>8 DEF WriteBalance, Mutating
  <2>2. tick[w].balance \in Int
    BY <1>2 DEF TickState
  <2>3. Remaining(w) \in Int
    BY <1>4, <2>1, <2>2 DEF Remaining, AtLeast0
  <2> QED
    BY <1>8, <2>1, <2>3, CardWellFormed, MutateProgress DEF WriteBalance
<1> QED
  BY <1>5, <1>6, <1>7, <1>8

\* The cursor moves to the end of a window that is on record.
LEMMA AdvanceProgress ==
    ASSUME Progress, NEW w \in Ticks, AdvanceCursor(w)
    PROVE  Progress'
<1>1. Types /\ TableTypes /\ ChainTypes /\ CursorsBehind
  BY DEF Progress, Types
<1>2. PICK t \in TickState : t = tick[w]
  BY DEF Progress, Types
<1>3. PICK k \in ScanKeys : k = t.vault
  BY DEF TickState
<1>4. /\ t.head \in Nat /\ t.from \in Nat /\ t.to \in Nat /\ t.used \in Nat
      /\ t.head <= head /\ t.from <= t.head /\ t.to <= t.head
      /\ t.batch = {} /\ t.at = "store"
      /\ LogsIn(k, t.from, t.to) \subseteq Kept(k)
      /\ ~t.fresh => LogsIn(k, since[k], t.from - 1) \subseteq Kept(k)
  BY <1>2, <1>3 DEF Progress, InOrder, AdvanceCursor, TickState
<1>5. PICK s : s = [t EXCEPT !.from = t.to + 1, !.fresh = FALSE]
  OBVIOUS
<1>6. /\ s \in TickState /\ s.head = t.head /\ s.from = t.to + 1 /\ s.fresh = FALSE
      /\ s.vault = k
  <2>1. PICK n \in Nat : n = t.to + 1
    BY <1>4
  <2>2. s = [t EXCEPT !.from = n, !.fresh = FALSE]
    BY <1>5, <2>1
  <2> QED
    BY <1>3, <2>1, <2>2 DEF TickState
<1>7. PICK r : r = Scan(s)
  OBVIOUS
<1>8. /\ cursor' = [cursor EXCEPT ![k] = t.to]
      /\ since' = IF t.fresh /\ since[k] < t.from THEN [since EXCEPT ![k] = t.from] ELSE since
      /\ tick' = [tick EXCEPT ![w] = r]
      /\ UNCHANGED <<chain, watched, recorded, row>>
  BY <1>2, <1>3, <1>5, <1>7 DEF AdvanceCursor, Stored, NextFrom, Goes
<1>9. /\ r \in TickState /\ r.head = t.head /\ r.at \in {"store", "list", "pick"}
      /\ r.at = "store" => /\ r.vault = k /\ r.from = t.to + 1 /\ r.fresh = FALSE
                           /\ r.from <= t.head /\ r.to <= t.head /\ r.to \in Nat
                           /\ r.batch = LogsIn(k, r.from, r.to)
  <2>1. s.head <= head
    BY <1>4, <1>6
  <2>2. r.to \in Nat
    BY <1>1, <1>6, <1>7, <2>1, ScanStarts DEF TickState
  <2> QED
    BY <1>1, <1>6, <1>7, <2>1, <2>2, ScanStarts
<1>10. /\ since \in [ScanKeys -> Nat] /\ since' \in [ScanKeys -> Nat]
       /\ \A j \in ScanKeys : since[j] <= since'[j]
       /\ \A j \in ScanKeys \ {k} : since'[j] = since[j]
       /\ t.fresh => t.from <= since'[k]
  <2>1. since \in [ScanKeys -> Nat]
    BY <1>1 DEF TableTypes
  <2> HIDE DEF ScanKeys
  <2> QED
    BY <1>4, <1>8, <2>1
<1>11. PICK n \in Nat : n = since'[k]
  BY <1>10
<1>12. LogsIn(k, n, t.to) \subseteq Kept(k)
  <2>1. CASE t.fresh
    <3>1. LogsIn(k, n, t.to) \subseteq LogsIn(k, t.from, t.to)
      BY <1>1, <1>4, <1>10, <1>11, <2>1, SmallerWindow
    <3> QED
      BY <1>4, <3>1
  <2>2. CASE ~t.fresh
    <3>1. t.from - 1 \in Int /\ (t.from - 1) + 1 = t.from
      BY <1>4
    <3>2. LogsIn(k, n, t.to) \subseteq LogsIn(k, n, t.from - 1) \cup LogsIn(k, t.from, t.to)
      BY <1>1, <1>4, <3>1, WindowsMeet
    <3>3. LogsIn(k, n, t.from - 1) \subseteq LogsIn(k, since[k], t.from - 1)
      BY <1>1, <1>10, <1>11, <3>1, SmallerWindow
    <3> QED
      BY <1>4, <2>2, <3>2, <3>3
  <2> QED
    BY <2>1, <2>2
<1>13. \A j \in ScanKeys : Kept(j)' = Kept(j)
  BY <1>8 DEF Kept
<1>14. \A j \in ScanKeys : \A a, b \in Int : LogsIn(j, a, b)' = LogsIn(j, a, b)
  BY <1>8 DEF LogsIn, chain
<1>15. ChainTypes'
  BY <1>1, <1>8 DEF ChainTypes, chain
<1>16. TableTypes'
  <2>1. cursor \in [ScanKeys -> Nat \cup {Unscanned}] /\ \A j \in ScanKeys : cursor[j] <= head
    BY <1>1 DEF TableTypes
  <2>2. t.to <= head
    BY <1>1, <1>4 DEF ChainTypes
  <2>3. cursor' \in [ScanKeys -> Nat \cup {Unscanned}] /\ \A j \in ScanKeys : cursor'[j] <= head
    <3> HIDE DEF ScanKeys
    <3> QED
      BY <1>4, <1>8, <2>1, <2>2
  <2> QED
    BY <1>1, <1>8, <1>10, <2>3 DEF TableTypes, chain
<1>17. Grows
  BY <1>1, <1>8, <1>10, <1>13, <1>14 DEF Grows, chain, ChainTypes
<1>18. Types'
  <2>1. tick \in [Ticks -> TickState]
    BY <1>1 DEF Types
  <2>2. tick' \in [Ticks -> TickState]
    <3> HIDE DEF Steps, ScanKeys, Vaults
    <3> QED
      BY <1>8, <1>9, <2>1
  <2> QED
    BY <1>15, <1>16, <2>2 DEF Types
<1>19. CursorsBehind'
  <2>1. ASSUME NEW j \in ScanKeys PROVE LogsIn(j, since[j], cursor[j])' \subseteq Kept(j)'
    <3>1. CASE j = k
      <4>1. cursor'[k] = t.to
        BY <1>1, <1>8 DEF TableTypes
      <4>2. LogsIn(k, since[k], cursor[k])' = LogsIn(k, n, t.to)'
        BY <1>11, <4>1
      <4>3. LogsIn(k, n, t.to)' = LogsIn(k, n, t.to)
        BY <1>4, <1>14
      <4>4. Kept(k)' = Kept(k)
        BY <1>13
      <4> QED
        BY <1>12, <3>1, <4>2, <4>3, <4>4
    <3>2. CASE j # k
      <4>1. cursor'[j] = cursor[j]
        BY <1>1, <1>8, <3>2 DEF TableTypes
      <4> QED
        BY <1>1, <1>17, <1>18, <4>1, CursorsStay
    <3> QED
      BY <3>1, <3>2
  <2> QED
    BY <2>1 DEF CursorsBehind
<1>20. InOrder(r)'
  <2>1. ASSUME r.at = "store"
        PROVE  LogsIn(r.vault, since[r.vault], r.from - 1)' \subseteq Kept(r.vault)'
    <3>1. r.vault = k /\ r.from - 1 = t.to
      BY <1>4, <1>9, <2>1
    <3>2. LogsIn(r.vault, since[r.vault], r.from - 1)' = LogsIn(k, n, t.to)'
      BY <1>11, <3>1
    <3>3. LogsIn(k, n, t.to)' = LogsIn(k, n, t.to)
      BY <1>4, <1>14
    <3>4. Kept(k)' = Kept(k)
      BY <1>13
    <3> QED
      BY <1>12, <3>1, <3>2, <3>3, <3>4
  <2>2. ASSUME r.at = "store"
        PROVE  LogsIn(r.vault, r.from, r.to)' = r.batch
    <3>1. r.from \in Int /\ r.to \in Int /\ r.vault = k
      BY <1>4, <1>9, <2>2
    <3> QED
      BY <1>9, <1>14, <2>2, <3>1
  <2>3. head' = head
    BY <1>8 DEF chain
  <2> QED
    BY <1>4, <1>9, <2>1, <2>2, <2>3 DEF InOrder
<1> QED
  BY <1>8, <1>9, <1>15, <1>16, <1>17, <1>19, <1>20, TickSteps

\* The log of the next vault of the list is opened.
LEMMA PickVaultProgress ==
    ASSUME Progress, NEW w \in Ticks, PickVault(w)
    PROVE  Progress'
<1>1. Types /\ CursorsBehind
  BY DEF Progress
<1>2. PICK t \in TickState : t = tick[w]
  BY DEF Progress, Types
<1>3. PICK todo : todo = Tail(t.todo)
  OBVIOUS
<1>4. t.todo \in Seq(Vaults) /\ t.todo # <<>> /\ t.head <= head
  BY <1>2 DEF Progress, InOrder, PickVault, TickState
<1>5. todo \in Seq(Vaults) /\ Head(t.todo) \in Vaults
  <2> HIDE DEF Vaults
  <2> QED
    BY <1>3, <1>4
<1>6. PICK k \in Vaults : k = Head(t.todo)
  BY <1>5
<1>7. PICK s : s = [t EXCEPT !.todo = todo]
  OBVIOUS
<1>8. s \in TickState /\ s.head = t.head
  BY <1>5, <1>7 DEF TickState
<1>9. PICK r : r = Opened(s, k)
  OBVIOUS
<1>10. r \in TickState /\ InOrder(r)
  BY <1>1, <1>4, <1>8, <1>9, OpenedInOrder
<1>11. tick' = [tick EXCEPT ![w] = r] /\ UNCHANGED <<chain, database, since>>
  BY <1>2, <1>3, <1>6, <1>7, <1>9 DEF PickVault, Goes
<1> QED
  BY <1>10, <1>11, QuietSteps

\* The steps between two windows, and the end of a tick.
LEMMA BetweenProgress ==
    ASSUME Progress, NEW w \in Ticks,
           ListVaults(w) \/ EndTick(w) \/ ReadBalance(w) \/ Fail(w)
    PROVE  Progress'
<1>1. Types
  BY DEF Progress
<1>2. PICK t \in TickState : t = tick[w]
  BY <1>1 DEF Types
<1>3. InOrder(t) /\ t.head <= head
  BY <1>2 DEF Progress, InOrder
<1>4. CASE ListVaults(w)
  <2>1. PICK todo \in Seq(Vaults) : todo = watched
    BY <1>1 DEF Types, TableTypes
  <2>2. PICK r : r = [t EXCEPT !.at = "pick", !.todo = todo]
    OBVIOUS
  <2>3. r \in TickState /\ r.at = "pick" /\ r.head = t.head
    BY <2>2 DEF TickState
  <2>4. InOrder(r)
    BY <1>3, <2>3 DEF InOrder
  <2> QED
    BY <1>2, <1>4, <2>1, <2>2, <2>3, <2>4, QuietSteps DEF ListVaults, Goes
<1>5. CASE EndTick(w) \/ Fail(w)
  <2>1. PICK r : r = NoTick
    OBVIOUS
  <2>2. r \in TickState /\ InOrder(r)
    BY <1>1, <2>1, NoTickInOrder
  <2> QED
    BY <1>5, <2>1, <2>2, QuietSteps DEF EndTick, Fail, Goes
<1>6. CASE ReadBalance(w)
  <2>1. t.at = "apply" /\ t.vault # Factory /\ t.vault \in Vaults
    BY <1>2, <1>3, <1>6 DEF ReadBalance, InOrder, TickState
  <2>2. PICK b \in Int : b = row[t.vault].available
    BY <1>1, <2>1 DEF Types, TableTypes, CardState
  <2>3. PICK r : r = [t EXCEPT !.at = "write", !.balance = b]
    OBVIOUS
  <2>4. /\ r \in TickState /\ r.at = "write" /\ r.vault = t.vault /\ r.head = t.head
        /\ r.from = t.from /\ r.to = t.to /\ r.fresh = t.fresh /\ r.batch = t.batch
    BY <2>3 DEF TickState
  <2>5. Earliest(r) = Earliest(t)
    BY <2>4 DEF Earliest
  <2>6. InOrder(r)
    BY <1>3, <2>1, <2>4, <2>5 DEF InOrder
  <2> QED
    BY <1>2, <1>6, <2>2, <2>3, <2>4, <2>6, QuietSteps DEF ReadBalance, Goes
<1> QED
  BY <1>4, <1>5, <1>6

-----------------------------------------------------------------------------
(* The invariant and the theorem.                                          *)

\* Empty tables are behind everything.
LEMMA InitProgress ==
    ASSUME Init
    PROVE  Progress
<1>1. NoRow \in CardState
  BY DEF NoRow, CardState
<1>2. \A v \in Vaults : logs[v] = <<>> /\ logs[v] \in Seq(LogEvent) /\ DOMAIN logs[v] = {}
  BY DEF Init
<1>3. ChainTypes
  <2>1. logs \in [Vaults -> Seq(LogEvent)]
    <3> HIDE DEF Vaults
    <3> QED
      BY <1>2 DEF Init
  <2> QED
    BY <1>1, <1>2, <2>1 DEF Init, ChainTypes
<1>4. TableTypes
  BY <1>1 DEF Init, TableTypes
<1>5. NoTick \in TickState
  BY DEF NoTick, TickState
<1>6. Types
  BY <1>3, <1>4, <1>5 DEF Init, Types
<1>7. CursorsBehind
  BY <1>2 DEF Init, CursorsBehind, LogsIn
<1>8. \A w \in Ticks : InOrder(tick[w])
  BY <1>6, NoTickInOrder DEF Init
<1> QED
  BY <1>6, <1>7, <1>8 DEF Progress

\* Every step keeps the invariant.
LEMMA NextProgress ==
    ASSUME Progress, [Next]_vars
    PROVE  Progress'
<1>1. CASE ChainStep
  BY <1>1, ChainStepProgress
<1>2. ASSUME NEW w \in Ticks, BeginTick(w)
      PROVE  Progress'
  BY <1>2, BeginProgress
<1>3. ASSUME NEW w \in Ticks, Proceed(w)
      PROVE  Progress'
  BY <1>3, SeedProgress, RecordVaultProgress, AdvanceProgress, PickVaultProgress,
     BetweenProgress, StoreEventProgress, ApplyProgress DEF Proceed
<1>4. ASSUME NEW w \in Ticks, Fail(w)
      PROVE  Progress'
  BY <1>4, BetweenProgress
<1>5. CASE UNCHANGED vars
  BY <1>5 DEF vars, Progress, Types, ChainTypes, TableTypes, CursorsBehind, InOrder,
              Kept, LogsIn, Earliest
<1> QED
  BY <1>1, <1>2, <1>3, <1>4, <1>5 DEF Next

\* Whatever ticks overlap, fail or start again, the ticks of runTick keep what
\* lies behind a cursor on record.
THEOREM ProgressAlways == Spec => []Progress
<1>1. Init => Progress
  BY InitProgress
<1>2. Progress /\ [Next]_vars => Progress'
  BY NextProgress
<1> QED
  BY <1>1, <1>2, PTL DEF Spec

\* The cursor that setCursor stores never passes over an event or a deployment.
THEOREM NothingSkippedAlways == Spec => []NothingSkipped
<1>1. Progress => NothingSkipped
  <2>1. SUFFICES ASSUME Progress PROVE NothingSkipped
    OBVIOUS
  <2>2. ASSUME NEW v \in Vaults PROVE LogsIn(v, since[v], cursor[v]) \subseteq recorded[v]
    BY <2>1 DEF Progress, CursorsBehind, Kept
  <2>3. ASSUME NEW v \in LogsIn(Factory, since[Factory], cursor[Factory])
        PROVE  Contains(watched, v)
    BY <2>1 DEF Progress, CursorsBehind, Kept
  <2> QED
    BY <2>2, <2>3 DEF NothingSkipped
<1> QED
  BY <1>1, ProgressAlways, PTL

-----------------------------------------------------------------------------
(* Balances.                                                               *)

\* What an event takes from its paycard.
Debit(e) == IF e.kind = "settled" THEN e.amount ELSE 0

\* w sums the debits over sets of positions of the log c.
Tally(w, c) ==
    /\ w \in [SUBSET (1..Len(c)) -> Nat]
    /\ \A K \in SUBSET (1..Len(c)) : \A i \in (1..Len(c)) \ K :
          w[K \cup {i}] = w[K] + Debit(c[i])
    /\ \A K, L \in SUBSET (1..Len(c)) : K \subseteq L => w[K] <= w[L]

\* Events on record whose effect a tick still has in hand, and all others.
InHand(v) == {Earliest(tick[u]) : u \in {x \in Ticks : Mutating(x) /\ tick[x].vault = v}}
Counted(v) == recorded[v] \ InHand(v)

\* The log tells the paycard's life, the record and the row are of that log.
Told(v) ==
    /\ \A i \in 1..Len(logs[v]) :
          /\ registry[v] # NoRow
          /\ logs[v][i].kind = "provisioned" => logs[v][i].amount = Pool
          /\ logs[v][i].kind = "settled" => logs[v][i].amount \in Nat
          /\ logs[v][i].kind = "reclaimed" => registry[v] = Card(0)
    /\ registry[v] # NoRow =>
          registry[v].available \in Nat /\ registry[v] = Card(registry[v].available)
    /\ recorded[v] \subseteq 1..Len(logs[v])
    /\ row[v] # NoRow =>
          /\ registry[v] # NoRow
          /\ row[v].available \in Nat /\ row[v] = Card(row[v].available)

\* No row and no balance in hand was debited for an event that is not counted.
Weighs(w, v) ==
    /\ Tally(w, logs[v])
    /\ registry[v] = NoRow => w[1..Len(logs[v])] = 0
    /\ registry[v].status = "Active" =>
          /\ registry[v].available + w[1..Len(logs[v])] = Pool
          /\ row[v] # NoRow => row[v].available + w[Counted(v)] >= Pool
          /\ \A u \in Ticks : tick[u].at = "write" /\ tick[u].vault = v
                => tick[u].balance + w[Counted(v)] >= Pool
Due(v) == \E w : Weighs(w, v)

\* An event is in one tick's hand; a balance is read for a settlement only.
Alone ==
    \A u, x \in Ticks :
        /\ u # x /\ Mutating(u) /\ Mutating(x) /\ tick[u].vault = tick[x].vault
        => Earliest(tick[u]) # Earliest(tick[x])
ForSettlement ==
    \A u \in Ticks : tick[u].at = "write" =>
        logs[tick[u].vault][Earliest(tick[u])].kind = "settled"

Reckoned == Alone /\ ForSettlement /\ \A v \in Vaults : Told(v) /\ Due(v)

\* A longer log has a tally that agrees with the shorter one's.
LEMMA TallyGrows ==
    ASSUME NEW c \in Seq(LogEvent), NEW e \in LogEvent, NEW w, Tally(w, c),
           Debit(e) \in Nat, \A i \in 1..Len(c) : Debit(c[i]) \in Nat
    PROVE  \E x : /\ Tally(x, Append(c, e))
                  /\ \A K \in SUBSET (1..Len(c)) : x[K] = w[K]
                  /\ x[1..(Len(c) + 1)] = w[1..Len(c)] + Debit(e)
<1> DEFINE n == Len(c)
           d == Debit(e)
           x == [K \in SUBSET (1..(n + 1)) |->
                    IF n + 1 \in K THEN w[K \ {n + 1}] + d ELSE w[K]]
<1>1. n \in Nat /\ d \in Nat /\ Len(Append(c, e)) = n + 1
  OBVIOUS
<1>2. /\ Append(c, e)[n + 1] = e
      /\ \A i \in 1..n : Append(c, e)[i] = c[i]
  OBVIOUS
<1>3. /\ w \in [SUBSET (1..n) -> Nat]
      /\ \A K \in SUBSET (1..n) : \A i \in (1..n) \ K : w[K \cup {i}] = w[K] + Debit(c[i])
      /\ \A K, L \in SUBSET (1..n) : K \subseteq L => w[K] <= w[L]
  BY DEF Tally
<1>4. Debit(Append(c, e)[n + 1]) = d
      /\ \A i \in 1..n : Debit(Append(c, e)[i]) = Debit(c[i])
  BY <1>2
<1> HIDE DEF n, d
<1>5. \A K \in SUBSET (1..(n + 1)) : K \ {n + 1} \in SUBSET (1..n)
  BY <1>1
<1>6. \A K \in SUBSET (1..(n + 1)) : n + 1 \notin K => K \in SUBSET (1..n)
  BY <1>1
<1>7. ASSUME NEW K \in SUBSET (1..(n + 1))
      PROVE  /\ n + 1 \in K => x[K] = w[K \ {n + 1}] + d
             /\ n + 1 \notin K => x[K] = w[K] /\ K \ {n + 1} = K
             /\ w[K \ {n + 1}] \in Nat
  BY <1>3, <1>5
<1>8. x \in [SUBSET (1..(n + 1)) -> Nat]
  <2>1. ASSUME NEW K \in SUBSET (1..(n + 1))
        PROVE  (IF n + 1 \in K THEN w[K \ {n + 1}] + d ELSE w[K]) \in Nat
    <3>1. CASE n + 1 \in K
      <4>1. w[K \ {n + 1}] \in Nat
        BY <1>3, <1>5
      <4> QED
        BY <1>1, <3>1, <4>1
    <3>2. CASE n + 1 \notin K
      BY <1>3, <1>6, <3>2
    <3> QED
      BY <3>1, <3>2
  <2> QED
    BY <2>1
<1> HIDE DEF x
<1>9. ASSUME NEW K \in SUBSET (1..(n + 1)), NEW i \in (1..(n + 1)) \ K
      PROVE  x[K \cup {i}] = x[K] + Debit(Append(c, e)[i])
  <2> DEFINE M == K \cup {i}
             J == K \ {n + 1}
  <2>1. M \in SUBSET (1..(n + 1)) /\ w[J] \in Nat
    BY <1>7
  <2>2. CASE i = n + 1
    <3>1. M \ {n + 1} = K /\ n + 1 \notin K /\ n + 1 \in M
      BY <2>2
    <3>2. x[M] = w[K] + d /\ x[K] = w[K]
      BY <1>7, <2>1, <3>1
    <3> QED
      BY <1>4, <2>2, <3>2
  <2>3. CASE i # n + 1
    <3>1. i \in 1..n /\ i \notin J /\ J \in SUBSET (1..n)
      BY <1>1, <1>5, <2>3
    <3>2. M \ {n + 1} = J \cup {i} /\ (n + 1 \in M <=> n + 1 \in K)
      BY <2>3
    <3>3. w[J \cup {i}] = w[J] + Debit(c[i])
      BY <1>3, <3>1
    <3>4. Debit(c[i]) \in Nat
      BY <3>1 DEF n
    <3>5. CASE n + 1 \in K
      <4>1. x[M] = w[J \cup {i}] + d /\ x[K] = w[J] + d
        BY <1>7, <2>1, <3>2, <3>5
      <4>2. x[M] = x[K] + Debit(c[i])
        <5> HIDE DEF J, M
        <5> QED
          BY <1>1, <2>1, <3>3, <3>4, <4>1
      <4> QED
        BY <1>4, <3>1, <4>2
    <3>6. CASE n + 1 \notin K
      <4>1. M \ {n + 1} = M /\ J = K
        BY <3>2, <3>6
      <4>2. x[M] = w[J \cup {i}] /\ x[K] = w[J]
        BY <1>7, <2>1, <3>2, <3>6, <4>1
      <4> QED
        BY <1>4, <3>1, <3>3, <4>2
    <3> QED
      BY <3>5, <3>6
  <2> QED
    BY <2>2, <2>3
<1>10. ASSUME NEW K \in SUBSET (1..(n + 1)), NEW L \in SUBSET (1..(n + 1)), K \subseteq L
       PROVE  x[K] <= x[L]
  <2> DEFINE I == K \ {n + 1}
             J == L \ {n + 1}
  <2>1. I \subseteq J /\ I \in SUBSET (1..n) /\ J \in SUBSET (1..n)
    BY <1>5, <1>10
  <2>2. w[I] <= w[J] /\ w[I] \in Nat /\ w[J] \in Nat
    BY <1>3, <2>1
  <2>3. /\ x[K] = w[I] \/ (x[K] = w[I] + d /\ n + 1 \in K)
        /\ x[L] = w[J] + d \/ (x[L] = w[J] /\ n + 1 \notin L)
    BY <1>7
  <2>4. n + 1 \in K => n + 1 \in L
    BY <1>10
  <2> HIDE DEF I, J
  <2> QED
    BY <1>1, <2>2, <2>3, <2>4
<1>11. Tally(x, Append(c, e))
  BY <1>1, <1>8, <1>9, <1>10 DEF Tally
<1>12. ASSUME NEW K \in SUBSET (1..n) PROVE x[K] = w[K]
  <2>1. K \in SUBSET (1..(n + 1)) /\ n + 1 \notin K
    BY <1>1
  <2> QED
    BY <1>7, <2>1
<1>13. x[1..(n + 1)] = w[1..n] + d
  <2>1. (1..(n + 1)) \ {n + 1} = 1..n /\ n + 1 \in 1..(n + 1)
    BY <1>1
  <2> QED
    BY <1>7, <2>1
<1> QED
  BY <1>11, <1>12, <1>13 DEF n, d

\* What a tick has in hand is an event on record of one of the vaults.
LEMMA InHandRecorded ==
    ASSUME Progress, NEW u \in Ticks, Mutating(u)
    PROVE  /\ tick[u].vault \in Vaults /\ tick[u].vault # Factory
           /\ Earliest(tick[u]) \in recorded[tick[u].vault]
<1>1. tick[u] \in TickState /\ InOrder(tick[u])
  BY DEF Progress, Types
<1>2. tick[u].at \in {"apply", "write"} /\ tick[u].vault \in ScanKeys
  BY <1>1 DEF Mutating, TickState
<1> QED
  BY <1>1, <1>2 DEF InOrder

\* A step of one tick that has no event in hand, before or after.
LEMMA QuietReckoned ==
    ASSUME Progress, Reckoned, UNCHANGED <<logs, registry, recorded, row>>,
           NEW w \in Ticks, NEW r, tick' = [tick EXCEPT ![w] = r],
           ~Mutating(w), r.at \notin {"apply", "write"}
    PROVE  Reckoned'
<1>1. tick \in [Ticks -> TickState]
  BY DEF Progress, Types
<1>2. tick'[w] = r /\ \A u \in Ticks \ {w} : tick'[u] = tick[u]
  BY <1>1
<1>3. ~Mutating(w)' /\ \A u \in Ticks : Mutating(u)' => u # w /\ Mutating(u) /\ tick'[u] = tick[u]
  BY <1>2 DEF Mutating
<1>4. \A u \in Ticks : Mutating(u) => Mutating(u)' /\ tick'[u] = tick[u]
  BY <1>2 DEF Mutating
<1>5. ASSUME NEW u \in Ticks, Mutating(u) PROVE Earliest(tick[u])' = Earliest(tick[u])
  <2>1. tick[u].vault # Factory
    BY <1>5, InHandRecorded
  <2> QED
    BY <1>4, <1>5, <2>1 DEF Earliest
<1>6. ASSUME NEW v \in Vaults PROVE InHand(v)' = InHand(v)
  BY <1>3, <1>4, <1>5 DEF InHand
<1>7. Alone'
  BY <1>3, <1>5 DEF Reckoned, Alone
<1>8. ForSettlement'
  BY <1>3, <1>5 DEF Reckoned, ForSettlement, Mutating
<1>9. ASSUME NEW v \in Vaults PROVE Told(v)' /\ Due(v)'
  <2>1. Told(v)'
    BY DEF Reckoned, Told, Card
  <2>2. PICK x : Weighs(x, v)
    BY DEF Reckoned, Due
  <2>3. Counted(v)' = Counted(v)
    BY <1>6 DEF Counted
  <2>4. \A u \in Ticks : tick'[u].at = "write" => tick'[u] = tick[u]
    BY <1>3 DEF Mutating
  <2> QED
    BY <2>1, <2>2, <2>3, <2>4 DEF Due, Weighs
<1> QED
  BY <1>7, <1>8, <1>9 DEF Reckoned

\* What is in hand and what is counted belong to the ticks and the record.
LEMMA HandsStay ==
    ASSUME Progress, UNCHANGED <<tick, recorded>>
    PROVE  /\ \A u \in Ticks : Mutating(u) => Earliest(tick[u])' = Earliest(tick[u])
           /\ \A v \in Vaults : Counted(v)' = Counted(v)
<1>1. ASSUME NEW u \in Ticks, Mutating(u) PROVE Earliest(tick[u])' = Earliest(tick[u])
  <2>1. tick[u].vault # Factory
    BY <1>1, InHandRecorded
  <2> QED
    BY <2>1 DEF Earliest
<1>2. ASSUME NEW v \in Vaults PROVE InHand(v)' = InHand(v)
  BY <1>1 DEF InHand, Mutating
<1> QED
  BY <1>1, <1>2 DEF Counted

\* A block without a log, and a deployment, change nothing that is reckoned.
LEMMA BlockReckoned ==
    ASSUME Progress, Reckoned, UNCHANGED <<logs, registry, recorded, row, tick>>
    PROVE  Reckoned'
<1>1. \A u \in Ticks : /\ Mutating(u)' <=> Mutating(u)
                       /\ Mutating(u) => Earliest(tick[u])' = Earliest(tick[u])
  BY HandsStay DEF Mutating
<1>2. Alone'
  BY <1>1 DEF Reckoned, Alone
<1>3. ForSettlement'
  BY <1>1 DEF Reckoned, ForSettlement, Mutating
<1>4. ASSUME NEW v \in Vaults PROVE Told(v)' /\ Due(v)'
  <2>1. Told(v)'
    BY DEF Reckoned, Told, Card
  <2>2. PICK x : Weighs(x, v)
    BY DEF Reckoned, Due
  <2>3. Counted(v)' = Counted(v)
    BY HandsStay
  <2> QED
    BY <2>1, <2>2, <2>3 DEF Due, Weighs
<1> QED
  BY <1>2, <1>3, <1>4 DEF Reckoned

\* The balance a transaction leaves accounts for what its logs take.
LEMMA MinedReckoned ==
    ASSUME Progress, Reckoned, NEW v \in Vaults, NEW events \in Seq(LogEvent),
           NEW n \in Nat, NEW d \in Nat, Mined(v, events, Card(n)),
           \A i \in 1..Len(events) :
              /\ events[i].kind = "provisioned" => events[i].amount = Pool
              /\ events[i].kind = "settled" => events[i].amount \in Nat
              /\ events[i].kind = "reclaimed" => n = 0,
           registry[v] = Card(0) => n = 0,
           \A w : Tally(w, logs[v]) =>
              \E x : /\ Tally(x, logs[v] \o events)
                     /\ \A K \in SUBSET (1..Len(logs[v])) : x[K] = w[K]
                     /\ x[1..Len(logs[v] \o events)] = w[1..Len(logs[v])] + d,
           n > 0 => \/ registry[v] = NoRow /\ n = Pool /\ d = 0
                    \/ registry[v].status = "Active" /\ n + d = registry[v].available
    PROVE  Reckoned'
<1>1. /\ logs \in [Vaults -> Seq(LogEvent)] /\ registry \in [Vaults -> CardState]
      /\ logs' = [logs EXCEPT ![v] = logs[v] \o events]
      /\ registry' = [registry EXCEPT ![v] = Card(n)]
      /\ UNCHANGED <<recorded, row, tick>>
  BY DEF Progress, Types, ChainTypes, Mined, database
<1>2. /\ logs'[v] = logs[v] \o events /\ registry'[v] = Card(n)
      /\ \A u \in Vaults \ {v} : logs'[u] = logs[u] /\ registry'[u] = registry[u]
  BY <1>1
<1>3. PICK c \in Seq(LogEvent) : c = logs[v]
  BY <1>1
<1>4. /\ Len(c) \in Nat /\ Len(events) \in Nat /\ Len(c \o events) = Len(c) + Len(events)
      /\ \A i \in 1..Len(c) : (c \o events)[i] = c[i]
      /\ \A i \in 1..Len(c \o events) : i \in 1..Len(c) \/
            (i - Len(c) \in 1..Len(events) /\ (c \o events)[i] = events[i - Len(c)])
  OBVIOUS
<1>5. Card(n) # NoRow /\ Card(n).available = n
      /\ (Card(n).status = "Active" <=> n > 0) /\ (n = 0 => Card(n) = Card(0))
  BY DEF Card, NoRow
<1>6. \A u \in Ticks : /\ Mutating(u)' <=> Mutating(u)
                       /\ Mutating(u) => Earliest(tick[u])' = Earliest(tick[u])
  BY <1>1, HandsStay DEF Mutating
<1>7. Alone'
  BY <1>1, <1>6 DEF Reckoned, Alone
<1>8. ForSettlement'
  <2>1. ASSUME NEW u \in Ticks, tick[u].at = "write"
        PROVE  logs'[tick[u].vault][Earliest(tick[u])'].kind = "settled"
    <3>1. Mutating(u) /\ tick[u].vault \in Vaults /\ Earliest(tick[u]) \in recorded[tick[u].vault]
      BY <2>1, InHandRecorded DEF Mutating
    <3>2. Earliest(tick[u]) \in 1..Len(logs[tick[u].vault])
      BY <3>1 DEF Reckoned, Told
    <3>3. logs[tick[u].vault][Earliest(tick[u])].kind = "settled"
      BY <2>1 DEF Reckoned, ForSettlement
    <3>4. logs'[tick[u].vault][Earliest(tick[u])] = logs[tick[u].vault][Earliest(tick[u])]
      <4>1. CASE tick[u].vault = v
        BY <1>2, <1>3, <1>4, <3>2, <4>1
      <4>2. CASE tick[u].vault # v
        BY <1>2, <3>1, <4>2
      <4> QED
        BY <4>1, <4>2
    <3> QED
      BY <1>6, <3>1, <3>3, <3>4
  <2> QED
    BY <1>1, <2>1 DEF ForSettlement
<1>9. ASSUME NEW u \in Vaults \ {v} PROVE Told(u)' /\ Due(u)'
  <2>1. Told(u)'
    <3>1. Told(u) /\ UNCHANGED <<logs[u], registry[u], recorded[u], row[u]>>
      BY <1>1, <1>2 DEF Reckoned
    <3> QED
      BY <3>1 DEF Told, Card
  <2>2. PICK x : Weighs(x, u)
    BY DEF Reckoned, Due
  <2>3. Counted(u)' = Counted(u)
    BY <1>1, HandsStay
  <2> QED
    BY <1>1, <1>2, <2>1, <2>2, <2>3 DEF Due, Weighs
<1>10. Told(v)'
  <2>1. ASSUME NEW i \in 1..Len(c \o events)
        PROVE  LET e == (c \o events)[i]
               IN  /\ e.kind = "provisioned" => e.amount = Pool
                   /\ e.kind = "settled" => e.amount \in Nat
                   /\ e.kind = "reclaimed" => Card(n) = Card(0)
    <3>1. CASE i \in 1..Len(c)
      <4>1. /\ (c \o events)[i] = c[i]
            /\ c[i].kind = "provisioned" => c[i].amount = Pool
            /\ c[i].kind = "settled" => c[i].amount \in Nat
            /\ c[i].kind = "reclaimed" => registry[v] = Card(0)
        BY <1>3, <1>4, <3>1 DEF Reckoned, Told
      <4> QED
        BY <1>5, <4>1
    <3>2. CASE i - Len(c) \in 1..Len(events) /\ (c \o events)[i] = events[i - Len(c)]
      BY <1>5, <3>2
    <3> QED
      BY <1>4, <3>1, <3>2
  <2>2. recorded[v] \subseteq 1..Len(c \o events)
    BY <1>3, <1>4 DEF Reckoned, Told
  <2>3. row[v] # NoRow => row[v].available \in Nat /\ row[v] = Card(row[v].available)
    BY DEF Reckoned, Told
  <2>4. (Card(0))' = Card(0) /\ (Card(n))' = Card(n) /\ (Card(row[v].available))' = Card(row[v].available)
        /\ (Card(registry[v].available))' = Card(n)
    BY <1>1, <1>2, <1>5 DEF Card
  <2> QED
    BY <1>1, <1>2, <1>3, <1>5, <2>1, <2>2, <2>3, <2>4 DEF Told
<1>11. Due(v)'
  <2>1. PICK w : Weighs(w, v)
    BY DEF Reckoned, Due
  <2>2. Tally(w, c) /\ w[1..Len(c)] \in Nat
    BY <1>3, <2>1 DEF Weighs, Tally
  <2>3. PICK x : /\ Tally(x, c \o events)
                 /\ \A K \in SUBSET (1..Len(c)) : x[K] = w[K]
                 /\ x[1..Len(c \o events)] = w[1..Len(c)] + d
    BY <1>3, <2>2
  <2>4. Counted(v)' = Counted(v) /\ Counted(v) \in SUBSET (1..Len(c))
    BY <1>1, <1>3, HandsStay DEF Reckoned, Told, Counted
  <2>5. ASSUME n > 0
        PROVE  /\ n + x[1..Len(c \o events)] = Pool
               /\ row[v] # NoRow => row[v].available + x[Counted(v)] >= Pool
               /\ \A u \in Ticks : tick[u].at = "write" /\ tick[u].vault = v
                     => tick[u].balance + x[Counted(v)] >= Pool
    <3>1. CASE registry[v] = NoRow /\ n = Pool /\ d = 0
      <4>1. row[v] = NoRow /\ 1..Len(c) = {} /\ recorded[v] = {}
        BY <1>3, <3>1 DEF Reckoned, Told
      <4>2. \A u \in Ticks : ~(tick[u].at = "write" /\ tick[u].vault = v)
        BY <4>1, InHandRecorded DEF Mutating
      <4>3. w[1..Len(c)] = 0
        BY <1>3, <2>1, <3>1 DEF Weighs
      <4> QED
        BY <2>3, <3>1, <4>1, <4>2, <4>3
    <3>2. CASE registry[v].status = "Active" /\ n + d = registry[v].available
      <4>1. /\ registry[v].available + w[1..Len(c)] = Pool
            /\ row[v] # NoRow => row[v].available + w[Counted(v)] >= Pool
            /\ \A u \in Ticks : tick[u].at = "write" /\ tick[u].vault = v
                  => tick[u].balance + w[Counted(v)] >= Pool
        BY <1>3, <2>1, <3>2 DEF Weighs
      <4>2. x[Counted(v)] = w[Counted(v)]
        BY <2>3, <2>4
      <4>3. n + x[1..Len(c \o events)] = Pool
        <5>1. PICK p \in Nat : p = w[1..Len(c)]
          BY <2>2
        <5> QED
          BY <2>3, <3>2, <4>1, <5>1
      <4> QED
        BY <4>1, <4>2, <4>3
    <3> QED
      BY <2>5, <3>1, <3>2
  <2>6. Weighs(x, v)'
    <3>1. Tally(x, logs[v])'
      <4>1. logs'[v] = c \o events
        BY <1>2, <1>3
      <4>2. Tally(x, logs'[v])
        BY <2>3, <4>1
      <4> QED
        BY <4>2 DEF Tally, Debit
    <3>2. registry'[v] # NoRow /\ registry'[v].available = n
          /\ (registry'[v].status = "Active" => n > 0) /\ logs'[v] = c \o events
      BY <1>2, <1>3, <1>5
    <3> QED
      BY <1>1, <2>4, <2>5, <3>1, <3>2 DEF Weighs
  <2> QED
    BY <2>6 DEF Due
<1> QED
  BY <1>7, <1>8, <1>9, <1>10, <1>11 DEF Reckoned

\* A tally over the log of v goes on over one event.
LEMMA TallyOne ==
    ASSUME Progress, Reckoned, NEW v \in Vaults, NEW e \in LogEvent, Debit(e) \in Nat,
           NEW w, Tally(w, logs[v])
    PROVE  \E x : /\ Tally(x, logs[v] \o <<e>>)
                  /\ \A K \in SUBSET (1..Len(logs[v])) : x[K] = w[K]
                  /\ x[1..Len(logs[v] \o <<e>>)] = w[1..Len(logs[v])] + Debit(e)
<1>1. PICK c \in Seq(LogEvent) : c = logs[v]
  BY DEF Progress, Types, ChainTypes
<1>2. c \o <<e>> = Append(c, e) /\ Len(Append(c, e)) = Len(c) + 1
  OBVIOUS
<1>3. \A i \in 1..Len(c) : Debit(c[i]) \in Nat
  BY <1>1 DEF Reckoned, Told, Debit
<1>4. PICK x : /\ Tally(x, Append(c, e))
               /\ \A K \in SUBSET (1..Len(c)) : x[K] = w[K]
               /\ x[1..(Len(c) + 1)] = w[1..Len(c)] + Debit(e)
  <2>1. Tally(w, c)
    BY <1>1
  <2> QED
    BY <1>3, <2>1, TallyGrows
<1> QED
  BY <1>1, <1>2, <1>4

\* A tally over the log of v goes on over a settlement and a reclaim.
LEMMA TallyTwo ==
    ASSUME Progress, Reckoned, NEW v \in Vaults, NEW e \in LogEvent, Debit(e) \in Nat,
           NEW r \in LogEvent, r.kind = "reclaimed", NEW w, Tally(w, logs[v])
    PROVE  \E x : /\ Tally(x, logs[v] \o (<<e>> \o <<r>>))
                  /\ \A K \in SUBSET (1..Len(logs[v])) : x[K] = w[K]
                  /\ x[1..Len(logs[v] \o (<<e>> \o <<r>>))] = w[1..Len(logs[v])] + Debit(e)
<1>1. PICK c \in Seq(LogEvent) : c = logs[v]
  BY DEF Progress, Types, ChainTypes
<1>2. PICK b \in Seq(LogEvent) : b = Append(c, e)
  <2>1. Append(c, e) \in Seq(LogEvent)
    OBVIOUS
  <2> QED
    BY <2>1
<1>3. /\ Len(Append(b, r)) = Len(b) + 1 /\ Len(b) = Len(c) + 1 /\ Len(c) \in Nat
      /\ b[Len(c) + 1] = e /\ \A i \in 1..Len(c) : b[i] = c[i]
  BY <1>2
<1>4. b = c \o <<e>> /\ Append(b, r) = c \o (<<e>> \o <<r>>)
  <2>1. <<e>> \in Seq(LogEvent) /\ <<r>> \in Seq(LogEvent)
    OBVIOUS
  <2>2. (c \o <<e>>) \o <<r>> = c \o (<<e>> \o <<r>>)
    BY <2>1, ConcatAssociative
  <2>3. b = c \o <<e>> /\ Append(b, r) = b \o <<r>>
    BY <1>2, AppendIsConcat
  <2> QED
    BY <2>2, <2>3
<1>5. Debit(r) = 0
  BY DEF Debit
<1>6. \A i \in 1..Len(b) : Debit(b[i]) \in Nat
  <2>1. \A i \in 1..Len(c) : Debit(c[i]) \in Nat
    BY <1>1 DEF Reckoned, Told, Debit
  <2>2. \A i \in 1..Len(b) : i \in 1..Len(c) \/ i = Len(c) + 1
    BY <1>3
  <2> QED
    BY <1>3, <2>1, <2>2
<1>7. PICK y : /\ Tally(y, b)
               /\ \A K \in SUBSET (1..Len(c)) : y[K] = w[K]
               /\ y[1..Len(b)] = w[1..Len(c)] + Debit(e)
  <2>1. PICK y : /\ Tally(y, c \o <<e>>)
                 /\ \A K \in SUBSET (1..Len(c)) : y[K] = w[K]
                 /\ y[1..Len(c \o <<e>>)] = w[1..Len(c)] + Debit(e)
    BY <1>1, TallyOne
  <2> QED
    BY <1>4, <2>1
<1>8. PICK x : /\ Tally(x, Append(b, r))
               /\ \A K \in SUBSET (1..Len(b)) : x[K] = y[K]
               /\ x[1..(Len(b) + 1)] = y[1..Len(b)] + Debit(r)
  BY <1>5, <1>6, <1>7, TallyGrows
<1>9. \A K \in SUBSET (1..Len(c)) : K \in SUBSET (1..Len(b))
  BY <1>3
<1>10. x[1..(Len(b) + 1)] = w[1..Len(c)] + Debit(e)
  <2>1. y[1..Len(b)] \in Nat
    BY <1>7 DEF Tally
  <2> QED
    BY <1>5, <1>7, <1>8, <2>1
<1>11. \A K \in SUBSET (1..Len(c)) : x[K] = w[K]
  BY <1>7, <1>8, <1>9
<1> QED
  BY <1>1, <1>3, <1>8, <1>10, <1>4, <1>11

\* A transaction with one log.
LEMMA MinedOne ==
    ASSUME Progress, Reckoned, NEW v \in Vaults, NEW e \in LogEvent, NEW n \in Nat,
           Mined(v, <<e>>, Card(n)), Debit(e) \in Nat,
           e.kind = "provisioned" => e.amount = Pool,
           e.kind = "reclaimed" => n = 0,
           registry[v] = Card(0) => n = 0,
           n > 0 => \/ registry[v] = NoRow /\ n = Pool /\ Debit(e) = 0
                    \/ registry[v].status = "Active" /\ n + Debit(e) = registry[v].available
    PROVE  Reckoned'
<1>1. PICK events \in Seq(LogEvent) : events = <<e>>
  <2>1. <<e>> \in Seq(LogEvent)
    OBVIOUS
  <2> QED
    BY <2>1
<1>2. Len(events) = 1 /\ events[1] = e /\ Mined(v, events, Card(n))
  BY <1>1
<1>3. \A w : Tally(w, logs[v]) =>
         \E x : /\ Tally(x, logs[v] \o events)
                /\ \A K \in SUBSET (1..Len(logs[v])) : x[K] = w[K]
                /\ x[1..Len(logs[v] \o events)] = w[1..Len(logs[v])] + Debit(e)
  BY <1>1, TallyOne
<1>4. \A i \in 1..Len(events) :
         /\ events[i].kind = "provisioned" => events[i].amount = Pool
         /\ events[i].kind = "settled" => events[i].amount \in Nat
         /\ events[i].kind = "reclaimed" => n = 0
  BY <1>2 DEF Debit
<1> QED
  BY <1>2, <1>3, <1>4, MinedReckoned

\* The chain's steps keep the reckoning.
LEMMA ChainReckoned ==
    ASSUME Progress, Reckoned, ChainStep
    PROVE  Reckoned'
<1>1. ChainTypes
  BY DEF Progress, Types
<1>2. ASSUME NEW a \in Int, NEW kind \in {"provisioned", "settled", "reclaimed"}
      PROVE  /\ Event(kind, a) \in LogEvent
             /\ Event(kind, a).kind = kind /\ Event(kind, a).amount = a
  BY <1>1 DEF Event, LogEvent, ChainTypes
<1>3. CASE MineEmpty
  <2>1. /\ logs' = [logs EXCEPT ![Canonical] = logs[Canonical] \o <<>>]
        /\ registry' = [registry EXCEPT ![Canonical] = registry[Canonical]]
        /\ UNCHANGED <<recorded, row, tick>>
    BY <1>3 DEF MineEmpty, Mined, database
  <2>2. logs[Canonical] \o <<>> = logs[Canonical]
    <3>1. logs[Canonical] \in Seq(LogEvent)
      BY <1>1 DEF ChainTypes
    <3> QED
      BY <3>1
  <2>3. UNCHANGED <<logs, registry>>
    BY <1>1, <2>1, <2>2 DEF ChainTypes
  <2> QED
    BY <2>1, <2>3, BlockReckoned
<1>4. ASSUME NEW v \in Clones, Deploy(v) PROVE Reckoned'
  BY <1>4, BlockReckoned DEF Deploy, database
<1>5. ASSUME NEW v \in Vaults, Provision(v) PROVE Reckoned'
  <2>1. PICK e \in LogEvent : /\ e = Event("provisioned", Pool)
                              /\ e.kind = "provisioned" /\ e.amount = Pool
    BY <1>2
  <2>2. registry[v] = NoRow /\ Mined(v, <<e>>, Card(Pool)) /\ Debit(e) = 0
    BY <1>5, <2>1 DEF Provision, Debit
  <2>3. Card(0) # NoRow
    BY DEF Card, NoRow
  <2>4. PICK n \in Nat : n = Pool
    OBVIOUS
  <2> QED
    BY <2>1, <2>2, <2>3, <2>4, MinedOne
<1>6. ASSUME NEW v \in Vaults, Settle(v) PROVE Reckoned'
  <2>1. PICK a \in 1..registry[v].available :
           Mined(v, <<Event("settled", a)>>, Card(registry[v].available - a))
    BY <1>6 DEF Settle
  <2>2. registry[v].available \in Int
    BY <1>1 DEF ChainTypes, CardState
  <2>3. PICK n \in Nat : n = registry[v].available - a
    BY <2>1, <2>2
  <2>4. a \in Nat \ {0} /\ n + a = registry[v].available /\ registry[v].available > 0
    BY <2>1, <2>2, <2>3
  <2>5. registry[v] # NoRow /\ registry[v] # Card(0) /\ registry[v].status = "Active"
    <3>1. registry[v] # NoRow /\ registry[v] # Card(0)
      BY <2>4 DEF NoRow, Card
    <3> QED
      <4>1. registry[v] = Card(registry[v].available)
        BY <3>1 DEF Reckoned, Told
      <4>2. Card(registry[v].available).status = "Active"
        BY <2>4 DEF Card
      <4> QED
        BY <3>1, <4>1, <4>2
  <2>6. PICK e \in LogEvent : e = Event("settled", a) /\ e.kind = "settled" /\ e.amount = a
    BY <1>2, <2>4
  <2>7. Debit(e) = a /\ Mined(v, <<e>>, Card(n))
    BY <2>1, <2>3, <2>6 DEF Debit
  <2> QED
    BY <2>4, <2>5, <2>6, <2>7, MinedOne
<1>7. ASSUME NEW v \in Vaults, Flush(v) PROVE Reckoned'
  <2>1. PICK due \in 0..(registry[v].available - 1) :
           Mined(v, (IF due = 0 THEN <<>> ELSE <<Event("settled", due)>>)
                     \o <<Event("reclaimed", registry[v].available - due)>>, Card(0))
    BY <1>7 DEF Flush
  <2>2. registry[v].available \in Int
    BY <1>1 DEF ChainTypes, CardState
  <2>3. due \in Nat /\ registry[v].available - due \in Int
    BY <2>1, <2>2
  <2>4. PICK e \in LogEvent : e = Event("settled", due) /\ e.kind = "settled" /\ e.amount = due
    BY <1>2, <2>3
  <2>5. PICK r \in LogEvent : /\ r = Event("reclaimed", registry[v].available - due)
                              /\ r.kind = "reclaimed"
    BY <1>2, <2>3
  <2>6. Debit(e) = due /\ Debit(r) = 0
    BY <2>4, <2>5 DEF Debit
  <2>7. /\ <<>> \o <<r>> = <<r>> /\ <<r>> \in Seq(LogEvent) /\ Len(<<r>>) = 1 /\ <<r>>[1] = r
        /\ <<e>> \o <<r>> \in Seq(LogEvent) /\ Len(<<e>> \o <<r>>) = 2
        /\ (<<e>> \o <<r>>)[1] = e /\ (<<e>> \o <<r>>)[2] = r
    OBVIOUS
  <2>8. CASE due = 0
    <3>1. Mined(v, <<r>>, Card(0))
      BY <2>1, <2>5, <2>7, <2>8
    <3>2. PICK n \in Nat : n = 0
      OBVIOUS
    <3> QED
      BY <2>5, <2>6, <3>1, <3>2, MinedOne
  <2>9. CASE due # 0
    <3>1. Mined(v, <<e>> \o <<r>>, Card(0))
      BY <2>1, <2>4, <2>5, <2>9
    <3>2. \A i \in 1..Len(<<e>> \o <<r>>) : i = 1 \/ i = 2
      BY <2>7
    <3>3. \A w : Tally(w, logs[v]) =>
             \E x : /\ Tally(x, logs[v] \o (<<e>> \o <<r>>))
                    /\ \A K \in SUBSET (1..Len(logs[v])) : x[K] = w[K]
                    /\ x[1..Len(logs[v] \o (<<e>> \o <<r>>))] = w[1..Len(logs[v])] + due
      BY <2>3, <2>5, <2>6, TallyTwo
    <3>4. PICK events \in Seq(LogEvent) : events = <<e>> \o <<r>>
      BY <2>7
    <3>5. PICK n \in Nat : n = 0
      OBVIOUS
    <3>6. \A i \in 1..Len(events) :
             /\ events[i].kind = "provisioned" => events[i].amount = Pool
             /\ events[i].kind = "settled" => events[i].amount \in Nat
             /\ events[i].kind = "reclaimed" => n = 0
      BY <2>3, <2>4, <2>5, <2>7, <3>2, <3>4, <3>5
    <3>7. Mined(v, events, Card(n))
      BY <3>1, <3>4, <3>5
    <3>8. \A w : Tally(w, logs[v]) =>
             \E x : /\ Tally(x, logs[v] \o events)
                    /\ \A K \in SUBSET (1..Len(logs[v])) : x[K] = w[K]
                    /\ x[1..Len(logs[v] \o events)] = w[1..Len(logs[v])] + due
      BY <3>3, <3>4
    <3>9. due \in Nat /\ n \in Nat /\ (registry[v] = Card(0) => n = 0) /\ ~(n > 0)
      BY <2>3, <3>5
    <3> HIDE DEF Vaults
    <3> QED
      BY <3>6, <3>7, <3>8, <3>9, MinedReckoned
  <2> QED
    BY <2>8, <2>9
<1> QED
  BY <1>3, <1>4, <1>5, <1>6, <1>7 DEF ChainStep

\* A step of w, to r, that has no event in hand, before or after.
Between(w, r) ==
    /\ ~Mutating(w) /\ r.at \notin {"apply", "write"}
    /\ tick' = [tick EXCEPT ![w] = r]
    /\ UNCHANGED <<logs, registry, recorded, row, disturbed>>

\* The steps of a tick between two events.
LEMMA BetweenEvents ==
    ASSUME Progress, NEW w \in Ticks,
           \/ BeginTick(w) \/ SeedCanonical(w) \/ RecordVault(w) \/ AdvanceCursor(w)
           \/ ListVaults(w) \/ PickVault(w) \/ EndTick(w)
    PROVE  \E r : Between(w, r)
<1>1. Types /\ ChainTypes /\ CursorsBehind
  BY DEF Progress, Types
<1>2. PICK t \in TickState : t = tick[w]
  BY <1>1 DEF Types
<1>3. t.head <= head
  BY <1>2 DEF Progress, InOrder
<1>4. ASSUME NEW r, r.at \notin {"apply", "write"}, tick' = [tick EXCEPT ![w] = r],
             UNCHANGED <<logs, registry, recorded, row, disturbed>>,
             t.at \notin {"apply", "write"}
      PROVE  \E s : Between(w, s)
  BY <1>2, <1>4 DEF Between, Mutating
<1>5. CASE BeginTick(w)
  <2>1. [NoTick EXCEPT !.at = "seed", !.head = head].at = "seed"
    BY DEF NoTick
  <2> QED
    BY <1>2, <1>4, <1>5, <2>1 DEF BeginTick, Goes, chain, database
<1>6. CASE SeedCanonical(w)
  <2>1. Opened(t, Factory) \in TickState /\ Opened(t, Factory).at \notin {"apply", "write"}
    BY <1>1, <1>3, OpenedInOrder
  <2> QED
    BY <1>2, <1>4, <1>6, <2>1 DEF SeedCanonical, Goes, chain
<1>7. CASE RecordVault(w)
  <2>1. PICK r : r = [t EXCEPT !.batch = t.batch \ {Earliest(t)}]
    OBVIOUS
  <2>2. t.at = "store" /\ r.at = "store"
    BY <1>2, <1>7, <2>1 DEF RecordVault, TickState
  <2>3. tick' = [tick EXCEPT ![w] = r] /\ UNCHANGED <<logs, registry, recorded, row, disturbed>>
    BY <1>2, <1>7, <2>1 DEF RecordVault, Goes, chain
  <2> QED
    BY <1>4, <2>2, <2>3
<1>8. CASE AdvanceCursor(w)
  <2>1. PICK n \in Nat : n = t.to + 1
    <3>1. t.to \in Nat
      BY DEF TickState
    <3> QED
      BY <3>1
  <2>2. PICK s : s = [t EXCEPT !.from = n, !.fresh = FALSE]
    OBVIOUS
  <2>3. s \in TickState /\ s.head = t.head
    BY <2>2 DEF TickState
  <2>4. Scan(s).at \notin {"apply", "write"}
    BY <1>1, <1>3, <2>3, ScanStarts
  <2>5. tick' = [tick EXCEPT ![w] = Scan(s)] /\ UNCHANGED <<logs, registry, recorded, row, disturbed>>
        /\ t.at = "store"
    BY <1>2, <1>8, <2>1, <2>2 DEF AdvanceCursor, NextFrom, Goes, chain
  <2> QED
    BY <1>4, <2>4, <2>5
<1>9. CASE ListVaults(w)
  <2>1. PICK r : r = [t EXCEPT !.at = "pick", !.todo = watched]
    OBVIOUS
  <2>2. r.at = "pick"
    BY <2>1 DEF TickState
  <2> QED
    BY <1>2, <1>4, <1>9, <2>1, <2>2 DEF ListVaults, Goes, chain, database
<1>10. CASE PickVault(w)
  <2>1. t.todo \in Seq(Vaults) /\ t.todo # <<>> /\ t.at = "pick"
    BY <1>2, <1>10 DEF PickVault, TickState
  <2>2. PICK todo \in Seq(Vaults) : todo = Tail(t.todo)
    <3> HIDE DEF Vaults
    <3>1. Tail(t.todo) \in Seq(Vaults)
      BY <2>1
    <3> QED
      BY <3>1
  <2>3. PICK k \in Vaults : k = Head(t.todo)
    <3> HIDE DEF Vaults
    <3>1. Head(t.todo) \in Vaults
      BY <2>1
    <3> QED
      BY <3>1
  <2>4. PICK s : s = [t EXCEPT !.todo = todo]
    OBVIOUS
  <2>5. s \in TickState /\ s.head = t.head
    BY <2>2, <2>4 DEF TickState
  <2>6. Opened(s, k).at \notin {"apply", "write"}
    BY <1>1, <1>3, <2>5, OpenedInOrder
  <2>7. tick' = [tick EXCEPT ![w] = Opened(s, k)] /\ UNCHANGED <<logs, registry, recorded, row, disturbed>>
    BY <1>2, <1>10, <2>2, <2>3, <2>4 DEF PickVault, Goes, chain, database
  <2> QED
    BY <1>4, <2>1, <2>6, <2>7
<1>11. CASE EndTick(w)
  <2>1. NoTick.at = "idle"
    BY DEF NoTick
  <2> QED
    BY <1>2, <1>4, <1>11, <2>1 DEF EndTick, Goes, chain, database
<1> QED
  BY <1>5, <1>6, <1>7, <1>8, <1>9, <1>10, <1>11

\* They change nothing that is reckoned.
LEMMA QuietTicks ==
    ASSUME Progress, Reckoned, NEW w \in Ticks,
           \/ BeginTick(w) \/ SeedCanonical(w) \/ RecordVault(w) \/ AdvanceCursor(w)
           \/ ListVaults(w) \/ PickVault(w) \/ EndTick(w)
    PROVE  Reckoned'
<1>1. PICK r : Between(w, r)
  BY BetweenEvents
<1> QED
  BY <1>1, QuietReckoned DEF Between

\* A tick lets go of the event in its hand: only now is the event counted.
LEMMA LetGo ==
    ASSUME Progress, Reckoned, UNCHANGED <<logs, recorded>>, NEW w \in Ticks, Mutating(w),
           NEW r, tick' = [tick EXCEPT ![w] = r], r.at \notin {"apply", "write"}
    PROVE  /\ Alone' /\ ForSettlement'
           /\ \A u \in Ticks : tick'[u].at = "write" => tick'[u] = tick[u]
           /\ \A v \in Vaults :
                Counted(v)' = IF v = tick[w].vault THEN Counted(v) \cup {Earliest(tick[w])}
                              ELSE Counted(v)
<1>1. tick \in [Ticks -> TickState]
  BY DEF Progress, Types
<1>2. tick'[w] = r /\ \A u \in Ticks \ {w} : tick'[u] = tick[u]
  BY <1>1
<1>3. ~Mutating(w)' /\ \A u \in Ticks : Mutating(u)' => u # w /\ Mutating(u) /\ tick'[u] = tick[u]
  BY <1>2 DEF Mutating
<1>4. \A u \in Ticks \ {w} : Mutating(u) => Mutating(u)'
  BY <1>2 DEF Mutating
<1>5. ASSUME NEW u \in Ticks \ {w}, Mutating(u) PROVE Earliest(tick[u])' = Earliest(tick[u])
  <2>1. tick[u].vault # Factory
    BY <1>5, InHandRecorded
  <2> QED
    BY <1>2, <1>5, <2>1 DEF Earliest
<1>6. Alone'
  BY <1>3, <1>5 DEF Reckoned, Alone
<1>7. ForSettlement'
  BY <1>3, <1>5 DEF Reckoned, ForSettlement, Mutating
<1>8. ASSUME NEW v \in Vaults
      PROVE  InHand(v)' = IF v = tick[w].vault THEN InHand(v) \ {Earliest(tick[w])} ELSE InHand(v)
  <2>1. ASSUME NEW i PROVE i \in InHand(v)' <=> \E u \in Ticks \ {w} :
                             Mutating(u) /\ tick[u].vault = v /\ i = Earliest(tick[u])
    BY <1>2, <1>3, <1>4, <1>5 DEF InHand
  <2>2. ASSUME NEW i PROVE i \in InHand(v) <=> \E u \in Ticks :
                             Mutating(u) /\ tick[u].vault = v /\ i = Earliest(tick[u])
    BY DEF InHand
  <2>3. \A u \in Ticks \ {w} : Mutating(u) /\ tick[u].vault = tick[w].vault
           => Earliest(tick[u]) # Earliest(tick[w])
    BY DEF Reckoned, Alone
  <2>4. CASE v = tick[w].vault
    <3>1. ASSUME NEW i PROVE i \in InHand(v)' <=> i \in InHand(v) /\ i # Earliest(tick[w])
      BY <2>1, <2>2, <2>3, <2>4
    <3> QED
      BY <2>4, <3>1
  <2>5. CASE v # tick[w].vault
    <3>1. ASSUME NEW i PROVE i \in InHand(v)' <=> i \in InHand(v)
      BY <2>1, <2>2, <2>5
    <3> QED
      BY <2>5, <3>1
  <2> QED
    BY <2>4, <2>5
<1>9. ASSUME NEW v \in Vaults
      PROVE  Counted(v)' = IF v = tick[w].vault THEN Counted(v) \cup {Earliest(tick[w])}
                           ELSE Counted(v)
  <2>1. Earliest(tick[w]) \in recorded[tick[w].vault]
    BY InHandRecorded
  <2>2. recorded'[v] = recorded[v]
    OBVIOUS
  <2> QED
    BY <1>8, <2>1, <2>2 DEF Counted
<1>10. \A u \in Ticks : tick'[u].at = "write" => tick'[u] = tick[u]
  BY <1>3 DEF Mutating
<1> QED
  BY <1>6, <1>7, <1>9, <1>10

\* A tick that ends half way counts as debited what it never debited.
LEMMA FailReckoned ==
    ASSUME Progress, Reckoned, NEW w \in Ticks, Fail(w)
    PROVE  Reckoned'
<1>1. tick' = [tick EXCEPT ![w] = NoTick] /\ UNCHANGED <<logs, registry, recorded, row>>
  BY DEF Fail, Goes, chain, database
<1>2. NoTick.at \notin {"apply", "write"}
  BY DEF NoTick
<1>3. CASE ~Mutating(w)
  BY <1>1, <1>2, <1>3, QuietReckoned
<1>4. CASE Mutating(w)
  <2>1. /\ Alone' /\ ForSettlement'
        /\ \A u \in Ticks : tick'[u].at = "write" => tick'[u] = tick[u]
        /\ \A v \in Vaults : Counted(v) \subseteq Counted(v)'
    BY <1>1, <1>2, <1>4, LetGo
  <2>2. ASSUME NEW v \in Vaults PROVE Told(v)' /\ Due(v)'
    <3>1. Told(v)'
      BY <1>1 DEF Reckoned, Told, Card
    <3>2. PICK x : Weighs(x, v)
      BY DEF Reckoned, Due
    <3>3. x[Counted(v)] <= x[Counted(v)'] /\ x[Counted(v)] \in Nat /\ x[Counted(v)'] \in Nat
      <4>1. Counted(v) \in SUBSET (1..Len(logs[v])) /\ Counted(v)' \in SUBSET (1..Len(logs[v]))
        BY <1>1 DEF Reckoned, Told, Counted
      <4> QED
        BY <2>1, <3>2, <4>1 DEF Weighs, Tally
    <3>4. registry[v].status = "Active" =>
             /\ row[v] # NoRow => row[v].available + x[Counted(v)'] >= Pool
             /\ \A u \in Ticks : tick'[u].at = "write" /\ tick'[u].vault = v
                   => tick'[u].balance + x[Counted(v)'] >= Pool
      <4>1. row[v] # NoRow => row[v].available \in Int
        BY DEF Reckoned, Told
      <4>2. \A u \in Ticks : tick[u].balance \in Int
        BY DEF Progress, Types, TickState
      <4>3. PICK a \in Nat, b \in Nat : a = x[Counted(v)] /\ b = x[Counted(v)'] /\ a <= b
        BY <3>3
      <4>4. registry[v].status = "Active" =>
               /\ row[v] # NoRow => row[v].available + a >= Pool
               /\ \A u \in Ticks : tick[u].at = "write" /\ tick[u].vault = v
                     => tick[u].balance + a >= Pool
        BY <3>2, <4>3 DEF Weighs
      <4>5. \A n \in Int : n + a >= Pool => n + b >= Pool
        BY <4>3
      <4> QED
        BY <2>1, <4>1, <4>2, <4>3, <4>4, <4>5
    <3> QED
      BY <1>1, <3>1, <3>2, <3>4 DEF Due, Weighs
  <2> QED
    BY <2>1, <2>2 DEF Reckoned
<1> QED
  BY <1>3, <1>4

\* A new event goes on record and into the tick's hand; an old one is dropped.
LEMMA StoreEventReckoned ==
    ASSUME Progress, Reckoned, NEW w \in Ticks, StoreEvent(w)
    PROVE  Reckoned'
<1>1. Types /\ TableTypes /\ ChainTypes /\ tick \in [Ticks -> TickState]
      /\ recorded \in [Vaults -> SUBSET Nat]
  BY DEF Progress, Types, TableTypes
<1>2. PICK t \in TickState : t = tick[w]
  BY <1>1
<1>3. PICK i : i = Earliest(t)
  OBVIOUS
<1>4. InOrder(t) /\ t.at = "store" /\ t.vault \in Vaults /\ t.vault # Factory /\ t.batch # {}
  BY <1>2 DEF Progress, StoreEvent, TickState
<1>5. i \in 1..Len(logs[t.vault])
  <2>1. i \in DOMAIN logs[t.vault]
    BY <1>1, <1>3, <1>4, EarliestInBatch, LogKinds DEF InOrder
  <2>2. logs[t.vault] \in Seq(LogEvent)
    BY <1>1, <1>4 DEF ChainTypes
  <2> QED
    BY <2>1, <2>2
<1>6. /\ recorded' = [recorded EXCEPT ![t.vault] = @ \cup {i}]
      /\ tick' = [tick EXCEPT ![w] = IF Known(t.vault, i) THEN [t EXCEPT !.batch = t.batch \ {i}]
                                     ELSE [t EXCEPT !.at = "apply"]]
      /\ UNCHANGED <<logs, registry, row>>
  BY <1>2, <1>3 DEF StoreEvent, Goes, chain
<1>7. ~Mutating(w)
  BY <1>2, <1>4 DEF Mutating
<1>8. CASE i \in recorded[t.vault]
  <2>1. PICK r : r = [t EXCEPT !.batch = t.batch \ {i}]
    OBVIOUS
  <2>2. r.at = "store" /\ tick' = [tick EXCEPT ![w] = r]
    BY <1>4, <1>6, <1>8, <2>1 DEF Known, TickState
  <2>3. recorded' = recorded
    BY <1>1, <1>4, <1>6, <1>8
  <2> QED
    BY <1>6, <1>7, <2>2, <2>3, QuietReckoned
<1>9. CASE i \notin recorded[t.vault]
  <2>1. PICK r : r = [t EXCEPT !.at = "apply"]
    OBVIOUS
  <2>2. /\ r.at = "apply" /\ r.vault = t.vault /\ r.batch = t.batch
        /\ tick' = [tick EXCEPT ![w] = r]
    BY <1>6, <1>9, <2>1 DEF Known, TickState
  <2>3. tick'[w] = r /\ \A u \in Ticks \ {w} : tick'[u] = tick[u]
    BY <1>1, <2>2
  <2>4. /\ Mutating(w)' /\ tick'[w].vault = t.vault /\ Earliest(tick[w])' = i
        /\ tick'[w].at # "write"
    <3>1. Earliest(r)' = i
      BY <1>3, <1>4, <2>2 DEF Earliest
    <3>2. Earliest(tick[w])' = Earliest(r)'
      BY <2>3 DEF Earliest
    <3> QED
      BY <2>2, <2>3, <3>1, <3>2 DEF Mutating
  <2>5. ASSUME NEW u \in Ticks \ {w}
        PROVE  /\ Mutating(u)' <=> Mutating(u)
               /\ Mutating(u) => Earliest(tick[u])' = Earliest(tick[u])
    <3>1. Mutating(u) => tick[u].vault # Factory
      BY InHandRecorded
    <3>2. tick[u].vault # Factory => Earliest(tick[u])' = Earliest(tick[u])
      BY <2>3 DEF Earliest
    <3> QED
      BY <2>3, <3>1, <3>2 DEF Mutating
  <2>6. ASSUME NEW u \in Ticks, Mutating(u), tick[u].vault = t.vault
        PROVE  Earliest(tick[u]) # i
    BY <1>9, <2>6, InHandRecorded
  <2>7. Alone'
    <3>1. ASSUME NEW u \in Ticks, NEW x \in Ticks, u # x, Mutating(u)', Mutating(x)',
                 tick'[u].vault = tick'[x].vault
          PROVE  Earliest(tick[u])' # Earliest(tick[x])'
      <4>1. CASE u = w
        BY <2>3, <2>4, <2>5, <2>6, <3>1, <4>1
      <4>2. CASE x = w
        BY <2>3, <2>4, <2>5, <2>6, <3>1, <4>2
      <4>3. CASE u # w /\ x # w
        BY <2>3, <2>5, <3>1, <4>3 DEF Reckoned, Alone
      <4> QED
        BY <4>1, <4>2, <4>3
    <3> QED
      BY <3>1 DEF Alone
  <2>8. ForSettlement'
    BY <1>6, <2>3, <2>4, <2>5 DEF Reckoned, ForSettlement, Mutating
  <2>9. ASSUME NEW v \in Vaults PROVE Counted(v)' = Counted(v)
    <3>1. ASSUME NEW j PROVE j \in InHand(v)' <=> j \in InHand(v) \/ (v = t.vault /\ j = i)
      <4>1. j \in InHand(v)' <=> \E u \in Ticks :
               Mutating(u)' /\ tick'[u].vault = v /\ j = Earliest(tick[u])'
        BY DEF InHand
      <4>2. j \in InHand(v) <=> \E u \in Ticks \ {w} :
               Mutating(u) /\ tick[u].vault = v /\ j = Earliest(tick[u])
        BY <1>7 DEF InHand
      <4> QED
        BY <2>3, <2>4, <2>5, <4>1, <4>2
    <3>2. CASE v = t.vault
      <4>1. recorded'[v] = recorded[v] \cup {i}
        BY <1>1, <1>6, <3>2
      <4> QED
        BY <1>9, <3>1, <3>2, <4>1 DEF Counted
    <3>3. CASE v # t.vault
      <4>1. recorded'[v] = recorded[v]
        BY <1>1, <1>6, <3>3
      <4> QED
        BY <3>1, <3>3, <4>1 DEF Counted
    <3> QED
      BY <3>2, <3>3
  <2>10. ASSUME NEW v \in Vaults PROVE Told(v)' /\ Due(v)'
    <3>1. recorded'[v] \subseteq 1..Len(logs[v])
      <4>1. recorded[v] \subseteq 1..Len(logs[v])
        BY DEF Reckoned, Told
      <4>2. recorded'[v] \subseteq recorded[v] \/ (v = t.vault /\ recorded'[v] = recorded[v] \cup {i})
        BY <1>1, <1>6
      <4> QED
        BY <1>5, <4>1, <4>2
    <3>2. Told(v)'
      BY <1>6, <3>1 DEF Reckoned, Told, Card
    <3>3. PICK x : Weighs(x, v)
      BY DEF Reckoned, Due
    <3>4. \A u \in Ticks : tick'[u].at = "write" => tick'[u] = tick[u]
      BY <2>3, <2>4
    <3>5. Weighs(x, v)'
      BY <1>6, <2>9, <3>3, <3>4 DEF Weighs, Tally, Debit
    <3> QED
      BY <3>2, <3>5 DEF Due
  <2> QED
    BY <2>7, <2>8, <2>10 DEF Reckoned
<1> QED
  BY <1>8, <1>9

\* A balance that is read is debited for whatever the row was debited for.
LEMMA ReadBalanceReckoned ==
    ASSUME Progress, Reckoned, NEW w \in Ticks, ReadBalance(w)
    PROVE  Reckoned'
<1>1. tick \in [Ticks -> TickState]
  BY DEF Progress, Types
<1>2. PICK t \in TickState : t = tick[w]
  BY <1>1
<1>3. t.at = "apply" /\ Mutating(w)
  BY <1>2 DEF ReadBalance, Mutating
<1>4. t.vault \in Vaults /\ t.vault # Factory
  BY <1>2, <1>3, InHandRecorded
<1>5. PICK b : b = row[t.vault].available
  OBVIOUS
<1>6. PICK r : r = [t EXCEPT !.at = "write", !.balance = b]
  OBVIOUS
<1>7. /\ tick' = [tick EXCEPT ![w] = r] /\ UNCHANGED <<logs, registry, recorded, row>>
      /\ row[t.vault] # NoRow /\ logs[t.vault][Earliest(t)].kind = "settled"
  BY <1>2, <1>5, <1>6 DEF ReadBalance, Goes, Pending, chain, database
<1>8. r.at = "write" /\ r.vault = t.vault /\ r.batch = t.batch /\ r.balance = b
  BY <1>6 DEF TickState
<1>9. tick'[w] = r /\ \A u \in Ticks \ {w} : tick'[u] = tick[u]
  BY <1>1, <1>7
<1>10. ASSUME NEW u \in Ticks
       PROVE  /\ Mutating(u)' <=> Mutating(u)
              /\ tick'[u].vault = tick[u].vault
              /\ Mutating(u) => Earliest(tick[u])' = Earliest(tick[u])
  <2>1. CASE u = w
    <3>1. Earliest(r)' = Earliest(t)
      BY <1>4, <1>8 DEF Earliest
    <3>2. Earliest(tick[w])' = Earliest(r)'
      BY <1>9 DEF Earliest
    <3> QED
      BY <1>2, <1>3, <1>8, <1>9, <2>1, <3>1, <3>2 DEF Mutating
  <2>2. CASE u # w
    <3>1. Mutating(u) => tick[u].vault # Factory
      BY InHandRecorded
    <3>2. tick[u].vault # Factory => Earliest(tick[u])' = Earliest(tick[u])
      BY <1>9, <2>2 DEF Earliest
    <3> QED
      BY <1>9, <2>2, <3>1, <3>2 DEF Mutating
  <2> QED
    BY <2>1, <2>2
<1>11. Alone'
  BY <1>10 DEF Reckoned, Alone
<1>12. ForSettlement'
  <2>1. logs'[tick'[w].vault][Earliest(tick[w])'].kind = "settled"
    BY <1>2, <1>3, <1>7, <1>8, <1>9, <1>10
  <2>2. ASSUME NEW u \in Ticks \ {w}, tick'[u].at = "write"
        PROVE  logs'[tick'[u].vault][Earliest(tick[u])'].kind = "settled"
    BY <1>7, <1>9, <1>10, <2>2 DEF Reckoned, ForSettlement, Mutating
  <2> QED
    BY <2>1, <2>2 DEF ForSettlement
<1>13. ASSUME NEW v \in Vaults PROVE Told(v)' /\ Due(v)'
  <2>1. Told(v)'
    BY <1>7 DEF Reckoned, Told, Card
  <2>2. PICK x : Weighs(x, v)
    BY DEF Reckoned, Due
  <2>3. InHand(v)' = InHand(v)
    BY <1>10 DEF InHand
  <2>4. Counted(v)' = Counted(v)
    BY <1>7, <2>3 DEF Counted
  <2>5. ASSUME registry[v].status = "Active"
        PROVE  \A u \in Ticks : tick'[u].at = "write" /\ tick'[u].vault = v
                  => tick'[u].balance + x[Counted(v)] >= Pool
    <3>1. CASE v = t.vault
      BY <1>5, <1>7, <1>8, <1>9, <2>2, <2>5, <3>1 DEF Weighs
    <3>2. CASE v # t.vault
      BY <1>8, <1>9, <2>2, <2>5, <3>2 DEF Weighs
    <3> QED
      BY <3>1, <3>2
  <2> QED
    BY <1>7, <2>1, <2>2, <2>4, <2>5 DEF Due, Weighs
<1> QED
  BY <1>11, <1>12, <1>13 DEF Reckoned

\* A row that is written accounts for the event it was written for.
LEMMA MutateReckoned ==
    ASSUME Progress, Reckoned, NEW w \in Ticks, Mutating(w), NEW card \in CardState,
           Mutate(w, card),
           card # NoRow => card.available \in Nat /\ card = Card(card.available),
           \A x : /\ Weighs(x, tick[w].vault) /\ card # NoRow
                  /\ registry[tick[w].vault].status = "Active"
                  => card.available
                       + x[Counted(tick[w].vault) \cup {Earliest(tick[w])}] >= Pool
    PROVE  Reckoned'
<1>1. tick \in [Ticks -> TickState] /\ row \in [Vaults -> CardState]
  BY DEF Progress, Types, TableTypes
<1>2. PICK t \in TickState : t = tick[w]
  BY <1>1
<1>3. PICK i : i = Earliest(t)
  OBVIOUS
<1>4. t.vault \in Vaults /\ i \in recorded[t.vault]
  BY <1>2, <1>3, InHandRecorded
<1>5. PICK r : r = [t EXCEPT !.at = "store", !.batch = t.batch \ {i}, !.balance = 0]
  OBVIOUS
<1>6. /\ tick' = [tick EXCEPT ![w] = r] /\ r.at = "store"
      /\ row' = [row EXCEPT ![t.vault] = card]
      /\ UNCHANGED <<logs, registry, recorded>>
  BY <1>2, <1>3, <1>5 DEF Mutate, Goes, TickState, chain
<1>7. /\ Alone' /\ ForSettlement'
      /\ \A u \in Ticks : tick'[u].at = "write" => tick'[u] = tick[u]
      /\ \A v \in Vaults :
           Counted(v)' = IF v = t.vault THEN Counted(v) \cup {i} ELSE Counted(v)
  BY <1>2, <1>3, <1>6, LetGo
<1>8. row'[t.vault] = card /\ \A v \in Vaults \ {t.vault} : row'[v] = row[v]
  BY <1>1, <1>4, <1>6
<1>9. ASSUME NEW v \in Vaults \ {t.vault} PROVE Told(v)' /\ Due(v)'
  <2>1. Told(v) /\ UNCHANGED <<logs[v], registry[v], recorded[v], row[v]>>
    BY <1>6, <1>8 DEF Reckoned
  <2>2. Told(v)'
    BY <2>1 DEF Told, Card
  <2>3. PICK x : Weighs(x, v)
    BY DEF Reckoned, Due
  <2>4. Counted(v)' = Counted(v)
    BY <1>7
  <2>5. Weighs(x, v)'
    <3>1. Tally(x, logs[v])'
      BY <2>1, <2>3 DEF Weighs, Tally, Debit
    <3>2. registry[v].status = "Active" =>
             \A u \in Ticks : tick'[u].at = "write" /\ tick'[u].vault = v
                => tick'[u].balance + x[Counted(v)] >= Pool
      BY <1>7, <2>3 DEF Weighs
    <3> QED
      BY <2>1, <2>3, <2>4, <3>1, <3>2 DEF Weighs
  <2> QED
    BY <2>2, <2>5 DEF Due
<1>10. PICK v \in Vaults : v = t.vault
  BY <1>4
<1>11. Told(v)'
  <2>1. i \in 1..Len(logs[v]) /\ registry[v] # NoRow
    BY <1>4, <1>10 DEF Reckoned, Told
  <2>2. Told(v) /\ UNCHANGED <<logs[v], registry[v], recorded[v]>> /\ row'[v] = card
    BY <1>6, <1>8, <1>10 DEF Reckoned
  <2> QED
    BY <2>1, <2>2 DEF Told, Card
<1>12. Due(v)'
  <2>1. PICK x : Weighs(x, v)
    BY DEF Reckoned, Due
  <2>2. Counted(v) \in SUBSET (1..Len(logs[v])) /\ Counted(v) \cup {i} \in SUBSET (1..Len(logs[v]))
    BY <1>4, <1>10 DEF Reckoned, Told, Counted
  <2>3. Counted(v)' = Counted(v) \cup {i}
    BY <1>7, <1>10
  <2>4. PICK a \in Nat, b \in Nat :
           a = x[Counted(v)] /\ b = x[Counted(v) \cup {i}] /\ a <= b
    BY <2>1, <2>2 DEF Weighs, Tally
  <2>5. registry[v].status = "Active" =>
           /\ card # NoRow => card.available + b >= Pool
           /\ \A u \in Ticks : tick'[u].at = "write" /\ tick'[u].vault = v
                 => tick'[u].balance + b >= Pool
    <3>1. \A u \in Ticks : tick[u].balance \in Int
      BY <1>1 DEF TickState
    <3>2. registry[v].status = "Active" =>
             \A u \in Ticks : tick[u].at = "write" /\ tick[u].vault = v
                => tick[u].balance + a >= Pool
      BY <2>1, <2>4 DEF Weighs
    <3>3. \A n \in Int : n + a >= Pool => n + b >= Pool
      BY <2>4
    <3>4. registry[v].status = "Active" /\ card # NoRow => card.available + b >= Pool
      BY <1>2, <1>3, <1>10, <2>1, <2>4
    <3> QED
      BY <1>7, <3>1, <3>2, <3>3, <3>4
  <2>6. Weighs(x, v)'
    <3>1. UNCHANGED <<logs[v], registry[v]>> /\ row'[v] = card
      BY <1>6, <1>8, <1>10
    <3> QED
      BY <2>1, <2>3, <2>4, <2>5, <3>1 DEF Weighs, Tally, Debit
  <2> QED
    BY <2>6 DEF Due
<1> QED
  BY <1>7, <1>9, <1>10, <1>11, <1>12 DEF Reckoned

\* What is pending is an event of the log, and never a vault.
LEMMA PendingEvent ==
    ASSUME Progress, Reckoned, NEW w \in Ticks, Mutating(w)
    PROVE  /\ tick[w].vault \in Vaults
           /\ Earliest(tick[w]) \in 1..Len(logs[tick[w].vault])
           /\ Earliest(tick[w]) \in recorded[tick[w].vault]
           /\ Earliest(tick[w]) \notin Counted(tick[w].vault)
           /\ registry[tick[w].vault] # NoRow
           /\ Pending(w).kind = "provisioned" => Pending(w).amount = Pool
           /\ Pending(w).kind = "settled" => Pending(w).amount \in Nat
           /\ Pending(w).kind = "reclaimed" => registry[tick[w].vault] = Card(0)
<1> DEFINE i == Earliest(tick[w])
<1>1. PICK v \in Vaults : v = tick[w].vault
  BY InHandRecorded
<1>2. i \in recorded[v] /\ i \in InHand(v)
  BY <1>1, InHandRecorded DEF InHand
<1>3. Told(v)
  BY DEF Reckoned
<1>4. i \in 1..Len(logs[v])
  BY <1>2, <1>3 DEF Told
<1> QED
  BY <1>1, <1>2, <1>3, <1>4 DEF Told, Counted, Pending

\* The mutations of a row account for the events they are made for.
LEMMA ApplyReckoned ==
    ASSUME Progress, Reckoned, NEW w \in Ticks,
           ApplyProvisioned(w) \/ ApplyReclaimed(w) \/ SkipSettled(w) \/ WriteBalance(w)
    PROVE  Reckoned'
<1>1. Mutating(w)
  BY DEF ApplyProvisioned, ApplyReclaimed, SkipSettled, WriteBalance, Mutating
<1> DEFINE i == Earliest(tick[w])
<1>2. PICK v \in Vaults : v = tick[w].vault
  BY <1>1, InHandRecorded
<1>3. /\ i \in 1..Len(logs[v]) /\ i \notin Counted(v)
      /\ Pending(w).kind = "provisioned" => Pending(w).amount = Pool
      /\ Pending(w).kind = "settled" => Pending(w).amount \in Nat
      /\ Pending(w).kind = "reclaimed" => registry[v] = Card(0)
  BY <1>1, <1>2, PendingEvent
<1>4. Counted(v) \in SUBSET (1..Len(logs[v])) /\ Counted(v) \cup {i} \in SUBSET (1..Len(logs[v]))
  BY <1>3 DEF Reckoned, Told, Counted
<1>5. ASSUME NEW x, Weighs(x, v)
      PROVE  /\ x[Counted(v)] \in Nat /\ x[Counted(v) \cup {i}] \in Nat
             /\ x[Counted(v) \cup {i}] = x[Counted(v)] + Debit(logs[v][i])
  BY <1>3, <1>4, <1>5 DEF Weighs, Tally
<1>6. NoRow \in CardState /\ \A n \in Nat : Card(n).available = n /\ Card(n) \in CardState
  BY DEF NoRow, Card, CardState
<1>7. CASE ApplyProvisioned(w)
  <2>1. PICK card : card = [available |-> Pool, status |-> "Active"]
    OBVIOUS
  <2>2. card = Card(Pool)
    BY <2>1 DEF Card
  <2>3. PICK n \in Nat : n = Pool
    OBVIOUS
  <2>4. card.available = n /\ card = Card(card.available) /\ card \in CardState
    BY <1>6, <2>2, <2>3
  <2>5. Mutate(w, card)
    BY <1>3, <1>7, <2>1 DEF ApplyProvisioned
  <2>6. \A x : Weighs(x, v) => card.available + x[Counted(v) \cup {i}] >= Pool
    <3>1. \A a \in Nat : n + a >= n
      OBVIOUS
    <3> QED
      BY <1>5, <2>3, <2>4, <3>1
  <2> QED
    BY <1>1, <1>2, <2>4, <2>5, <2>6, MutateReckoned
<1>8. CASE ApplyReclaimed(w)
  <2>1. PICK card : card = IF row[v] = NoRow THEN NoRow ELSE Card(0)
    OBVIOUS
  <2>2. card \in CardState /\ (card # NoRow => card.available \in Nat /\ card = Card(card.available))
    BY <1>6, <2>1
  <2>3. Mutate(w, card)
    BY <1>2, <1>8, <2>1 DEF ApplyReclaimed, Reclaimed
  <2>4. registry[v].status # "Active"
    BY <1>3, <1>8 DEF ApplyReclaimed, Card
  <2> QED
    BY <1>1, <1>2, <2>2, <2>3, <2>4, MutateReckoned
<1>9. CASE SkipSettled(w)
  BY <1>1, <1>6, <1>9, MutateReckoned DEF SkipSettled
<1>10. CASE WriteBalance(w)
  <2>1. tick[w].at = "write" /\ Pending(w).kind = "settled" /\ Pending(w).amount \in Nat
        /\ Pending(w) = logs[v][i]
    BY <1>2, <1>3, <1>10 DEF WriteBalance, Reckoned, ForSettlement, Pending
  <2>2. PICK b \in Int, d \in Nat : b = tick[w].balance /\ d = Pending(w).amount
    BY <2>1 DEF Progress, Types, TickState
  <2>3. PICK n \in Nat : n = Remaining(w) /\ n >= b - d
    <3>1. AtLeast0(b - d) \in Nat /\ AtLeast0(b - d) >= b - d
      BY DEF AtLeast0
    <3> QED
      BY <2>2, <3>1 DEF Remaining
  <2>4. PICK card : card = Card(n)
    OBVIOUS
  <2>5. card.available = n /\ card \in CardState /\ Mutate(w, card)
    BY <1>6, <1>10, <2>3, <2>4 DEF WriteBalance
  <2>6. ASSUME NEW x, Weighs(x, v), registry[v].status = "Active"
        PROVE  n + x[Counted(v) \cup {i}] >= Pool
    <3>1. Debit(logs[v][i]) = d
      BY <2>1, <2>2 DEF Debit
    <3>2. b + x[Counted(v)] >= Pool
      BY <1>2, <2>1, <2>2, <2>6 DEF Weighs
    <3>3. PICK a \in Nat : a = x[Counted(v)]
      BY <1>5, <2>6
    <3>4. x[Counted(v) \cup {i}] = a + d
      BY <1>5, <2>6, <3>1, <3>3
    <3>5. n + (a + d) >= Pool
      BY <2>3, <3>2, <3>3
    <3> QED
      BY <3>4, <3>5
  <2> QED
    BY <1>1, <1>2, <2>4, <2>5, <2>6, MutateReckoned
<1> QED
  BY <1>7, <1>8, <1>9, <1>10

-----------------------------------------------------------------------------
(* The reckoning and the theorem.                                        *)

\* Nothing is told of an empty log.
LEMMA InitReckoned ==
    ASSUME Init
    PROVE  Reckoned
<1>1. \A u \in Ticks : tick[u].at = "idle" /\ ~Mutating(u)
  BY DEF Init, NoTick, Mutating
<1>2. Alone /\ ForSettlement
  BY <1>1 DEF Alone, ForSettlement
<1>3. ASSUME NEW v \in Vaults PROVE Told(v) /\ Due(v)
  <2>1. logs[v] = <<>> /\ registry[v] = NoRow /\ recorded[v] = {} /\ row[v] = NoRow
    BY DEF Init
  <2>2. Told(v)
    BY <2>1 DEF Told
  <2> DEFINE x == [K \in {{}} |-> 0]
  <2>3. Len(logs[v]) = 0 /\ 1..Len(logs[v]) = {} /\ SUBSET {} = {{}}
    BY <2>1
  <2>4. Tally(x, logs[v]) /\ x[{}] = 0
    BY <2>3 DEF Tally
  <2>5. registry[v].status # "Active"
    BY <2>1 DEF NoRow
  <2> QED
    BY <2>2, <2>3, <2>4, <2>5 DEF Due, Weighs
<1> QED
  BY <1>2, <1>3 DEF Reckoned

\* Every step keeps the reckoning.
LEMMA NextReckoned ==
    ASSUME Progress, Reckoned, [Next]_vars
    PROVE  Reckoned'
<1>1. CASE ChainStep
  BY <1>1, ChainReckoned
<1>2. ASSUME NEW w \in Ticks, BeginTick(w)
      PROVE  Reckoned'
  BY <1>2, QuietTicks
<1>3. ASSUME NEW w \in Ticks, Proceed(w)
      PROVE  Reckoned'
  BY <1>3, QuietTicks, StoreEventReckoned, ReadBalanceReckoned, ApplyReckoned DEF Proceed
<1>4. ASSUME NEW w \in Ticks, Fail(w)
      PROVE  Reckoned'
  BY <1>4, FailReckoned
<1>5. CASE UNCHANGED vars
  BY <1>5, BlockReckoned DEF vars
<1> QED
  BY <1>1, <1>2, <1>3, <1>4, <1>5 DEF Next

\* The reckoning always holds.
THEOREM ReckonedAlways == Spec => [](Progress /\ Reckoned)
<1>1. Init => Progress /\ Reckoned
  BY InitProgress, InitReckoned
<1>2. Progress /\ Reckoned /\ [Next]_vars => (Progress /\ Reckoned)'
  BY NextProgress, NextReckoned
<1> QED
  BY <1>1, <1>2, PTL DEF Spec

\* A row of idx_paycard_state never shows less than the vault still holds.
THEOREM NeverUnderstatedAlways == Spec => []NeverUnderstated
<1>1. ASSUME Progress, Reckoned, NEW v \in Vaults, row[v] # NoRow
      PROVE  /\ row[v].available >= registry[v].available
             /\ row[v].status = "Terminated" => registry[v].status = "Terminated"
  <2>1. /\ row[v].available \in Nat /\ row[v] = Card(row[v].available)
        /\ registry[v].available \in Nat /\ registry[v] = Card(registry[v].available)
    BY <1>1 DEF Reckoned, Told
  <2>2. PICK m \in Nat, n \in Nat : m = row[v].available /\ n = registry[v].available
    BY <2>1
  <2>3. m >= n
    <3>1. CASE n = 0
      BY <3>1
    <3>2. CASE n # 0
      <4>1. registry[v].status = "Active"
        BY <2>1, <2>2, <3>2 DEF Card
      <4>2. PICK x : Weighs(x, v)
        BY <1>1 DEF Reckoned, Due
      <4>3. n + x[1..Len(logs[v])] = Pool /\ m + x[Counted(v)] >= Pool
        BY <1>1, <2>2, <4>1, <4>2 DEF Weighs
      <4>4. Counted(v) \in SUBSET (1..Len(logs[v]))
        BY <1>1 DEF Reckoned, Told, Counted
      <4>5. PICK a \in Nat, b \in Nat :
               a = x[Counted(v)] /\ b = x[1..Len(logs[v])] /\ a <= b
        BY <4>2, <4>4 DEF Weighs, Tally
      <4> QED
        BY <4>3, <4>5
    <3> QED
      BY <3>1, <3>2
  <2>4. row[v].status = "Terminated" => registry[v].status = "Terminated"
    <3>1. SUFFICES ASSUME row[v].status = "Terminated" PROVE registry[v].status = "Terminated"
      OBVIOUS
    <3>2. m = 0
      BY <2>1, <2>2, <3>1 DEF Card
    <3>3. n = 0
      BY <2>3, <3>2
    <3> QED
      BY <2>1, <2>2, <3>3 DEF Card
  <2> QED
    BY <2>2, <2>3, <2>4
<1>2. Progress /\ Reckoned => NeverUnderstated
  BY <1>1 DEF NeverUnderstated
<1> QED
  BY <1>2, ReckonedAlways, PTL

-----------------------------------------------------------------------------
(* The row and the registry, event for event.                              *)

\* The event e makes d of the card c.
Makes(c, e, d) ==
    \/ e.kind = "provisioned" /\ d = Card(Pool)
    \/ /\ e.kind = "settled" /\ c # NoRow /\ c.available - e.amount \in Nat
       /\ d = Card(c.available - e.amount)
    \/ e.kind = "reclaimed" /\ c # NoRow /\ d = Card(0)

\* h is the paycard before the log c and after each of its events.
Course(h, c, card) ==
    /\ h[0] = NoRow /\ h[Len(c)] = card
    /\ \A i \in 1..Len(c) : Makes(h[i - 1], c[i], h[i])

Working(v) == {u \in Ticks : Mutating(u) /\ tick[u].vault = v}

\* A record without a gap has made of the row what its events made of the
\* paycard; one tick at a time works on a row, on the last event on record.
Follows(h, v) ==
    /\ \A m \in 0..Len(logs[v]) :
          recorded[v] = 1..m /\ Working(v) = {} => row[v] = h[m]
    /\ \A u \in Working(v) :
          LET i == Earliest(tick[u])
          IN  /\ Working(v) = {u}
              /\ \A j \in recorded[v] : j <= i
              /\ recorded[v] = 1..i =>
                    /\ row[v] = h[i - 1]
                    /\ tick[u].at = "write" => tick[u].balance = row[v].available

Traced ==
    \A v \in Vaults \ disturbed :
        \E h : Course(h, logs[v], registry[v]) /\ Follows(h, v)

\* The course of a paycard goes on over one event.
LEMMA CourseGrows ==
    ASSUME NEW c \in Seq(LogEvent), NEW e \in LogEvent, NEW h, NEW card, NEW next,
           Course(h, c, card), Makes(card, e, next)
    PROVE  \E x : /\ Course(x, Append(c, e), next)
                  /\ \A i \in 0..Len(c) : x[i] = h[i]
<1>1. PICK n \in Nat : n = Len(c)
  OBVIOUS
<1>2. /\ Len(Append(c, e)) = n + 1 /\ Append(c, e)[n + 1] = e
      /\ \A i \in 1..n : Append(c, e)[i] = c[i]
  BY <1>1
<1> DEFINE x == [i \in 0..(n + 1) |-> IF i = n + 1 THEN next ELSE h[i]]
<1>3. x[n + 1] = next /\ \A i \in 0..n : x[i] = h[i]
  OBVIOUS
<1> HIDE DEF x
<1>4. ASSUME NEW i \in 1..(n + 1) PROVE Makes(x[i - 1], Append(c, e)[i], x[i])
  <2>1. CASE i = n + 1
    <3>1. i - 1 = n /\ x[n] = card
      BY <1>1, <1>3, <2>1 DEF Course
    <3> QED
      BY <1>2, <1>3, <2>1, <3>1
  <2>2. CASE i \in 1..n
    <3>1. x[i - 1] = h[i - 1] /\ x[i] = h[i]
      BY <1>3, <2>2
    <3>2. Makes(h[i - 1], c[i], h[i])
      BY <1>1, <2>2 DEF Course
    <3> QED
      BY <1>2, <2>2, <3>1, <3>2
  <2>3. i = n + 1 \/ i \in 1..n
    BY <1>1
  <2> QED
    BY <2>1, <2>2, <2>3
<1>5. x[0] = NoRow
  BY <1>3 DEF Course
<1>6. Course(x, Append(c, e), next)
  BY <1>2, <1>3, <1>4, <1>5 DEF Course
<1> QED
  BY <1>1, <1>3, <1>6

\* The log and the registry of v may grow together.
GoOn(v, events, card) ==
    \A h : Course(h, logs[v], registry[v]) =>
        \E x : /\ Course(x, logs[v] \o events, card)
               /\ \A i \in 0..Len(logs[v]) : x[i] = h[i]

\* A transaction with one log, or with two, carries the course on.
LEMMA GoesOn ==
    ASSUME Progress, NEW v \in Vaults, NEW e \in LogEvent, NEW card,
           Makes(registry[v], e, card)
    PROVE  /\ GoOn(v, <<e>>, card)
           /\ \A r \in LogEvent : \A next :
                 Makes(card, r, next) => GoOn(v, <<e>> \o <<r>>, next)
<1>1. PICK c \in Seq(LogEvent) : c = logs[v]
  BY DEF Progress, Types, ChainTypes
<1>2. PICK b \in Seq(LogEvent) : b = Append(c, e)
  <2>1. Append(c, e) \in Seq(LogEvent)
    OBVIOUS
  <2> QED
    BY <2>1
<1>3. b = c \o <<e>> /\ Len(b) = Len(c) + 1 /\ Len(c) \in Nat
  BY <1>2
<1>4. ASSUME NEW h, Course(h, c, registry[v])
      PROVE  \E x : Course(x, b, card) /\ \A i \in 0..Len(c) : x[i] = h[i]
  BY <1>2, <1>4, CourseGrows
<1>5. ASSUME NEW r \in LogEvent, NEW next, Makes(card, r, next),
             NEW h, Course(h, c, registry[v])
      PROVE  \E x : /\ Course(x, c \o (<<e>> \o <<r>>), next)
                    /\ \A i \in 0..Len(c) : x[i] = h[i]
  <2>1. PICK x : Course(x, b, card) /\ \A i \in 0..Len(c) : x[i] = h[i]
    BY <1>4, <1>5
  <2>2. PICK y : Course(y, Append(b, r), next) /\ \A i \in 0..Len(b) : y[i] = x[i]
    BY <1>5, <2>1, CourseGrows
  <2>3. Append(b, r) = c \o (<<e>> \o <<r>>)
    BY <1>2
  <2>4. \A i \in 0..Len(c) : y[i] = h[i]
    BY <1>3, <2>1, <2>2
  <2> QED
    BY <2>2, <2>3, <2>4
<1> QED
  BY <1>1, <1>3, <1>4, <1>5 DEF GoOn

\* A transaction that carries the course on leaves the rows where they were.
LEMMA MinedTraced ==
    ASSUME Progress, Reckoned, Traced, NEW v \in Vaults, NEW events \in Seq(LogEvent),
           NEW card, Mined(v, events, card), GoOn(v, events, card)
    PROVE  Traced'
<1>1. /\ logs \in [Vaults -> Seq(LogEvent)] /\ registry \in [Vaults -> CardState]
      /\ logs' = [logs EXCEPT ![v] = logs[v] \o events]
      /\ registry' = [registry EXCEPT ![v] = card]
      /\ UNCHANGED <<recorded, row, tick, disturbed>>
  BY DEF Progress, Types, ChainTypes, Mined, database
<1>2. /\ logs'[v] = logs[v] \o events /\ registry'[v] = card
      /\ \A u \in Vaults \ {v} : logs'[u] = logs[u] /\ registry'[u] = registry[u]
  BY <1>1
<1>3. \A u \in Ticks : /\ Mutating(u)' <=> Mutating(u)
                       /\ Mutating(u) => Earliest(tick[u])' = Earliest(tick[u])
  BY <1>1, HandsStay DEF Mutating
<1>4. \A u \in Vaults : Working(u)' = Working(u)
  BY <1>1, <1>3 DEF Working
<1>5. ASSUME NEW u \in Vaults \ disturbed, NEW h, NEW x, Follows(h, u),
             \A i \in 0..Len(logs[u]) : x[i] = h[i]
      PROVE  Follows(x, u)'
  <2>1. PICK n \in Nat : n = Len(logs[u]) /\ recorded[u] \subseteq 1..n
    <3>1. logs[u] \in Seq(LogEvent)
      BY <1>1
    <3> QED
      BY <3>1 DEF Reckoned, Told
  <2>2. ASSUME NEW m \in Nat, recorded[u] = 1..m PROVE m \in 0..n
    BY <2>1, <2>2
  <2>3. ASSUME NEW m \in Nat, recorded'[u] = 1..m, Working(u)' = {}
        PROVE  row'[u] = x[m]
    <3>1. m \in 0..n /\ row[u] = h[m]
      BY <1>1, <1>4, <2>1, <2>2, <2>3, <1>5 DEF Follows
    <3> QED
      BY <1>1, <1>5, <2>1, <3>1
  <2>4. ASSUME NEW y \in Working(u)
        PROVE  LET i == Earliest(tick[y])
               IN  /\ i \in 1..n
                   /\ Working(u) = {y}
                   /\ \A j \in recorded[u] : j <= i
                   /\ recorded[u] = 1..i =>
                         /\ row[u] = x[i - 1]
                         /\ tick[y].at = "write" => tick[y].balance = row[u].available
    <3>1. y \in Ticks /\ Mutating(y) /\ tick[y].vault = u
      BY <2>4 DEF Working
    <3>2. Earliest(tick[y]) \in 1..n
      BY <2>1, <3>1, InHandRecorded
    <3>3. PICK i \in 1..n : i = Earliest(tick[y])
      BY <3>2
    <3>4. /\ Working(u) = {y} /\ \A j \in recorded[u] : j <= i
          /\ recorded[u] = 1..i =>
                /\ row[u] = h[i - 1]
                /\ tick[y].at = "write" => tick[y].balance = row[u].available
      BY <1>5, <2>4, <3>3 DEF Follows
    <3>5. x[i - 1] = h[i - 1]
      <4>1. i - 1 \in 0..n
        BY <2>1, <3>3
      <4> QED
        BY <1>5, <2>1, <4>1
    <3> QED
      BY <3>3, <3>4, <3>5
  <2>5. ASSUME NEW y \in Working(u)' PROVE Earliest(tick[y])' = Earliest(tick[y]) /\ y \in Working(u)
    BY <1>3, <1>4, <2>5 DEF Working
  <2>6. ASSUME NEW m \in 0..Len(logs'[u]) PROVE m \in Nat
    OBVIOUS
  <2> QED
    BY <1>1, <1>4, <2>3, <2>4, <2>5, <2>6 DEF Follows
<1>6. ASSUME NEW u \in Vaults \ disturbed
      PROVE  \E x : Course(x, logs'[u], registry'[u]) /\ Follows(x, u)'
  <2>1. PICK h : Course(h, logs[u], registry[u]) /\ Follows(h, u)
    BY DEF Traced
  <2>2. CASE u = v
    <3>1. PICK x : /\ Course(x, logs[v] \o events, card)
                   /\ \A i \in 0..Len(logs[v]) : x[i] = h[i]
      BY <2>1, <2>2 DEF GoOn
    <3>2. Follows(x, u)'
      BY <1>5, <2>1, <2>2, <3>1
    <3> QED
      BY <1>2, <2>2, <3>1, <3>2
  <2>3. CASE u # v
    <3>1. Follows(h, u)'
      BY <1>5, <2>1
    <3> QED
      BY <1>2, <2>1, <2>3, <3>1
  <2> QED
    BY <2>2, <2>3
<1> QED
  BY <1>1, <1>6 DEF Traced, Course, Makes, Card

\* A step that leaves chain, record, rows and ticks alone.
LEMMA BlockTraced ==
    ASSUME Progress, Traced, UNCHANGED <<logs, registry, recorded, row, tick, disturbed>>
    PROVE  Traced'
<1>1. \A u \in Ticks : /\ Mutating(u)' <=> Mutating(u)
                       /\ Mutating(u) => Earliest(tick[u])' = Earliest(tick[u])
  BY HandsStay DEF Mutating
<1>2. \A v \in Vaults : Working(v)' = Working(v)
  BY <1>1 DEF Working
<1>3. ASSUME NEW v \in Vaults \ disturbed, NEW h, Follows(h, v) PROVE Follows(h, v)'
  <2>1. \A u \in Working(v) : Earliest(tick[u])' = Earliest(tick[u])
    BY <1>1 DEF Working
  <2> QED
    BY <1>2, <1>3, <2>1 DEF Follows
<1>4. ASSUME NEW v \in Vaults \ disturbed
      PROVE  \E h : Course(h, logs'[v], registry'[v]) /\ Follows(h, v)'
  BY <1>3 DEF Traced
<1> HIDE DEF Vaults
<1> QED
  BY <1>4 DEF Traced, Course, Makes, Card

\* The chain's steps carry the course on.
LEMMA ChainTraced ==
    ASSUME Progress, Reckoned, Traced, ChainStep
    PROVE  Traced'
<1>1. ChainTypes
  BY DEF Progress, Types
<1>2. ASSUME NEW a \in Int, NEW kind \in {"provisioned", "settled", "reclaimed"}
      PROVE  /\ Event(kind, a) \in LogEvent
             /\ Event(kind, a).kind = kind /\ Event(kind, a).amount = a
  BY <1>1 DEF Event, LogEvent, ChainTypes
<1>3. \A n \in Nat : Card(n) # NoRow
  BY DEF Card, NoRow
<1>4. CASE MineEmpty
  <2>1. GoOn(Canonical, <<>>, registry[Canonical])
    <3>1. logs[Canonical] \in Seq(LogEvent)
      BY <1>1 DEF ChainTypes
    <3>2. logs[Canonical] \o <<>> = logs[Canonical]
      BY <3>1
    <3> QED
      BY <3>2 DEF GoOn
  <2>2. <<>> \in Seq(LogEvent) /\ Canonical \in Vaults
    OBVIOUS
  <2> HIDE DEF Vaults
  <2> QED
    BY <1>4, <2>1, <2>2, MinedTraced DEF MineEmpty
<1>5. ASSUME NEW v \in Clones, Deploy(v) PROVE Traced'
  BY <1>5, BlockTraced DEF Deploy, database
<1>6. ASSUME NEW v \in Vaults, Provision(v) PROVE Traced'
  <2>1. PICK e \in LogEvent : e = Event("provisioned", Pool) /\ e.kind = "provisioned"
    BY <1>2
  <2>2. Makes(registry[v], e, Card(Pool))
    BY <2>1 DEF Makes
  <2>3. GoOn(v, <<e>>, Card(Pool)) /\ Mined(v, <<e>>, Card(Pool))
    BY <1>6, <2>1, <2>2, GoesOn DEF Provision
  <2>4. <<e>> \in Seq(LogEvent)
    OBVIOUS
  <2> HIDE DEF Vaults
  <2> QED
    BY <2>3, <2>4, MinedTraced
<1>7. ASSUME NEW v \in Vaults, Settle(v) PROVE Traced'
  <2>1. PICK a \in 1..registry[v].available :
           Mined(v, <<Event("settled", a)>>, Card(registry[v].available - a))
    BY <1>7 DEF Settle
  <2>2. registry[v].available \in Int
    BY <1>1 DEF ChainTypes, CardState
  <2>3. /\ a \in Nat \ {0} /\ registry[v].available - a \in Nat
        /\ registry[v].available > 0
    BY <2>1, <2>2
  <2>4. PICK e \in LogEvent : e = Event("settled", a) /\ e.kind = "settled" /\ e.amount = a
    BY <1>2, <2>3
  <2>5. registry[v] # NoRow
    BY <2>3 DEF NoRow
  <2>6. Makes(registry[v], e, Card(registry[v].available - a))
    BY <2>3, <2>4, <2>5 DEF Makes
  <2>7. /\ GoOn(v, <<e>>, Card(registry[v].available - a))
        /\ Mined(v, <<e>>, Card(registry[v].available - a))
    BY <2>1, <2>4, <2>6, GoesOn
  <2>8. <<e>> \in Seq(LogEvent)
    OBVIOUS
  <2> HIDE DEF Vaults
  <2> QED
    BY <2>7, <2>8, MinedTraced
<1>8. ASSUME NEW v \in Vaults, Flush(v) PROVE Traced'
  <2>1. PICK due \in 0..(registry[v].available - 1) :
           Mined(v, (IF due = 0 THEN <<>> ELSE <<Event("settled", due)>>)
                     \o <<Event("reclaimed", registry[v].available - due)>>, Card(0))
    BY <1>8 DEF Flush
  <2>2. registry[v].available \in Int
    BY <1>1 DEF ChainTypes, CardState
  <2>3. due \in Nat /\ registry[v].available - due \in Nat /\ registry[v].available > 0
    BY <2>1, <2>2
  <2>4. registry[v] # NoRow
    BY <2>3 DEF NoRow
  <2>5. PICK e \in LogEvent : e = Event("settled", due) /\ e.kind = "settled" /\ e.amount = due
    BY <1>2, <2>3
  <2>6. PICK r \in LogEvent : /\ r = Event("reclaimed", registry[v].available - due)
                              /\ r.kind = "reclaimed"
    BY <1>2, <2>3
  <2>7. /\ <<>> \o <<r>> = <<r>> /\ <<r>> \in Seq(LogEvent)
        /\ <<e>> \o <<r>> \in Seq(LogEvent)
    OBVIOUS
  <2>8. CASE due = 0
    <3>1. Makes(registry[v], r, Card(0))
      BY <2>4, <2>6 DEF Makes
    <3>2. GoOn(v, <<r>>, Card(0)) /\ Mined(v, <<r>>, Card(0))
      BY <2>1, <2>6, <2>7, <2>8, <3>1, GoesOn
    <3> QED
      BY <2>7, <3>2, MinedTraced
  <2>9. CASE due # 0
    <3>1. PICK card : card = Card(registry[v].available - due)
      OBVIOUS
    <3>2. Makes(registry[v], e, card)
      BY <2>3, <2>4, <2>5, <3>1 DEF Makes
    <3>3. card # NoRow
      BY <1>3, <2>3, <3>1
    <3>4. Makes(card, r, Card(0))
      BY <2>6, <3>3 DEF Makes
    <3>5. GoOn(v, <<e>> \o <<r>>, Card(0))
      BY <3>2, <3>4, GoesOn
    <3>6. Mined(v, <<e>> \o <<r>>, Card(0))
      BY <2>1, <2>5, <2>6, <2>9
    <3>7. PICK events \in Seq(LogEvent) : events = <<e>> \o <<r>>
      BY <2>7
    <3> QED
      BY <3>5, <3>6, <3>7, MinedTraced
  <2> QED
    BY <2>8, <2>9
<1> QED
  BY <1>4, <1>5, <1>6, <1>7, <1>8 DEF ChainStep

\* The other ticks, and what they have in hand, when one tick moves.
LEMMA OthersStay ==
    ASSUME Progress, NEW w \in Ticks, NEW r, tick' = [tick EXCEPT ![w] = r]
    PROVE  /\ tick'[w] = r
           /\ \A u \in Ticks \ {w} :
                 /\ tick'[u] = tick[u] /\ (Mutating(u)' <=> Mutating(u))
                 /\ Mutating(u) => Earliest(tick[u])' = Earliest(tick[u])
           /\ \A v \in Vaults : Working(v)' \ {w} = Working(v) \ {w}
<1>1. tick \in [Ticks -> TickState]
  BY DEF Progress, Types
<1>2. tick'[w] = r /\ \A u \in Ticks \ {w} : tick'[u] = tick[u]
  BY <1>1
<1>3. ASSUME NEW u \in Ticks \ {w}, Mutating(u) PROVE Earliest(tick[u])' = Earliest(tick[u])
  <2>1. tick[u].vault # Factory
    BY <1>3, InHandRecorded
  <2> QED
    BY <1>2, <1>3, <2>1 DEF Earliest
<1>4. \A u \in Ticks \ {w} : Mutating(u)' <=> Mutating(u)
  BY <1>2 DEF Mutating
<1>5. \A v \in Vaults : Working(v)' \ {w} = Working(v) \ {w}
  BY <1>2, <1>4 DEF Working
<1> QED
  BY <1>2, <1>3, <1>4, <1>5

\* A vault that a step of another vault's tick leaves alone.
LEMMA ElsewhereFollows ==
    ASSUME Progress, NEW w \in Ticks, NEW r, tick' = [tick EXCEPT ![w] = r],
           NEW v \in Vaults, NEW h, Follows(h, v), w \notin Working(v), w \notin Working(v)',
           UNCHANGED <<logs, recorded[v], row[v]>>
    PROVE  Follows(h, v)'
<1>1. Working(v)' = Working(v)
  <2>1. Working(v)' \ {w} = Working(v) \ {w}
    BY OthersStay
  <2>2. ASSUME NEW u PROVE u \in Working(v)' <=> u \in Working(v)
    <3>1. u \in Working(v)' \ {w} <=> u \in Working(v) \ {w}
      BY <2>1
    <3> QED
      BY <3>1
  <2> QED
    BY <2>2
<1>2. ASSUME NEW u \in Working(v)
      PROVE  tick'[u] = tick[u] /\ Earliest(tick[u])' = Earliest(tick[u])
  BY OthersStay DEF Working
<1> QED
  BY <1>1, <1>2 DEF Follows

\* A step of a tick between two events.
LEMMA BetweenTraced ==
    ASSUME Progress, Traced, NEW w \in Ticks, NEW r, Between(w, r)
    PROVE  Traced'
<1>1. tick' = [tick EXCEPT ![w] = r] /\ UNCHANGED <<logs, registry, recorded, row, disturbed>>
  BY DEF Between
<1>2. ASSUME NEW v \in Vaults PROVE w \notin Working(v) /\ w \notin Working(v)'
  <2>1. tick'[w] = r
    BY <1>1, OthersStay
  <2> QED
    BY <2>1 DEF Between, Working, Mutating
<1>3. ASSUME NEW v \in Vaults \ disturbed, NEW h, Follows(h, v) PROVE Follows(h, v)'
  BY <1>1, <1>2, <1>3, ElsewhereFollows
<1> HIDE DEF Vaults
<1> QED
  BY <1>1, <1>3 DEF Traced, Course, Makes, Card

\* A new event goes on record when it is the next; else the vault is disturbed.
LEMMA StoreEventTraced ==
    ASSUME Progress, Reckoned, Traced, NEW w \in Ticks, StoreEvent(w)
    PROVE  Traced'
<1>1. /\ ChainTypes /\ tick \in [Ticks -> TickState]
      /\ recorded \in [Vaults -> SUBSET Nat]
  BY DEF Progress, Types, TableTypes
<1>2. PICK t \in TickState : t = tick[w]
  BY <1>1
<1>3. PICK i : i = Earliest(t)
  OBVIOUS
<1>4. InOrder(t) /\ t.at = "store" /\ t.vault \in Vaults /\ t.vault # Factory /\ t.batch # {}
  BY <1>2 DEF Progress, StoreEvent, TickState
<1>5. i \in 1..Len(logs[t.vault])
  <2>1. i \in DOMAIN logs[t.vault]
    BY <1>1, <1>3, <1>4, EarliestInBatch, LogKinds DEF InOrder
  <2>2. logs[t.vault] \in Seq(LogEvent)
    BY <1>1, <1>4 DEF ChainTypes
  <2> QED
    BY <2>1, <2>2
<1>6. /\ recorded' = [recorded EXCEPT ![t.vault] = @ \cup {i}]
      /\ tick' = [tick EXCEPT ![w] = IF Known(t.vault, i) THEN [t EXCEPT !.batch = t.batch \ {i}]
                                     ELSE [t EXCEPT !.at = "apply"]]
      /\ disturbed' = IF ~Known(t.vault, i) /\ (Overtaken(t.vault, i) \/ Overlapped(w))
                      THEN disturbed \cup {t.vault} ELSE disturbed
      /\ UNCHANGED <<logs, registry, row>>
  BY <1>2, <1>3 DEF StoreEvent, Goes, chain
<1>7. ~Mutating(w)
  BY <1>2, <1>4 DEF Mutating
<1>8. CASE i \in recorded[t.vault]
  <2>1. PICK r : r = [t EXCEPT !.batch = t.batch \ {i}]
    OBVIOUS
  <2>2. r.at = "store" /\ tick' = [tick EXCEPT ![w] = r] /\ disturbed' = disturbed
    BY <1>4, <1>6, <1>8, <2>1 DEF Known, TickState
  <2>3. recorded' = recorded
    BY <1>1, <1>4, <1>6, <1>8
  <2>4. Between(w, r)
    BY <1>6, <1>7, <2>2, <2>3 DEF Between
  <2> QED
    BY <2>4, BetweenTraced
<1>9. CASE i \notin recorded[t.vault]
  <2>1. PICK r : r = [t EXCEPT !.at = "apply"]
    OBVIOUS
  <2>2. /\ r.at = "apply" /\ r.vault = t.vault /\ r.batch = t.batch
        /\ tick' = [tick EXCEPT ![w] = r]
    BY <1>6, <1>9, <2>1 DEF Known, TickState
  <2>3. tick'[w] = r
    BY <2>2, OthersStay
  <2>4. Mutating(w)' /\ Earliest(tick[w])' = i
    <3>1. Earliest(r)' = i
      BY <1>3, <1>4, <2>2 DEF Earliest
    <3>2. Earliest(tick[w])' = Earliest(r)'
      BY <2>3 DEF Earliest
    <3> QED
      BY <2>2, <2>3, <3>1, <3>2 DEF Mutating
  <2>5. ASSUME NEW v \in Vaults \ disturbed', NEW h, Follows(h, v) PROVE Follows(h, v)'
    <3>1. CASE v # t.vault
      <4>1. w \notin Working(v) /\ w \notin Working(v)'
        BY <1>7, <2>2, <2>3, <3>1 DEF Working
      <4>2. recorded'[v] = recorded[v]
        BY <1>1, <1>6, <3>1
      <4> QED
        BY <1>6, <2>2, <2>5, <4>1, <4>2, ElsewhereFollows
    <3>2. CASE v = t.vault
      <4>1. ~Overtaken(v, i) /\ ~Overlapped(w)
        BY <1>6, <1>9, <2>5, <3>2 DEF Known
      <4>2. \A u \in Ticks : ~(Mutating(u) /\ tick[u].vault = v)
        BY <1>2, <1>7, <3>2, <4>1 DEF Overlapped
      <4>3. Working(v) = {}
        BY <4>2 DEF Working
      <4>4. Working(v)' = {w}
        <5>1. \A u \in Ticks \ {w} : ~(Mutating(u)' /\ tick'[u].vault = v)
          BY <2>2, <4>2, OthersStay
        <5>2. Mutating(w)' /\ tick'[w].vault = v
          BY <2>2, <2>3, <2>4, <3>2
        <5> QED
          BY <5>1, <5>2 DEF Working
      <4>5. recorded'[v] = recorded[v] \cup {i} /\ recorded[v] \subseteq Nat
        BY <1>1, <1>6, <3>2
      <4>6. \A j \in recorded'[v] : j <= i
        <5>1. \A j \in recorded[v] : ~(j > i)
          BY <4>1 DEF Overtaken
        <5> QED
          BY <1>5, <4>5, <5>1
      <4>7. recorded'[v] = 1..i => row[v] = h[i - 1]
        <5>1. SUFFICES ASSUME recorded'[v] = 1..i PROVE row[v] = h[i - 1]
          OBVIOUS
        <5>2. PICK m \in Nat : m = i - 1 /\ m \in 0..Len(logs[v]) /\ i = m + 1
          BY <1>5, <3>2
        <5>3. \A j : j \in recorded[v] <=> j \in 1..i /\ j # i
          BY <1>9, <3>2, <4>5, <5>1
        <5>4. \A j : j \in 1..m <=> j \in 1..i /\ j # i
          BY <5>2
        <5>5. recorded[v] = 1..m
          BY <5>3, <5>4
        <5> QED
          BY <2>5, <4>3, <5>2, <5>5 DEF Follows
      <4>8. tick'[w].at # "write"
        BY <2>2, <2>3
      <4> QED
        BY <1>6, <2>4, <4>4, <4>6, <4>7, <4>8 DEF Follows
    <3> QED
      BY <3>1, <3>2
  <2>6. disturbed \subseteq disturbed'
    BY <1>6
  <2>7. ASSUME NEW v \in Vaults \ disturbed'
        PROVE  \E h : Course(h, logs'[v], registry'[v]) /\ Follows(h, v)'
    <3>1. PICK h : Course(h, logs[v], registry[v]) /\ Follows(h, v)
      BY <2>6 DEF Traced
    <3> QED
      BY <1>6, <2>5, <3>1
  <2> HIDE DEF Vaults
  <2> QED
    BY <2>7 DEF Traced, Course, Makes, Card
<1> QED
  BY <1>8, <1>9

\* A balance that is read is the row's, and nobody else works on that row.
LEMMA ReadBalanceTraced ==
    ASSUME Progress, Traced, NEW w \in Ticks, ReadBalance(w)
    PROVE  Traced'
<1>1. tick \in [Ticks -> TickState]
  BY DEF Progress, Types
<1>2. PICK t \in TickState : t = tick[w]
  BY <1>1
<1>3. t.at = "apply" /\ Mutating(w)
  BY <1>2 DEF ReadBalance, Mutating
<1>4. t.vault \in Vaults /\ t.vault # Factory
  BY <1>2, <1>3, InHandRecorded
<1>5. PICK b : b = row[t.vault].available
  OBVIOUS
<1>6. PICK r : r = [t EXCEPT !.at = "write", !.balance = b]
  OBVIOUS
<1>7. tick' = [tick EXCEPT ![w] = r] /\ UNCHANGED <<logs, registry, recorded, row, disturbed>>
  BY <1>2, <1>5, <1>6 DEF ReadBalance, Goes, chain, database
<1>8. r.at = "write" /\ r.vault = t.vault /\ r.batch = t.batch /\ r.balance = b
  BY <1>6 DEF TickState
<1>9. tick'[w] = r
  BY <1>7, OthersStay
<1>10. Mutating(w)' /\ Earliest(tick[w])' = Earliest(tick[w])
  <2>1. Earliest(r)' = Earliest(t)
    BY <1>4, <1>8 DEF Earliest
  <2>2. Earliest(tick[w])' = Earliest(r)'
    BY <1>9 DEF Earliest
  <2> QED
    BY <1>2, <1>8, <1>9, <2>1, <2>2 DEF Mutating
<1>11. ASSUME NEW v \in Vaults, NEW h, Follows(h, v) PROVE Follows(h, v)'
  <2>1. CASE v # t.vault
    <3>1. w \notin Working(v) /\ w \notin Working(v)'
      BY <1>2, <1>8, <1>9, <2>1 DEF Working
    <3> QED
      BY <1>7, <1>11, <3>1, ElsewhereFollows
  <2>2. CASE v = t.vault
    <3>1. w \in Working(v) /\ w \in Working(v)'
      BY <1>2, <1>3, <1>8, <1>9, <1>10, <2>2 DEF Working
    <3>2. Working(v) = {w}
      BY <1>11, <3>1 DEF Follows
    <3>3. Working(v)' = {w}
      <4>1. Working(v)' \ {w} = Working(v) \ {w}
        BY <1>7, OthersStay
      <4> QED
        BY <3>1, <3>2, <4>1
    <3>4. tick'[w].balance = row[v].available
      BY <1>5, <1>8, <1>9, <2>2
    <3> QED
      BY <1>7, <1>10, <1>11, <3>2, <3>3, <3>4 DEF Follows
  <2> QED
    BY <2>1, <2>2
<1>12. ASSUME NEW v \in Vaults \ disturbed
       PROVE  \E h : Course(h, logs'[v], registry'[v]) /\ Follows(h, v)'
  BY <1>7, <1>11 DEF Traced
<1> HIDE DEF Vaults
<1> QED
  BY <1>7, <1>12 DEF Traced, Course, Makes, Card

\* A row that is written becomes what the event in hand makes of the paycard.
LEMMA MutateTraced ==
    ASSUME Progress, Reckoned, Traced, NEW w \in Ticks, Mutating(w), NEW card,
           Mutate(w, card), NEW v \in Vaults, v = tick[w].vault,
           NEW i, i = Earliest(tick[w]),
           \A h : /\ Course(h, logs[v], registry[v]) /\ row[v] = h[i - 1]
                  /\ tick[w].at = "write" => tick[w].balance = row[v].available
                  => card = h[i]
    PROVE  Traced'
<1>1. tick \in [Ticks -> TickState] /\ row \in [Vaults -> CardState]
  BY DEF Progress, Types, TableTypes
<1>2. PICK r : r = [tick[w] EXCEPT !.at = "store", !.batch = tick[w].batch \ {i}, !.balance = 0]
  OBVIOUS
<1>3. /\ tick' = [tick EXCEPT ![w] = r] /\ r.at = "store"
      /\ row' = [row EXCEPT ![v] = card]
      /\ UNCHANGED <<logs, registry, recorded, disturbed>>
  BY <1>1, <1>2 DEF Mutate, Goes, TickState, chain
<1>4. row'[v] = card /\ \A u \in Vaults \ {v} : row'[u] = row[u]
  BY <1>1, <1>3
<1>5. w \in Working(v) /\ i \in recorded[v] /\ i \in 1..Len(logs[v])
  BY PendingEvent DEF Working
<1>6. \A u \in Vaults : w \notin Working(u)'
  <2>1. tick'[w] = r
    BY <1>3, OthersStay
  <2> QED
    BY <1>3, <2>1 DEF Working, Mutating
<1>7. ASSUME NEW u \in Vaults, u # v, NEW h, Follows(h, u) PROVE Follows(h, u)'
  <2>1. w \notin Working(u)
    BY <1>7 DEF Working
  <2> QED
    BY <1>3, <1>4, <1>6, <1>7, <2>1, ElsewhereFollows
<1>8. ASSUME NEW h, Course(h, logs[v], registry[v]), Follows(h, v) PROVE Follows(h, v)'
  <2>1. /\ Working(v) = {w} /\ \A j \in recorded[v] : j <= i
        /\ recorded[v] = 1..i =>
              /\ row[v] = h[i - 1]
              /\ tick[w].at = "write" => tick[w].balance = row[v].available
    BY <1>5, <1>8 DEF Follows
  <2>2. Working(v)' = {}
    <3>1. Working(v)' \ {w} = Working(v) \ {w}
      BY <1>3, OthersStay
    <3> QED
      BY <1>6, <2>1, <3>1
  <2>3. ASSUME NEW m \in 0..Len(logs[v]), recorded[v] = 1..m PROVE card = h[m]
    <3>1. m = i
      <4>1. i \in 1..m
        BY <1>5, <2>3
      <4>2. m \in recorded[v]
        BY <2>3, <4>1
      <4>3. m <= i
        BY <2>1, <4>2
      <4> QED
        BY <4>1, <4>3
    <3> QED
      BY <1>8, <2>1, <2>3, <3>1
  <2> QED
    BY <1>3, <1>4, <2>2, <2>3 DEF Follows
<1>9. ASSUME NEW u \in Vaults \ disturbed
      PROVE  \E h : Course(h, logs'[u], registry'[u]) /\ Follows(h, u)'
  <2>1. PICK h : Course(h, logs[u], registry[u]) /\ Follows(h, u)
    BY DEF Traced
  <2>2. Follows(h, u)'
    BY <1>7, <1>8, <2>1
  <2> QED
    BY <1>3, <2>1, <2>2
<1> HIDE DEF Vaults
<1> QED
  BY <1>3, <1>9 DEF Traced, Course, Makes, Card

\* The mutations do to the row what the contract did to the paycard.
LEMMA ApplyTraced ==
    ASSUME Progress, Reckoned, Traced, NEW w \in Ticks,
           ApplyProvisioned(w) \/ ApplyReclaimed(w) \/ SkipSettled(w) \/ WriteBalance(w)
    PROVE  Traced'
<1>1. Mutating(w)
  BY DEF ApplyProvisioned, ApplyReclaimed, SkipSettled, WriteBalance, Mutating
<1>2. PICK v \in Vaults : v = tick[w].vault
  BY <1>1, InHandRecorded
<1>3. PICK i : i = Earliest(tick[w])
  OBVIOUS
<1>4. /\ i \in 1..Len(logs[v]) /\ Pending(w) = logs[v][i]
      /\ Pending(w).kind = "provisioned" => Pending(w).amount = Pool
  BY <1>1, <1>2, <1>3, PendingEvent DEF Pending
<1>5. \A h : Course(h, logs[v], registry[v]) => Makes(h[i - 1], Pending(w), h[i])
  BY <1>4 DEF Course
<1>6. CASE ApplyProvisioned(w)
  <2>1. PICK card : card = [available |-> Pool, status |-> "Active"]
    OBVIOUS
  <2>2. card = Card(Pool)
    BY <2>1 DEF Card
  <2>3. Mutate(w, card) /\ Pending(w).kind = "provisioned"
    BY <1>4, <1>6, <2>1 DEF ApplyProvisioned
  <2>4. \A h : Course(h, logs[v], registry[v]) => card = h[i]
    BY <1>5, <2>2, <2>3 DEF Makes
  <2> QED
    BY <1>1, <1>2, <1>3, <2>3, <2>4, MutateTraced
<1>7. CASE ApplyReclaimed(w)
  <2>1. PICK card : card = IF row[v] = NoRow THEN NoRow ELSE Card(0)
    OBVIOUS
  <2>2. Mutate(w, card) /\ Pending(w).kind = "reclaimed"
    BY <1>2, <1>7, <2>1 DEF ApplyReclaimed, Reclaimed
  <2>3. \A h : Course(h, logs[v], registry[v]) /\ row[v] = h[i - 1] => card = h[i]
    BY <1>5, <2>1, <2>2 DEF Makes
  <2> QED
    BY <1>1, <1>2, <1>3, <2>2, <2>3, MutateTraced
<1>8. CASE SkipSettled(w)
  <2>1. Mutate(w, NoRow) /\ Pending(w).kind = "settled" /\ row[v] = NoRow
    BY <1>2, <1>8 DEF SkipSettled
  <2>2. \A h : Course(h, logs[v], registry[v]) => row[v] # h[i - 1]
    BY <1>5, <2>1 DEF Makes
  <2> QED
    BY <1>1, <1>2, <1>3, <2>1, <2>2, MutateTraced
<1>9. CASE WriteBalance(w)
  <2>1. tick[w].at = "write" /\ Pending(w).kind = "settled"
    BY <1>9 DEF WriteBalance, Reckoned, ForSettlement, Pending
  <2>2. PICK card : card = Card(Remaining(w))
    OBVIOUS
  <2>3. Mutate(w, card)
    BY <1>9, <2>2 DEF WriteBalance
  <2>4. ASSUME NEW h, Course(h, logs[v], registry[v]), row[v] = h[i - 1],
               tick[w].balance = row[v].available
        PROVE  card = h[i]
    <3>1. /\ tick[w].balance - Pending(w).amount \in Nat
          /\ h[i] = Card(tick[w].balance - Pending(w).amount)
      BY <1>5, <2>1, <2>4 DEF Makes
    <3>2. \A n \in Nat : AtLeast0(n) = n
      BY DEF AtLeast0
    <3> QED
      BY <2>2, <3>1, <3>2 DEF Remaining
  <2> QED
    BY <1>1, <1>2, <1>3, <2>1, <2>3, <2>4, MutateTraced
<1> QED
  BY <1>6, <1>7, <1>8, <1>9

\* A tick that ends with an event in hand disturbs its vault.
LEMMA FailTraced ==
    ASSUME Progress, Traced, NEW w \in Ticks, Fail(w)
    PROVE  Traced'
<1>1. /\ tick' = [tick EXCEPT ![w] = NoTick] /\ UNCHANGED <<logs, registry, recorded, row>>
      /\ disturbed' = IF Mutating(w) THEN disturbed \cup {tick[w].vault} ELSE disturbed
  BY DEF Fail, Goes, chain, database
<1>2. NoTick.at \notin {"apply", "write"}
  BY DEF NoTick
<1>3. CASE ~Mutating(w)
  <2>1. Between(w, NoTick)
    BY <1>1, <1>2, <1>3 DEF Between
  <2> QED
    BY <2>1, BetweenTraced
<1>4. CASE Mutating(w)
  <2>1. ASSUME NEW v \in Vaults \ disturbed'
        PROVE  \E h : Course(h, logs'[v], registry'[v]) /\ Follows(h, v)'
    <3>1. v \notin disturbed /\ v # tick[w].vault
      BY <1>1, <1>4, <2>1
    <3>2. tick'[w] = NoTick
      BY <1>1, OthersStay
    <3>3. w \notin Working(v) /\ w \notin Working(v)'
      BY <1>2, <3>1, <3>2 DEF Working, Mutating
    <3>4. PICK h : Course(h, logs[v], registry[v]) /\ Follows(h, v)
      BY <3>1 DEF Traced
    <3>5. Follows(h, v)'
      BY <1>1, <3>3, <3>4, ElsewhereFollows
    <3> QED
      BY <1>1, <3>4, <3>5
  <2> HIDE DEF Vaults
  <2> QED
    BY <2>1 DEF Traced, Course, Makes, Card
<1> QED
  BY <1>3, <1>4

\* An empty log has a course, and no row follows it yet.
LEMMA InitTraced ==
    ASSUME Init
    PROVE  Traced
<1>1. ASSUME NEW v \in Vaults PROVE \E h : Course(h, logs[v], registry[v]) /\ Follows(h, v)
  <2>1. logs[v] = <<>> /\ registry[v] = NoRow /\ row[v] = NoRow
    BY DEF Init
  <2>2. Len(logs[v]) = 0 /\ 1..Len(logs[v]) = {} /\ 0..Len(logs[v]) = {0}
    BY <2>1
  <2>3. Working(v) = {}
    BY DEF Init, NoTick, Working, Mutating
  <2> DEFINE h == [k \in {0} |-> NoRow]
  <2>4. Course(h, logs[v], registry[v])
    BY <2>1, <2>2 DEF Course
  <2>5. Follows(h, v)
    BY <2>1, <2>2, <2>3 DEF Follows
  <2> QED
    BY <2>4, <2>5
<1> QED
  BY <1>1 DEF Traced

\* Every step lets the rows follow.
LEMMA NextTraced ==
    ASSUME Progress, Reckoned, Traced, [Next]_vars
    PROVE  Traced'
<1>1. CASE ChainStep
  BY <1>1, ChainTraced
<1>2. ASSUME NEW w \in Ticks, BeginTick(w)
      PROVE  Traced'
  BY <1>2, BetweenEvents, BetweenTraced
<1>3. ASSUME NEW w \in Ticks, Proceed(w)
      PROVE  Traced'
  BY <1>3, BetweenEvents, BetweenTraced, StoreEventTraced, ReadBalanceTraced, ApplyTraced
     DEF Proceed
<1>4. ASSUME NEW w \in Ticks, Fail(w)
      PROVE  Traced'
  BY <1>4, FailTraced
<1>5. CASE UNCHANGED vars
  BY <1>5, BlockTraced DEF vars
<1> QED
  BY <1>1, <1>2, <1>3, <1>4, <1>5 DEF Next

\* While nothing disturbs a vault, its row follows its paycard event for event.
THEOREM TracedAlways == Spec => [](Progress /\ Reckoned /\ Traced)
<1>1. Init => Progress /\ Reckoned /\ Traced
  BY InitProgress, InitReckoned, InitTraced
<1>2. Progress /\ Reckoned /\ Traced /\ [Next]_vars => (Progress /\ Reckoned /\ Traced)'
  BY NextProgress, NextReckoned, NextTraced
<1> QED
  BY <1>1, <1>2, PTL DEF Spec

\* A row of idx_paycard_state whose vault's events are all on record reads as
\* the contract has it, unless a mutation was cut off, overlapped or overtaken.
THEOREM RowMatchesRegistryAlways == Spec => []RowMatchesRegistry
<1>1. ASSUME Progress, Traced, NEW v \in Vaults \ disturbed,
             recorded[v] = DOMAIN logs[v], Settled(v)
      PROVE  row[v] = registry[v]
  <2>1. PICK h : Course(h, logs[v], registry[v]) /\ Follows(h, v)
    BY <1>1 DEF Traced
  <2>2. PICK n \in Nat : n = Len(logs[v]) /\ DOMAIN logs[v] = 1..n
    <3>1. logs[v] \in Seq(LogEvent)
      BY <1>1 DEF Progress, Types, ChainTypes
    <3> QED
      BY <3>1
  <2>3. Working(v) = {}
    BY <1>1 DEF Settled, Working
  <2>4. n \in 0..Len(logs[v])
    BY <2>2
  <2>5. row[v] = h[n]
    BY <1>1, <2>1, <2>2, <2>3, <2>4 DEF Follows
  <2> QED
    BY <2>1, <2>2, <2>5 DEF Course
<1>2. Progress /\ Reckoned /\ Traced => RowMatchesRegistry
  BY <1>1 DEF RowMatchesRegistry
<1> QED
  BY <1>2, TracedAlways, PTL
=============================================================================
