---------------------------- MODULE GatewayProofs ----------------------------
(***************************************************************************)
(* The gateway never understates a stream and never forgets to expire it,  *)
(* for any number of paycards, logs, crashes and every hazard; without one *)
(* its projection is the vault as soon as every log is on record.          *)
(***************************************************************************)
EXTENDS StreamGateway, SequenceTheorems, TLAPS

Log == [key : Nat \ {0}, id : Ids, kind : Kinds, amount : Nat]
Stream == [available : Nat,
           status : {"Absent", "Active", "PendingSettlement", "Terminated"}]

ChainTypes ==
    /\ chain \in Seq(Log)
    /\ mined \in Nat
    /\ Len(chain) <= mined
    /\ vault \in [Ids -> Stream]
    /\ clock \in Nat

RamTypes ==
    /\ phase \in {"down", "starting", "up"}
    /\ backlog \in Seq(Log)
    /\ cursor \in Nat \ {0}
    /\ processed \in SUBSET Nat
    /\ awaiting \in Seq(Log)
    /\ writing \in Log \cup {NoLog}
    /\ eventKeys \in SUBSET Nat
    /\ streams \in [Ids -> Stream]
    /\ queue \in SUBSET Ids

DiskTypes ==
    /\ fileKeys \in SUBSET Nat
    /\ unreadable \in SUBSET Nat
    /\ snapshot \in [Ids -> Stream]

Types == ChainTypes /\ RamTypes /\ DiskTypes /\ cursor <= Len(chain) + 1

USE GatewayAssumption

-----------------------------------------------------------------------------
(* Handlers and sequences of logs.                                         *)

\* A handler leaves a stream a stream, and makes an inactive one active only on
\* its provisioning.
LEMMA AppliedIsStream ==
    ASSUME NEW l \in Log, NEW s \in Stream
    PROVE  /\ Applied(l, s) \in Stream
           /\ Applied(l, s).status = "Active"
                 => l.kind = "PaycardProvisioned" \/ s.status = "Active"
<1>1. CASE l.kind = "PaycardProvisioned"
  BY <1>1 DEF Applied, Stream, Log
<1>2. CASE l.kind # "PaycardProvisioned" /\ s = Absent
  BY <1>2 DEF Applied, Stream, Absent
<1>3. CASE l.kind = "SettlementFlushed" /\ s # Absent
  <2>1. Applied(l, s) = Debited(s, l.amount)
    BY <1>3 DEF Applied
  <2>2. l.amount \in Nat /\ s.available \in Nat
    BY DEF Log, Stream
  <2>3. CASE s.available > l.amount
    <3>1. PICK n \in Nat : n = s.available - l.amount
      BY <2>2, <2>3
    <3>2. Applied(l, s) = [s EXCEPT !.available = n]
      BY <2>1, <2>3, <3>1 DEF Debited
    <3> QED
      BY <3>1, <3>2 DEF Stream
  <2>4. CASE ~(s.available > l.amount)
    BY <2>1, <2>4 DEF Debited, Stream
  <2> QED
    BY <2>3, <2>4
<1>4. CASE l.kind = "ResidualDeltaReclaimed" /\ s # Absent
  BY <1>4 DEF Applied, Stream
<1> QED
  BY <1>1, <1>2, <1>3, <1>4 DEF Log, Kinds

\* A log of a sequence is a log.
LEMMA EntryIsLog ==
    ASSUME NEW q \in Seq(Log), NEW i \in 1..Len(q)
    PROVE  q[i] \in Log
OBVIOUS

\* Taking an element out of a sequence leaves the others, in order.
LEMMA Removed ==
    ASSUME NEW q \in Seq(Log), NEW i \in 1..Len(q)
    PROVE  /\ RemoveAt(q, i) \in Seq(Log)
           /\ Len(RemoveAt(q, i)) = Len(q) - 1
           /\ \A j \in 1..(Len(q) - 1) :
                 RemoveAt(q, i)[j] = IF j < i THEN q[j] ELSE q[j + 1]
<1> DEFINE a == SubSeq(q, 1, i - 1)
           b == SubSeq(q, i + 1, Len(q))
<1>1. a \in Seq(Log) /\ Len(a) = i - 1 /\ \A j \in 1..(i - 1) : a[j] = q[j]
  OBVIOUS
<1>2. /\ b \in Seq(Log) /\ Len(b) = Len(q) - i
      /\ \A j \in 1..(Len(q) - i) : b[j] = q[i + j]
  OBVIOUS
<1>3. RemoveAt(q, i) = a \o b
  BY DEF RemoveAt
<1> HIDE DEF a, b
<1>4. Len(a \o b) = Len(q) - 1 /\ a \o b \in Seq(Log)
  <2>1. Len(a \o b) = Len(a) + Len(b) /\ a \o b \in Seq(Log)
    BY <1>1, <1>2, ConcatProperties
  <2> QED
    BY <1>1, <1>2, <2>1
<1>5. ASSUME NEW j \in 1..(Len(q) - 1)
      PROVE  (a \o b)[j] = IF j < i THEN q[j] ELSE q[j + 1]
  <2>1. CASE j < i
    BY <1>1, <1>2, <2>1
  <2>2. CASE ~(j < i)
    <3>1. (a \o b)[j] = b[j - (i - 1)]
      BY <1>1, <1>2, <2>2
    <3>2. j - (i - 1) \in 1..(Len(q) - i) /\ i + (j - (i - 1)) = j + 1
      BY <2>2
    <3> QED
      BY <1>2, <2>2, <3>1, <3>2
  <2> QED
    BY <2>1, <2>2
<1> QED
  BY <1>3, <1>4, <1>5

-----------------------------------------------------------------------------
(* The chain.                                                              *)

\* A transaction of the vault: one log or two, and the paycard's new entry.
Transaction(id, logs, entry) ==
    /\ Mine(logs, id, entry)
    /\ logs \in Seq(Log)
    /\ entry \in Stream

\* The forms that a transaction takes.
LEMMA TransactionForms ==
    ASSUME Types, NEW id \in Ids
    PROVE  /\ Provision(id) =>
                 Transaction(id, <<Entry(mined + 1, id, "PaycardProvisioned", Pool[id])>>,
                             [available |-> Pool[id], status |-> "Active"])
           /\ \A amount \in 1..Pool[id] : Settle(id, amount) =>
                 Transaction(id, <<Entry(mined + 1, id, "SettlementFlushed", amount)>>,
                             Drained(id, amount))
           /\ Reclaim(id) =>
                 Transaction(id, <<Entry(mined + 1, id, "ResidualDeltaReclaimed",
                                         vault[id].available)>>,
                             [available |-> 0, status |-> "Terminated"])
           /\ \A amount \in 1..Pool[id] : SettleAndReclaim(id, amount) =>
                 Transaction(id, <<Entry(mined + 1, id, "SettlementFlushed", amount),
                                   Entry(mined + 2, id, "ResidualDeltaReclaimed",
                                         vault[id].available - amount)>>,
                             [available |-> 0, status |-> "Terminated"])
<1>1. /\ mined + 1 \in Nat \ {0} /\ mined + 2 \in Nat \ {0}
      /\ Pool[id] \in Nat /\ vault[id] \in Stream /\ vault[id].available \in Nat
  BY DEF Types, ChainTypes, Stream
<1>2. ASSUME NEW k \in Nat \ {0}, NEW kind \in Kinds, NEW a \in Nat
      PROVE  Entry(k, id, kind, a) \in Log
  BY DEF Entry, Log
<1>3. ASSUME NEW a \in Nat PROVE [available |-> a, status |-> "Active"] \in Stream
  BY DEF Stream
<1>4. [available |-> 0, status |-> "Terminated"] \in Stream
  BY DEF Stream
<1>5. Provision(id) =>
        Transaction(id, <<Entry(mined + 1, id, "PaycardProvisioned", Pool[id])>>,
                    [available |-> Pool[id], status |-> "Active"])
  <2>1. Entry(mined + 1, id, "PaycardProvisioned", Pool[id]) \in Log
    BY <1>1, <1>2 DEF Kinds
  <2> QED
    BY <1>1, <1>3, <2>1 DEF Provision, Transaction
<1>6. ASSUME NEW amount \in 1..Pool[id], Settle(id, amount)
      PROVE  Transaction(id, <<Entry(mined + 1, id, "SettlementFlushed", amount)>>,
                         Drained(id, amount))
  <2>1. amount \in Nat /\ vault[id].available - amount \in Nat
    BY <1>1, <1>6 DEF Settle
  <2>2. Entry(mined + 1, id, "SettlementFlushed", amount) \in Log
    BY <1>1, <1>2, <2>1 DEF Kinds
  <2>3. Drained(id, amount) \in Stream
    BY <2>1 DEF Drained, Stream
  <2> QED
    BY <1>6, <2>2, <2>3 DEF Settle, Transaction
<1>7. Reclaim(id) =>
        Transaction(id, <<Entry(mined + 1, id, "ResidualDeltaReclaimed",
                                vault[id].available)>>,
                    [available |-> 0, status |-> "Terminated"])
  <2>1. Entry(mined + 1, id, "ResidualDeltaReclaimed", vault[id].available) \in Log
    BY <1>1, <1>2 DEF Kinds
  <2> QED
    BY <1>4, <2>1 DEF Reclaim, Transaction
<1>8. ASSUME NEW amount \in 1..Pool[id], SettleAndReclaim(id, amount)
      PROVE  Transaction(id, <<Entry(mined + 1, id, "SettlementFlushed", amount),
                               Entry(mined + 2, id, "ResidualDeltaReclaimed",
                                     vault[id].available - amount)>>,
                         [available |-> 0, status |-> "Terminated"])
  <2>1. amount \in Nat /\ vault[id].available - amount \in Nat
    BY <1>1, <1>8 DEF SettleAndReclaim
  <2>2. PICK e \in Log : e = Entry(mined + 1, id, "SettlementFlushed", amount)
    BY <1>1, <1>2, <2>1 DEF Kinds
  <2>3. PICK f \in Log : f = Entry(mined + 2, id, "ResidualDeltaReclaimed",
                                   vault[id].available - amount)
    BY <1>1, <1>2, <2>1 DEF Kinds
  <2>4. <<e, f>> \in Seq(Log)
    OBVIOUS
  <2> QED
    BY <1>4, <1>8, <2>2, <2>3, <2>4 DEF SettleAndReclaim, Transaction
<1> QED
  BY <1>5, <1>6, <1>7, <1>8

\* A step of the chain is a transaction, a reorganisation or the clock.
LEMMA ChainStepForms ==
    ASSUME Types, ChainNext
    PROVE  \/ \E id \in Ids : \E logs, entry : Transaction(id, logs, entry)
           \/ Reorg
           \/ ClockTick
BY TransactionForms DEF ChainNext

-----------------------------------------------------------------------------
(* Types.                                                                  *)

\* Every variable starts with its type.
LEMMA TypesStart == Init => Types
<1> SUFFICES ASSUME Init PROVE Types
  OBVIOUS
<1>1. Nothing \in [Ids -> Stream]
  BY DEF Nothing, Absent, Stream
<1>2. <<>> \in Seq(Log) /\ Len(<<>>) = 0
  OBVIOUS
<1> QED
  BY <1>1, <1>2 DEF Init, Types, ChainTypes, RamTypes, DiskTypes

\* Every step keeps the types.
LEMMA TypesKept == Types /\ [Next]_vars => Types'
<1> SUFFICES ASSUME Types, [Next]_vars PROVE Types'
  OBVIOUS
<1> USE DEF Types
<1>1. ASSUME NEW id \in Ids, NEW logs, NEW entry, Transaction(id, logs, entry)
      PROVE  Types'
  <2>1. chain' \in Seq(Log) /\ Len(chain') = Len(chain) + Len(logs)
    BY <1>1 DEF Transaction, Mine, ChainTypes
  <2>2. Len(logs) \in Nat
    BY <1>1 DEF Transaction
  <2>3. mined' \in Nat /\ Len(chain') <= mined'
    BY <1>1, <2>1, <2>2 DEF Transaction, Mine, ChainTypes
  <2>4. vault' \in [Ids -> Stream]
    BY <1>1 DEF Transaction, Mine, ChainTypes
  <2> QED
    BY <1>1, <2>1, <2>3, <2>4 DEF Transaction, Mine, ChainTypes, RamTypes, DiskTypes, ram, disk
<1>2. CASE Reorg
  <2>1. Len(chain) \in Nat /\ Len(chain) # 0 /\ mined + 1 \in Nat \ {0}
    BY <1>2 DEF Reorg, ChainTypes
  <2>2. [chain[Len(chain)] EXCEPT !.key = mined + 1] \in Log
    <3>1. chain[Len(chain)] \in Log
      BY <2>1, EntryIsLog DEF ChainTypes
    <3> QED
      BY <2>1, <3>1 DEF Log
  <2>3. chain' \in Seq(Log) /\ Len(chain') = Len(chain)
    BY <1>2, <2>1, <2>2 DEF Reorg, ChainTypes
  <2>4. cursor' \in Nat \ {0}
    BY <1>2, <2>1 DEF Reorg, RamTypes
  <2> QED
    BY <1>2, <2>1, <2>3, <2>4 DEF Reorg, ChainTypes, RamTypes, DiskTypes, ram, disk
<1>3. CASE ClockTick
  BY <1>3 DEF ClockTick, ChainTypes, RamTypes, DiskTypes, ram, disk
<1>4. CASE Start
  <2>1. Rescheduled(snapshot) \in SUBSET Ids
    BY DEF Rescheduled
  <2>2. Len(chain) + 1 \in Nat \ {0}
    BY DEF ChainTypes
  <2> QED
    BY <1>4, <2>1, <2>2 DEF Start, ChainTypes, RamTypes, DiskTypes, chainVars, disk
<1>5. CASE Fetch
  BY <1>5 DEF Fetch, LogsOnChain, ChainTypes, RamTypes, DiskTypes, chainVars, ram, disk
<1>6. ASSUME NEW l \in Log, Enter(l)
      PROVE  processed' \in SUBSET Nat /\ awaiting' \in Seq(Log)
  <2>1. l.key \in Nat
    BY DEF Log
  <2>2. Append(awaiting, l) \in Seq(Log)
    BY DEF RamTypes
  <2> QED
    BY <1>6, <2>1, <2>2 DEF Enter, RamTypes
<1>7. CASE BackfillNext
  <2>1. Head(backlog) \in Log /\ Tail(backlog) \in Seq(Log)
    BY <1>7 DEF BackfillNext, RamTypes
  <2> QED
    BY <1>6, <1>7, <2>1 DEF BackfillNext, ChainTypes, RamTypes, DiskTypes, chainVars, disk
<1>8. CASE BackfillDone
  BY <1>8 DEF BackfillDone, ChainTypes, RamTypes, DiskTypes, chainVars, ram, disk
<1>9. CASE BackfillAgain
  BY <1>9 DEF BackfillAgain, ChainTypes, RamTypes, DiskTypes, chainVars, ram, disk
<1>10. CASE Deliver
  <2>1. chain[cursor] \in Log
    BY <1>10, EntryIsLog DEF Deliver, ChainTypes, RamTypes
  <2>2. cursor + 1 \in Nat \ {0}
    BY DEF RamTypes
  <2> QED
    BY <1>6, <1>10, <2>1, <2>2 DEF Deliver, ChainTypes, RamTypes, DiskTypes, chainVars, disk
<1>11. CASE DeliverAgain
  <2>1. chain[cursor - 1] \in Log
    <3>1. cursor - 1 \in 1..Len(chain)
      BY <1>11 DEF DeliverAgain, ChainTypes, RamTypes
    <3> QED
      BY <3>1, EntryIsLog DEF ChainTypes
  <2> QED
    BY <1>6, <1>11, <2>1 DEF DeliverAgain, ChainTypes, RamTypes, DiskTypes, chainVars, disk
<1>12. CASE Miss
  <2>1. cursor + 1 \in Nat \ {0}
    BY DEF RamTypes
  <2> QED
    BY <1>12, <2>1 DEF Miss, ChainTypes, RamTypes, DiskTypes, chainVars, ram, disk
<1>13. ASSUME NEW i \in 1..Len(awaiting), Record(i)
       PROVE  Types'
  <2>1. RemoveAt(awaiting, i) \in Seq(Log) /\ awaiting[i] \in Log
    BY Removed, EntryIsLog DEF RamTypes
  <2>2. awaiting[i].key \in Nat
    BY <2>1 DEF Log
  <2> QED
    BY <1>13, <2>1, <2>2 DEF Record, ChainTypes, RamTypes, DiskTypes, chainVars
<1>14. CASE Project
  <2>1. writing \in Log /\ writing.id \in Ids
    BY <1>14 DEF Project, RamTypes, Log
  <2>2. Applied(writing, streams[writing.id]) \in Stream
    BY <2>1, AppliedIsStream DEF RamTypes
  <2>3. streams' \in [Ids -> Stream]
    BY <1>14, <2>1, <2>2 DEF Project, RamTypes
  <2>4. queue' \in SUBSET Ids
    BY <1>14, <2>1 DEF Project, Scheduled, RamTypes
  <2>5. snapshot' \in [Ids -> Stream]
    BY <1>14, <2>3 DEF Project, DiskTypes
  <2> QED
    BY <1>14, <2>3, <2>4, <2>5 DEF Project, ChainTypes, RamTypes, DiskTypes, chainVars
<1>15. CASE SweepExpired
  <2>1. \A s \in Stream : MarkExpired(s) \in Stream
    BY DEF MarkExpired, Stream
  <2>2. streams' \in [Ids -> Stream]
    BY <1>15, <2>1 DEF SweepExpired, RamTypes
  <2>3. snapshot' \in [Ids -> Stream] /\ queue' \in SUBSET Ids
    BY <1>15, <2>2 DEF SweepExpired, RamTypes, DiskTypes
  <2> QED
    BY <1>15, <2>2, <2>3 DEF SweepExpired, ChainTypes, RamTypes, DiskTypes, chainVars
<1>16. Nothing \in [Ids -> Stream] /\ <<>> \in Seq(Log)
  BY DEF Nothing, Absent, Stream
<1>17. ASSUME Die PROVE ChainTypes' /\ RamTypes' /\ cursor' <= Len(chain') + 1
  BY <1>16, <1>17 DEF Die, ChainTypes, RamTypes, chainVars
<1>18. CASE Crash \/ CrashBetweenWrites \/ CrashInSnapshot \/ CrashInAppend
  BY <1>16, <1>17, <1>18
     DEF Crash, CrashBetweenWrites, CrashInSnapshot, CrashInAppend, DiskTypes, disk
<1>19. CASE UNCHANGED vars
  BY <1>19 DEF vars, ChainTypes, RamTypes, DiskTypes
<1>20. ChainNext => Types'
  BY <1>1, <1>2, <1>3, ChainStepForms
<1> HIDE DEF Types
<1> QED
  BY <1>4, <1>5, <1>7, <1>8, <1>9, <1>10, <1>11, <1>12, <1>13, <1>14, <1>15,
     <1>18, <1>19, <1>20 DEF Next

-----------------------------------------------------------------------------
(* The termination queue.                                                  *)

\* A stream becomes active by its provisioning, which schedules it, or by a
\* restart, which schedules all; the sweep takes out those it marks.
LEMMA ScheduleKept ==
    ASSUME Types, ActiveIsScheduled, [Next]_vars
    PROVE  ActiveIsScheduled'
<1>1. CASE UNCHANGED <<phase, streams, queue>>
  BY <1>1 DEF ActiveIsScheduled, Running
<1>2. CASE Start
  BY <1>2 DEF Start, Rescheduled, ActiveIsScheduled
<1>3. CASE Project
  <2>1. writing \in Log /\ writing.id \in Ids
    BY <1>3 DEF Project, Types, RamTypes, Log
  <2>2. streams[writing.id] \in Stream
    BY <2>1 DEF Types, RamTypes
  <2>3. ASSUME NEW id \in Ids, streams'[id].status = "Active", Timed(id)
        PROVE  id \in queue'
    <3>1. CASE id # writing.id
      <4>1. streams'[id] = streams[id]
        BY <1>3, <3>1 DEF Project, Types, RamTypes
      <4> QED
        BY <1>3, <2>3, <4>1 DEF Project, Scheduled, ActiveIsScheduled
    <3>2. CASE id = writing.id
      <4>1. streams'[id] = Applied(writing, streams[id])
        BY <1>3, <3>2 DEF Project, Types, RamTypes
      <4>2. writing.kind = "PaycardProvisioned" \/ streams[id].status = "Active"
        BY <2>1, <2>2, <2>3, <3>2, <4>1, AppliedIsStream
      <4> QED
        BY <1>3, <2>3, <3>2, <4>2 DEF Project, Scheduled, ActiveIsScheduled
    <3> QED
      BY <3>1, <3>2
  <2> QED
    BY <2>3 DEF ActiveIsScheduled
<1>4. CASE SweepExpired
  <2>1. ASSUME NEW id \in Ids, streams'[id].status = "Active", Timed(id)
        PROVE  id \in queue'
    <3>1. \A s \in Stream : MarkExpired(s).status # "Active"
      BY DEF MarkExpired, Stream
    <3>2. id \notin Due
      BY <1>4, <2>1, <3>1 DEF SweepExpired, Types, RamTypes
    <3>3. streams'[id] = streams[id]
      BY <1>4, <3>2 DEF SweepExpired
    <3> QED
      BY <1>4, <2>1, <3>2, <3>3 DEF SweepExpired, ActiveIsScheduled, Idle
  <2> QED
    BY <2>1 DEF ActiveIsScheduled
<1>5. CASE Crash \/ CrashBetweenWrites \/ CrashInSnapshot \/ CrashInAppend
  BY <1>5 DEF Crash, CrashBetweenWrites, CrashInSnapshot, CrashInAppend, Die,
              ActiveIsScheduled, Running
<1>6. ASSUME ChainNext PROVE UNCHANGED <<phase, streams, queue>>
  <2>1. CASE Reorg \/ ClockTick
    BY <2>1 DEF Reorg, ClockTick, ram
  <2>2. \A id, logs, entry : Transaction(id, logs, entry) => UNCHANGED <<phase, streams, queue>>
    BY DEF Transaction, Mine, ram
  <2> QED
    BY <1>6, <2>1, <2>2, ChainStepForms
<1>7. CASE BackfillDone
  BY <1>7 DEF BackfillDone, ram, Idle, ActiveIsScheduled, Running
<1>8. CASE Fetch \/ BackfillNext \/ BackfillAgain \/ Deliver \/ DeliverAgain \/ Miss
  <2>1. UNCHANGED <<phase, streams, queue>>
    BY <1>8 DEF Fetch, BackfillNext, BackfillAgain, Deliver, DeliverAgain, Miss, ram
  <2> QED
    BY <1>1, <2>1
<1>9. ASSUME NEW i \in 1..Len(awaiting), Record(i)
      PROVE  ActiveIsScheduled'
  BY <1>1, <1>9 DEF Record
<1>10. CASE UNCHANGED vars
  BY <1>1, <1>10 DEF vars
<1> QED
  BY <1>1, <1>2, <1>3, <1>4, <1>5, <1>6, <1>7, <1>8, <1>9, <1>10 DEF Next

\* No restart, replay, crash or sweep leaves an active stream that will expire out
\* of the termination queue.
THEOREM ActiveIsScheduledAlways == Spec => []ActiveIsScheduled
<1>1. Init => Types /\ ActiveIsScheduled
  BY TypesStart DEF Init, ActiveIsScheduled, Running
<1>2. Types /\ ActiveIsScheduled /\ [Next]_vars => (Types /\ ActiveIsScheduled)'
  BY TypesKept, ScheduleKept
<1> QED
  BY <1>1, <1>2, PTL DEF Spec

-----------------------------------------------------------------------------
(* What the keys tell, as long as they are intact.                         *)

\* What a log takes from the stream id.
Debit(l, id) == IF l.id = id /\ l.kind = "SettlementFlushed" THEN l.amount ELSE 0

\* w sums the debits of the stream id over sets of positions of the chain c.
Tally(w, c, id) ==
    /\ w \in [SUBSET (1..Len(c)) -> Nat]
    /\ \A K \in SUBSET (1..Len(c)) : \A i \in (1..Len(c)) \ K :
          w[K \cup {i}] = w[K] + Debit(c[i], id)
    /\ \A K, L \in SUBSET (1..Len(c)) : K \subseteq L => w[K] <= w[L]

\* A log's key is its position on the chain, and the chain tells a paycard's life.
ChainTells ==
    /\ \A i \in 1..Len(chain) :
          /\ chain[i].key = i
          /\ vault[chain[i].id] # Absent
          /\ chain[i].kind = "PaycardProvisioned" => chain[i].amount = Pool[chain[i].id]
          /\ chain[i].kind = "ResidualDeltaReclaimed" =>
                vault[chain[i].id].status = "Terminated"
    /\ \A i, j \in 1..Len(chain) :
          /\ chain[i].kind = "PaycardProvisioned" /\ chain[j].kind = "PaycardProvisioned"
          /\ chain[i].id = chain[j].id
          => i = j
    /\ \A id \in Ids :
          \/ vault[id] = Absent
          \/ vault[id].status = "Active" /\ vault[id].available > 0
          \/ vault[id] = [available |-> 0, status |-> "Terminated"]

OnChain(l) == l.key \in 1..Len(chain) /\ l = chain[l.key]

\* Memory agrees with the disk; every log on its way is one of the chain, and is
\* recorded once.
HandledOnce ==
    /\ Running => eventKeys = fileKeys /\ streams = snapshot
    /\ ~Running => awaiting = <<>> /\ writing = NoLog /\ backlog = <<>> /\ streams = Nothing
    /\ fileKeys \subseteq 1..Len(chain)
    /\ \A i \in 1..Len(backlog) : OnChain(backlog[i])
    /\ \A i \in 1..Len(awaiting) :
          OnChain(awaiting[i]) /\ awaiting[i].key \in processed \ fileKeys
    /\ \A i, j \in 1..Len(awaiting) : awaiting[i].key = awaiting[j].key => i = j
    /\ writing # NoLog => OnChain(writing) /\ writing.key \in fileKeys

\* The logs that may have reached the projection.
Reached == fileKeys \ {writing.key}

\* A stream is known by its provisioning, terminated when the vault says so, and
\* debited for recorded logs only.
Grounded(id) ==
    snapshot[id] # Absent =>
        /\ vault[id] # Absent
        /\ snapshot[id].status = "Terminated" => vault[id].status = "Terminated"
        /\ \E i \in Reached : chain[i].id = id /\ chain[i].kind = "PaycardProvisioned"

Weighed(id) ==
    \E w : /\ Tally(w, chain, id)
           /\ vault[id] = Absent => w[1..Len(chain)] = 0
           /\ vault[id].status = "Active" =>
                 /\ vault[id].available + w[1..Len(chain)] = Pool[id]
                 /\ snapshot[id] # Absent =>
                       snapshot[id].available + w[Reached] >= Pool[id]

InStep == ChainTells /\ HandledOnce /\ \A id \in Ids : Grounded(id) /\ Weighed(id)

Ledger == Types /\ (KeysIntact => InStep)

\* A key that is broken stays broken.
LEMMA KeysStayBroken ==
    ASSUME Types, [Next]_vars, KeysIntact'
    PROVE  KeysIntact /\ ~Reorg
<1>1. Len(chain) \in Nat /\ mined \in Nat /\ Len(chain) <= mined
  BY DEF Types, ChainTypes
<1>2. ~Reorg
  <2>1. SUFFICES ASSUME Reorg PROVE FALSE
    OBVIOUS
  <2>2. Len(chain') = Len(chain)
    BY <2>1 DEF Reorg, Types, ChainTypes
  <2> QED
    BY <1>1, <2>1, <2>2 DEF Reorg, KeysIntact
<1>3. ASSUME NEW id \in Ids, NEW logs, NEW entry, Transaction(id, logs, entry)
      PROVE  KeysIntact
  <2>1. Len(chain') = Len(chain) + Len(logs) /\ Len(logs) \in Nat
    BY <1>3 DEF Transaction, Mine, Types, ChainTypes
  <2> QED
    BY <1>1, <1>3, <2>1 DEF Transaction, Mine, KeysIntact, disk
<1>4. ClockTick => KeysIntact
  BY DEF ClockTick, KeysIntact, disk
<1>5. ASSUME UNCHANGED <<chain, mined>>, unreadable \subseteq unreadable' PROVE KeysIntact
  BY <1>5 DEF KeysIntact
<1>6. \/ Start \/ Fetch \/ BackfillNext \/ BackfillDone \/ BackfillAgain \/ Deliver
      \/ DeliverAgain \/ Miss \/ Project \/ SweepExpired
      => KeysIntact
  BY <1>5 DEF Start, Fetch, BackfillNext, BackfillDone, BackfillAgain, Deliver, DeliverAgain,
              Miss, Project, SweepExpired, chainVars, disk
<1>7. \A i \in 1..Len(awaiting) : Record(i) => KeysIntact
  BY <1>5 DEF Record, chainVars
<1>8. Crash \/ CrashBetweenWrites \/ CrashInSnapshot \/ CrashInAppend => KeysIntact
  BY <1>5 DEF Crash, CrashBetweenWrites, CrashInSnapshot, CrashInAppend, Die, chainVars, disk
<1>9. UNCHANGED vars => KeysIntact
  BY <1>5 DEF vars
<1>10. ChainNext => KeysIntact
  BY <1>2, <1>3, <1>4, ChainStepForms
<1> QED
  BY <1>2, <1>6, <1>7, <1>8, <1>9, <1>10 DEF Next

\* A longer chain has a tally that agrees with the shorter one's.
LEMMA TallyGrows ==
    ASSUME NEW c \in Seq(Log), NEW e \in Log, NEW id, NEW w, Tally(w, c, id)
    PROVE  \E x : /\ Tally(x, Append(c, e), id)
                  /\ \A K \in SUBSET (1..Len(c)) : x[K] = w[K]
                  /\ x[1..(Len(c) + 1)] = w[1..Len(c)] + Debit(e, id)
<1> DEFINE n == Len(c)
           d == Debit(e, id)
           x == [K \in SUBSET (1..(n + 1)) |->
                    IF n + 1 \in K THEN w[K \ {n + 1}] + d ELSE w[K]]
<1>1. n \in Nat /\ d \in Nat /\ Len(Append(c, e)) = n + 1
  BY DEF Debit, Log
<1>2. /\ Append(c, e)[n + 1] = e
      /\ \A i \in 1..n : Append(c, e)[i] = c[i]
  OBVIOUS
<1>3. /\ w \in [SUBSET (1..n) -> Nat]
      /\ \A K \in SUBSET (1..n) : \A i \in (1..n) \ K : w[K \cup {i}] = w[K] + Debit(c[i], id)
      /\ \A K, L \in SUBSET (1..n) : K \subseteq L => w[K] <= w[L]
  BY DEF Tally
<1>4. Debit(Append(c, e)[n + 1], id) = d
      /\ \A i \in 1..n : Debit(Append(c, e)[i], id) = Debit(c[i], id)
  BY <1>2
<1> HIDE DEF n, d
<1>5. \A K \in SUBSET (1..(n + 1)) : K \ {n + 1} \in SUBSET (1..n)
  BY <1>1
<1>6. \A K \in SUBSET (1..(n + 1)) : n + 1 \notin K => K \in SUBSET (1..n)
  BY <1>1
<1>7. ASSUME NEW K \in SUBSET (1..(n + 1))
      PROVE  /\ n + 1 \in K => x[K] = w[K \ {n + 1}] + d
             /\ n + 1 \notin K => x[K] = w[K] /\ K \ {n + 1} = K
             /\ w[K \ {n + 1}] \in Nat
  BY <1>3, <1>5
<1>8. x \in [SUBSET (1..(n + 1)) -> Nat]
  <2>1. ASSUME NEW K \in SUBSET (1..(n + 1))
        PROVE  (IF n + 1 \in K THEN w[K \ {n + 1}] + d ELSE w[K]) \in Nat
    BY <1>1, <1>3, <1>5, <1>6
  <2> QED
    BY <2>1
<1> HIDE DEF x
<1>9. ASSUME NEW K \in SUBSET (1..(n + 1)), NEW i \in (1..(n + 1)) \ K
      PROVE  x[K \cup {i}] = x[K] + Debit(Append(c, e)[i], id)
  <2> DEFINE M == K \cup {i}
             J == K \ {n + 1}
  <2>1. M \in SUBSET (1..(n + 1)) /\ w[J] \in Nat
    BY <1>7
  <2>2. CASE i = n + 1
    <3>1. M \ {n + 1} = K /\ n + 1 \notin K /\ n + 1 \in M
      BY <2>2
    <3>2. x[M] = w[K] + d /\ x[K] = w[K]
      BY <1>7, <2>1, <3>1
    <3> QED
      BY <1>4, <2>2, <3>2
  <2>3. CASE i # n + 1
    <3>1. i \in 1..n /\ i \notin J /\ J \in SUBSET (1..n)
      BY <1>1, <1>5, <2>3
    <3>2. M \ {n + 1} = J \cup {i} /\ (n + 1 \in M <=> n + 1 \in K)
      BY <2>3
    <3>3. w[J \cup {i}] = w[J] + Debit(c[i], id)
      BY <1>3, <3>1
    <3>4. Debit(c[i], id) \in Nat
      <4>1. c[i] \in Log
        BY <3>1, EntryIsLog DEF n
      <4> QED
        BY <4>1 DEF Debit, Log
    <3>5. CASE n + 1 \in K
      <4>1. x[M] = w[J \cup {i}] + d /\ x[K] = w[J] + d
        BY <1>7, <2>1, <3>2, <3>5
      <4>2. x[M] = x[K] + Debit(c[i], id)
        <5> HIDE DEF J, M
        <5> QED
          BY <1>1, <2>1, <3>3, <3>4, <4>1
      <4> QED
        BY <1>4, <3>1, <4>2
    <3>6. CASE n + 1 \notin K
      <4>1. M \ {n + 1} = M /\ J = K
        BY <3>2, <3>6
      <4>2. x[M] = w[J \cup {i}] /\ x[K] = w[J]
        BY <1>7, <2>1, <3>2, <3>6, <4>1
      <4> QED
        BY <1>4, <3>1, <3>3, <4>2
    <3> QED
      BY <3>5, <3>6
  <2> QED
    BY <2>2, <2>3
<1>10. ASSUME NEW K \in SUBSET (1..(n + 1)), NEW L \in SUBSET (1..(n + 1)), K \subseteq L
       PROVE  x[K] <= x[L]
  <2> DEFINE I == K \ {n + 1}
             J == L \ {n + 1}
  <2>1. I \subseteq J /\ I \in SUBSET (1..n) /\ J \in SUBSET (1..n)
    BY <1>5, <1>10
  <2>2. w[I] <= w[J] /\ w[I] \in Nat /\ w[J] \in Nat
    BY <1>3, <2>1
  <2>3. /\ x[K] = w[I] \/ (x[K] = w[I] + d /\ n + 1 \in K)
        /\ x[L] = w[J] + d \/ (x[L] = w[J] /\ n + 1 \notin L)
    BY <1>7
  <2>4. n + 1 \in K => n + 1 \in L
    BY <1>10
  <2> HIDE DEF I, J
  <2> QED
    BY <1>1, <2>2, <2>3, <2>4
<1>11. Tally(x, Append(c, e), id)
  BY <1>1, <1>8, <1>9, <1>10 DEF Tally
<1>12. ASSUME NEW K \in SUBSET (1..n) PROVE x[K] = w[K]
  <2>1. K \in SUBSET (1..(n + 1)) /\ n + 1 \notin K
    BY <1>1
  <2> QED
    BY <1>7, <2>1
<1>13. x[1..(n + 1)] = w[1..n] + d
  <2>1. (1..(n + 1)) \ {n + 1} = 1..n /\ n + 1 \in 1..(n + 1)
    BY <1>1
  <2> QED
    BY <1>7, <2>1
<1> QED
  BY <1>11, <1>12, <1>13 DEF n, d

-----------------------------------------------------------------------------
(* Transactions.                                                           *)

\* The chain is longer by logs of the paycard id, which has the new entry.
Grows(id, entry) ==
    /\ chain' \in Seq(Log)
    /\ Len(chain') > Len(chain)
    /\ \A j \in 1..Len(chain) : chain'[j] = chain[j]
    /\ \A j \in (Len(chain) + 1)..Len(chain') :
          /\ chain'[j].key = j
          /\ chain'[j].id = id
          /\ chain'[j].kind = "PaycardProvisioned" =>
                /\ vault[id] = Absent
                /\ chain'[j].amount = Pool[id]
                /\ Len(chain') = Len(chain) + 1
          /\ chain'[j].kind = "ResidualDeltaReclaimed" => entry.status = "Terminated"
    /\ vault' = [vault EXCEPT ![id] = entry]
    /\ entry \in Stream
    /\ vault[id].status # "Terminated"
    /\ \/ entry = [available |-> 0, status |-> "Terminated"]
       \/ entry.status = "Active" /\ entry.available > 0
    /\ UNCHANGED <<phase, backlog, ram, disk>>

\* Everything but the weights survives a transaction.
LEMMA GrowsInStep ==
    ASSUME Types, InStep, NEW id \in Ids, NEW entry, Grows(id, entry)
    PROVE  ChainTells' /\ HandledOnce' /\ \A x \in Ids : Grounded(x)'
<1>1. Len(chain) \in Nat /\ Len(chain') \in Nat /\ Len(chain') > Len(chain)
  BY DEF Types, ChainTypes, Grows
<1>2. /\ \A j \in 1..Len(chain) : j \in 1..Len(chain') /\ chain'[j] = chain[j]
      /\ \A j \in 1..Len(chain') : j \in 1..Len(chain) \/ j \in (Len(chain) + 1)..Len(chain')
  BY <1>1 DEF Grows
<1>3. \A i \in 1..Len(chain) : chain[i].id \in Ids
  <2>1. \A i \in 1..Len(chain) : chain[i] \in Log
    BY EntryIsLog DEF Types, ChainTypes
  <2> QED
    BY <2>1 DEF Log
<1>4. vault'[id] = entry /\ \A x \in Ids \ {id} : vault'[x] = vault[x]
  BY DEF Grows, Types, ChainTypes
<1>5. entry # Absent /\ \A x \in Ids : vault[x] # Absent => vault'[x] # Absent
  BY <1>4 DEF Grows, Absent
<1>6. \A x \in Ids : vault[x].status = "Terminated" => vault'[x].status = "Terminated"
  BY <1>4 DEF Grows
<1>7. ChainTells'
  <2>1. ASSUME NEW i \in 1..Len(chain')
        PROVE  /\ chain'[i].key = i
               /\ vault'[chain'[i].id] # Absent
               /\ chain'[i].kind = "PaycardProvisioned" => chain'[i].amount = Pool[chain'[i].id]
               /\ chain'[i].kind = "ResidualDeltaReclaimed" =>
                     vault'[chain'[i].id].status = "Terminated"
    <3>1. CASE i \in 1..Len(chain)
      BY <1>2, <1>3, <1>5, <1>6, <3>1 DEF InStep, ChainTells
    <3>2. CASE i \in (Len(chain) + 1)..Len(chain')
      BY <1>4, <1>5, <3>2 DEF Grows
    <3> QED
      BY <1>2, <3>1, <3>2
  <2>2. ASSUME NEW i \in 1..Len(chain'), NEW j \in 1..Len(chain'),
               chain'[i].kind = "PaycardProvisioned", chain'[j].kind = "PaycardProvisioned",
               chain'[i].id = chain'[j].id
        PROVE  i = j
    <3>1. CASE i \in 1..Len(chain) /\ j \in 1..Len(chain)
      BY <1>2, <2>2, <3>1 DEF InStep, ChainTells
    <3>2. \A k \in (Len(chain) + 1)..Len(chain') : chain'[k].kind = "PaycardProvisioned" =>
             k = Len(chain) + 1 /\ chain'[k].id = id /\ vault[id] = Absent
      BY <1>1 DEF Grows
    <3>3. \A k \in 1..Len(chain) : vault[chain'[k].id] # Absent
      BY <1>2 DEF InStep, ChainTells
    <3> QED
      BY <1>2, <2>2, <3>1, <3>2, <3>3
  <2>3. ASSUME NEW x \in Ids
        PROVE  \/ vault'[x] = Absent
               \/ vault'[x].status = "Active" /\ vault'[x].available > 0
               \/ vault'[x] = [available |-> 0, status |-> "Terminated"]
    BY <1>4 DEF Grows, InStep, ChainTells
  <2> QED
    BY <2>1, <2>2, <2>3 DEF ChainTells
<1>8. HandledOnce'
  <2>1. /\ UNCHANGED <<phase, backlog, processed, awaiting, writing, eventKeys, streams,
                       fileKeys, snapshot>>
    BY DEF Grows, ram, disk
  <2>2. \A l : OnChain(l) => OnChain(l)'
    <3>1. SUFFICES ASSUME NEW l, l.key \in 1..Len(chain), l = chain[l.key]
                   PROVE  l.key \in 1..Len(chain') /\ l = chain'[l.key]
      BY DEF OnChain
    <3> QED
      BY <1>2, <3>1
  <2>3. fileKeys \subseteq 1..Len(chain')
    BY <1>2 DEF InStep, HandledOnce
  <2>4. /\ \A i \in 1..Len(backlog) : OnChain(backlog[i])'
        /\ \A i \in 1..Len(awaiting) : OnChain(awaiting[i])'
        /\ writing # NoLog => OnChain(writing)'
    BY <2>1, <2>2 DEF InStep, HandledOnce, OnChain
  <2> QED
    BY <2>1, <2>3, <2>4 DEF InStep, HandledOnce, Running, OnChain
<1>9. ASSUME NEW x \in Ids PROVE Grounded(x)'
  <2>1. Reached' = Reached /\ Reached \subseteq 1..Len(chain) /\ snapshot' = snapshot
    BY DEF Grows, ram, disk, Reached, InStep, HandledOnce
  <2>2. Grounded(x)
    BY DEF InStep
  <2> QED
    BY <1>2, <1>5, <1>6, <2>1, <2>2 DEF Grounded
<1> QED
  BY <1>7, <1>8, <1>9

\* The weights of a stream follow the chain: of another paycard's logs they take
\* no notice, of its own one settlement at a time, and the end needs none.
LEMMA WeightFollows ==
    ASSUME Types, InStep, NEW id \in Ids, NEW entry, Grows(id, entry),
           NEW x \in Ids, NEW w, NEW v, NEW d \in Nat,
           Tally(w, chain, x), Tally(v, chain', x),
           vault[x] = Absent => w[1..Len(chain)] = 0,
           vault[x].status = "Active" =>
              /\ vault[x].available + w[1..Len(chain)] = Pool[x]
              /\ snapshot[x] # Absent => snapshot[x].available + w[Reached] >= Pool[x],
           \A K \in SUBSET (1..Len(chain)) : v[K] = w[K],
           v[1..Len(chain')] = w[1..Len(chain)] + d,
           x # id => d = 0,
           x = id /\ entry.status = "Active" =>
              \/ vault[id] = Absent /\ entry.available = Pool[id] /\ d = 0
              \/ vault[id].status = "Active" /\ entry.available + d = vault[id].available
    PROVE  Weighed(x)'
<1>1. /\ Reached' = Reached /\ Reached \in SUBSET (1..Len(chain)) /\ snapshot' = snapshot
  BY DEF Grows, ram, disk, Reached, InStep, HandledOnce
<1>2. v[Reached] = w[Reached]
  BY <1>1
<1>3. 1..Len(chain) \in SUBSET (1..Len(chain)) /\ w[1..Len(chain)] \in Nat
  BY DEF Tally
<1>4. CASE x # id
  <2>1. vault'[x] = vault[x] /\ v[1..Len(chain')] = w[1..Len(chain)]
    BY <1>3, <1>4 DEF Grows
  <2> QED
    BY <1>1, <1>2, <2>1 DEF Weighed
<1>5. CASE x = id
  <2>1. vault'[x] = entry
    BY <1>5 DEF Grows, Types, ChainTypes
  <2>2. entry # Absent
    BY DEF Grows, Absent
  <2>3. ASSUME entry.status = "Active"
        PROVE  /\ entry.available + v[1..Len(chain')] = Pool[x]
               /\ snapshot[x] # Absent => snapshot[x].available + v[Reached] >= Pool[x]
    <3>1. CASE vault[id] = Absent
      <4>1. snapshot[x] = Absent
        BY <1>5, <3>1 DEF InStep, Grounded
      <4>2. vault[id].status # "Active"
        BY <3>1 DEF Absent
      <4> QED
        BY <1>5, <2>3, <3>1, <4>1, <4>2
    <3>2. CASE vault[id].status = "Active"
      <4>1. vault[id] # Absent /\ entry.available + d = vault[id].available
        BY <1>5, <2>3, <3>2 DEF Absent
      <4>2. entry.available \in Int
        BY DEF Grows, Stream
      <4> QED
        BY <1>2, <1>3, <1>5, <3>2, <4>1, <4>2
    <3> QED
      BY <1>5, <2>3, <3>1, <3>2
  <2> QED
    BY <1>1, <2>1, <2>2, <2>3 DEF Weighed
<1> QED
  BY <1>4, <1>5

\* What InStep speaks of.
LEMMA SameInStep ==
    ASSUME InStep, UNCHANGED <<chain, vault, phase, backlog, ram, disk>>
    PROVE  InStep'
<1>1. UNCHANGED <<processed, awaiting, writing, eventKeys, streams, fileKeys, snapshot>>
  BY DEF ram, disk
<1>2. ChainTells'
  BY DEF InStep, ChainTells
<1>3. HandledOnce'
  BY <1>1 DEF InStep, HandledOnce, OnChain, Running
<1>4. ASSUME NEW id \in Ids PROVE Grounded(id)'
  BY <1>1 DEF InStep, Grounded, Reached
<1>5. ASSUME NEW id \in Ids PROVE Weighed(id)'
  <2>1. Weighed(id)
    BY DEF InStep
  <2> QED
    BY <1>1, <2>1 DEF Weighed, Reached, Tally
<1> QED
  BY <1>2, <1>3, <1>4, <1>5 DEF InStep

\* A transaction with one log.
LEMMA OneLogInStep ==
    ASSUME Types, KeysIntact, InStep, NEW id \in Ids, NEW e \in Log, NEW entry,
           Transaction(id, <<e>>, entry),
           e.key = mined + 1, e.id = id, vault[id].status # "Terminated",
           e.kind = "PaycardProvisioned" => vault[id] = Absent /\ e.amount = Pool[id],
           e.kind = "ResidualDeltaReclaimed" => entry.status = "Terminated",
           \/ entry = [available |-> 0, status |-> "Terminated"]
           \/ /\ entry.status = "Active" /\ entry.available > 0
              /\ \/ /\ vault[id] = Absent /\ entry.available = Pool[id]
                    /\ e.kind # "SettlementFlushed"
                 \/ /\ vault[id].status = "Active" /\ e.kind = "SettlementFlushed"
                    /\ entry.available + e.amount = vault[id].available
    PROVE  InStep'
<1>1. chain \in Seq(Log) /\ Len(chain) \in Nat /\ mined = Len(chain)
  BY DEF Types, ChainTypes, KeysIntact
<1>2. chain' = Append(chain, e)
  BY <1>1 DEF Transaction, Mine
<1>3. /\ Len(chain') = Len(chain) + 1 /\ chain'[Len(chain) + 1] = e
      /\ \A j \in 1..Len(chain) : chain'[j] = chain[j]
      /\ chain' \in Seq(Log)
  BY <1>1, <1>2
<1>4. \A j \in (Len(chain) + 1)..Len(chain') : j = Len(chain) + 1
  BY <1>1, <1>3
<1>5. Grows(id, entry)
  <2>1. ASSUME NEW j \in (Len(chain) + 1)..Len(chain')
        PROVE  /\ chain'[j] = e
               /\ e.key = j
               /\ Len(chain') = Len(chain) + 1
    BY <1>1, <1>3, <1>4
  <2>2. /\ vault' = [vault EXCEPT ![id] = entry] /\ entry \in Stream
        /\ UNCHANGED <<phase, backlog, ram, disk>>
    BY DEF Transaction, Mine
  <2>3. Len(chain') > Len(chain)
    BY <1>1, <1>3
  <2> QED
    BY <1>3, <2>1, <2>2, <2>3 DEF Grows
<1>6. ASSUME NEW x \in Ids PROVE Weighed(x)'
  <2>1. PICK w : /\ Tally(w, chain, x)
                 /\ vault[x] = Absent => w[1..Len(chain)] = 0
                 /\ vault[x].status = "Active" =>
                       /\ vault[x].available + w[1..Len(chain)] = Pool[x]
                       /\ snapshot[x] # Absent => snapshot[x].available + w[Reached] >= Pool[x]
    BY DEF InStep, Weighed
  <2>2. PICK v : /\ Tally(v, chain', x)
                 /\ \A K \in SUBSET (1..Len(chain)) : v[K] = w[K]
                 /\ v[1..Len(chain')] = w[1..Len(chain)] + Debit(e, x)
    BY <1>1, <1>2, <1>3, <2>1, TallyGrows
  <2>3. Debit(e, x) \in Nat /\ (x # id => Debit(e, x) = 0)
    BY DEF Debit, Log
  <2>4. x = id /\ entry.status = "Active" =>
           \/ vault[id] = Absent /\ entry.available = Pool[id] /\ Debit(e, x) = 0
           \/ vault[id].status = "Active" /\ entry.available + Debit(e, x) = vault[id].available
    BY DEF Debit
  <2> QED
    BY <1>5, <2>1, <2>2, <2>3, <2>4, WeightFollows
<1> QED
  BY <1>5, <1>6, GrowsInStep DEF InStep

\* A transaction that settles and reclaims.
LEMMA TwoLogsInStep ==
    ASSUME Types, KeysIntact, InStep, NEW id \in Ids, NEW e \in Log, NEW f \in Log,
           Transaction(id, <<e, f>>, [available |-> 0, status |-> "Terminated"]),
           e.key = mined + 1, f.key = mined + 2, e.id = id, f.id = id,
           e.kind = "SettlementFlushed", f.kind = "ResidualDeltaReclaimed",
           vault[id].status = "Active"
    PROVE  InStep'
<1> DEFINE entry == [available |-> 0, status |-> "Terminated"]
           c == Append(chain, e)
<1>1. chain \in Seq(Log) /\ Len(chain) \in Nat /\ mined = Len(chain)
  BY DEF Types, ChainTypes, KeysIntact
<1>2. /\ Len(c) = Len(chain) + 1 /\ c[Len(chain) + 1] = e /\ c \in Seq(Log)
      /\ \A j \in 1..Len(chain) : c[j] = chain[j]
  BY <1>1
<1>3. chain' = Append(c, f)
  BY <1>1 DEF Transaction, Mine
<1> HIDE DEF c
<1>4. /\ Len(chain') = Len(chain) + 2 /\ chain'[Len(chain) + 1] = e
      /\ chain'[Len(chain) + 2] = f
      /\ \A j \in 1..Len(chain) : chain'[j] = chain[j]
      /\ chain' \in Seq(Log)
  BY <1>1, <1>2, <1>3
<1>5. \A j \in (Len(chain) + 1)..Len(chain') : j = Len(chain) + 1 \/ j = Len(chain) + 2
  BY <1>1, <1>4
<1>6. Grows(id, entry)
  BY <1>1, <1>4, <1>5 DEF Grows, Transaction, Mine
<1>7. ASSUME NEW x \in Ids PROVE Weighed(x)'
  <2>1. PICK w : /\ Tally(w, chain, x)
                 /\ vault[x] = Absent => w[1..Len(chain)] = 0
                 /\ vault[x].status = "Active" =>
                       /\ vault[x].available + w[1..Len(chain)] = Pool[x]
                       /\ snapshot[x] # Absent => snapshot[x].available + w[Reached] >= Pool[x]
    BY DEF InStep, Weighed
  <2>2. PICK u : /\ Tally(u, c, x)
                 /\ \A K \in SUBSET (1..Len(chain)) : u[K] = w[K]
                 /\ u[1..Len(c)] = w[1..Len(chain)] + Debit(e, x)
    BY <1>1, <1>2, <2>1, TallyGrows DEF c
  <2>3. PICK v : /\ Tally(v, chain', x)
                 /\ \A K \in SUBSET (1..Len(c)) : v[K] = u[K]
                 /\ v[1..Len(chain')] = u[1..Len(c)] + Debit(f, x)
    BY <1>1, <1>2, <1>3, <1>4, <2>2, TallyGrows
  <2>4. \A K \in SUBSET (1..Len(chain)) : K \in SUBSET (1..Len(c))
    BY <1>1, <1>2
  <2>5. \A K \in SUBSET (1..Len(chain)) : v[K] = w[K]
    BY <2>2, <2>3, <2>4
  <2>6. Debit(e, x) \in Nat /\ Debit(f, x) = 0 /\ (x # id => Debit(e, x) = 0)
    BY DEF Debit, Log
  <2>7. w[1..Len(chain)] \in Nat
    BY <2>1 DEF Tally
  <2>8. v[1..Len(chain')] = w[1..Len(chain)] + Debit(e, x)
    BY <2>2, <2>3, <2>6, <2>7
  <2>9. entry.status # "Active"
    OBVIOUS
  <2> HIDE DEF entry
  <2> QED
    BY <1>6, <2>1, <2>3, <2>5, <2>6, <2>8, <2>9, WeightFollows
<1> QED
  BY <1>6, <1>7, GrowsInStep DEF InStep

\* The chain's steps.
LEMMA ChainInStep ==
    ASSUME Types, KeysIntact, InStep, ChainNext, ~Reorg
    PROVE  InStep'
<1>1. \A id \in Ids : vault[id] \in Stream /\ vault[id].available \in Nat /\ Pool[id] \in Nat \ {0}
  BY DEF Types, ChainTypes, Stream
<1>2. mined + 1 \in Nat \ {0} /\ mined + 2 \in Nat \ {0}
  BY DEF Types, ChainTypes
<1>3. ASSUME NEW id \in Ids, Provision(id) PROVE InStep'
  <2> DEFINE e == Entry(mined + 1, id, "PaycardProvisioned", Pool[id])
             entry == [available |-> Pool[id], status |-> "Active"]
  <2>1. Transaction(id, <<e>>, entry)
    BY <1>3, TransactionForms
  <2>2. e \in Log /\ e.key = mined + 1 /\ e.id = id /\ e.kind = "PaycardProvisioned"
        /\ e.amount = Pool[id]
    BY <1>1, <1>2 DEF Entry, Log, Kinds
  <2>3. vault[id] = Absent /\ vault[id].status # "Terminated"
    BY <1>3 DEF Provision, Absent
  <2>4. entry.status = "Active" /\ entry.available = Pool[id] /\ entry.available > 0
    BY <1>1
  <2> HIDE DEF e, entry
  <2> QED
    BY <2>1, <2>2, <2>3, <2>4, OneLogInStep
<1>4. ASSUME NEW id \in Ids, NEW amount \in 1..Pool[id], Settle(id, amount) PROVE InStep'
  <2> DEFINE e == Entry(mined + 1, id, "SettlementFlushed", amount)
             entry == Drained(id, amount)
  <2>1. Transaction(id, <<e>>, entry)
    BY <1>4, TransactionForms
  <2>2. e \in Log /\ e.key = mined + 1 /\ e.id = id /\ e.kind = "SettlementFlushed"
        /\ e.amount = amount
    BY <1>1, <1>2 DEF Entry, Log, Kinds
  <2>3. vault[id].status = "Active" /\ amount \in 1..vault[id].available
    BY <1>4 DEF Settle
  <2>4. \/ entry = [available |-> 0, status |-> "Terminated"]
        \/ /\ entry.status = "Active" /\ entry.available > 0
           /\ entry.available + amount = vault[id].available
    BY <1>1, <2>3 DEF Drained
  <2> HIDE DEF e, entry
  <2> QED
    BY <2>1, <2>2, <2>3, <2>4, OneLogInStep
<1>5. ASSUME NEW id \in Ids, Reclaim(id) PROVE InStep'
  <2> DEFINE e == Entry(mined + 1, id, "ResidualDeltaReclaimed", vault[id].available)
             entry == [available |-> 0, status |-> "Terminated"]
  <2>1. Transaction(id, <<e>>, entry)
    BY <1>5, TransactionForms
  <2>2. e \in Log /\ e.key = mined + 1 /\ e.id = id /\ e.kind = "ResidualDeltaReclaimed"
    BY <1>1, <1>2 DEF Entry, Log, Kinds
  <2>3. vault[id].status = "Active" /\ entry.status = "Terminated"
    BY <1>5 DEF Reclaim
  <2>4. entry = [available |-> 0, status |-> "Terminated"]
    OBVIOUS
  <2> HIDE DEF e, entry
  <2> QED
    BY <2>1, <2>2, <2>3, <2>4, OneLogInStep
<1>6. ASSUME NEW id \in Ids, NEW amount \in 1..Pool[id], SettleAndReclaim(id, amount)
      PROVE  InStep'
  <2> DEFINE e == Entry(mined + 1, id, "SettlementFlushed", amount)
             f == Entry(mined + 2, id, "ResidualDeltaReclaimed", vault[id].available - amount)
  <2>1. Transaction(id, <<e, f>>, [available |-> 0, status |-> "Terminated"])
    BY <1>6, TransactionForms
  <2>2. vault[id].status = "Active" /\ vault[id].available - amount \in Nat /\ amount \in Nat
    BY <1>1, <1>6 DEF SettleAndReclaim
  <2>3. e \in Log /\ e.key = mined + 1 /\ e.id = id /\ e.kind = "SettlementFlushed"
    BY <1>2, <2>2 DEF Entry, Log, Kinds
  <2>4. f \in Log /\ f.key = mined + 2 /\ f.id = id /\ f.kind = "ResidualDeltaReclaimed"
    BY <1>2, <2>2 DEF Entry, Log, Kinds
  <2> HIDE DEF e, f
  <2> QED
    BY <2>1, <2>2, <2>3, <2>4, TwoLogsInStep
<1>7. CASE ClockTick
  <2>1. UNCHANGED <<chain, vault, phase, backlog, ram, disk>>
    BY <1>7 DEF ClockTick
  <2> QED
    BY <2>1, SameInStep
<1> QED
  BY <1>3, <1>4, <1>5, <1>6, <1>7 DEF ChainNext

-----------------------------------------------------------------------------
(* Handlers, the timer and the end of the process.                         *)

\* A step that neither touches the chain, nor the snapshot, nor what it reflects.
LEMMA ViewSame ==
    ASSUME InStep, UNCHANGED <<chain, vault, snapshot>>, Reached' = Reached
    PROVE  ChainTells' /\ \A id \in Ids : Grounded(id)' /\ Weighed(id)'
<1>1. ChainTells'
  BY DEF InStep, ChainTells
<1>2. ASSUME NEW id \in Ids PROVE Grounded(id)'
  BY DEF InStep, Grounded
<1>3. ASSUME NEW id \in Ids PROVE Weighed(id)'
  <2>1. Weighed(id)
    BY DEF InStep
  <2> QED
    BY <2>1 DEF Weighed, Tally
<1> QED
  BY <1>1, <1>2, <1>3

\* No key is that of NoLog.
LEMMA NoKeyOfNoLog ==
    ASSUME Types, InStep
    PROVE  0 \notin fileKeys /\ NoLog.key = 0 /\ fileKeys \ {NoLog.key} = fileKeys
BY DEF InStep, HandledOnce, Types, ChainTypes, NoLog

\* A log that is met again waits once only.
LEMMA EnteredOnce ==
    ASSUME Types, InStep, Running, NEW l \in Log, OnChain(l), Enter(l), UNCHANGED chain
    PROVE  /\ \A i \in 1..Len(awaiting') :
                 OnChain(awaiting'[i]) /\ awaiting'[i].key \in processed' \ fileKeys
           /\ \A i, j \in 1..Len(awaiting') : awaiting'[i].key = awaiting'[j].key => i = j
<1>1. awaiting \in Seq(Log) /\ Len(awaiting) \in Nat
  BY DEF Types, RamTypes
<1>2. /\ \A i \in 1..Len(awaiting) :
            OnChain(awaiting[i]) /\ awaiting[i].key \in processed \ fileKeys
      /\ \A i, j \in 1..Len(awaiting) : awaiting[i].key = awaiting[j].key => i = j
      /\ eventKeys = fileKeys
  BY DEF InStep, HandledOnce
<1>3. processed' = processed \cup {l.key}
  BY DEF Enter
<1>4. CASE Seen(l)
  BY <1>2, <1>3, <1>4 DEF Enter
<1>5. CASE ~Seen(l)
  <2>1. awaiting' = Append(awaiting, l)
    BY <1>5 DEF Enter
  <2>2. /\ Len(awaiting') = Len(awaiting) + 1 /\ awaiting'[Len(awaiting) + 1] = l
        /\ \A i \in 1..Len(awaiting) : awaiting'[i] = awaiting[i]
    BY <1>1, <2>1
  <2>3. \A i \in 1..Len(awaiting') : i \in 1..Len(awaiting) \/ i = Len(awaiting) + 1
    BY <1>1, <2>2
  <2>4. l.key \notin processed /\ l.key \notin fileKeys
    BY <1>2, <1>5 DEF Seen
  <2> QED
    BY <1>2, <1>3, <2>2, <2>3, <2>4
<1> QED
  BY <1>4, <1>5

\* Steps that change neither what is on record nor the projection.
LEMMA QuietInStep ==
    ASSUME Types, InStep,
           \/ Fetch \/ BackfillNext \/ BackfillDone \/ BackfillAgain
           \/ Deliver \/ DeliverAgain \/ Miss
    PROVE  InStep'
<1>1. /\ UNCHANGED <<chain, vault, snapshot, writing, fileKeys, eventKeys, streams>>
      /\ Running /\ Running'
  BY DEF Fetch, BackfillNext, BackfillDone, BackfillAgain, Deliver, DeliverAgain, Miss,
         Idle, Running, chainVars, ram, disk
<1>2. ChainTells' /\ \A id \in Ids : Grounded(id)' /\ Weighed(id)'
  BY <1>1, ViewSame DEF Reached
<1>3. \A i \in 1..Len(chain) : OnChain(chain[i])
  BY DEF InStep, ChainTells, OnChain
<1>4. \A i \in 1..Len(backlog) : OnChain(backlog[i])
  BY DEF InStep, HandledOnce
<1>5. ASSUME \A i \in 1..Len(backlog') : OnChain(backlog'[i]),
             \A i \in 1..Len(awaiting') :
                OnChain(awaiting'[i]) /\ awaiting'[i].key \in processed' \ fileKeys,
             \A i, j \in 1..Len(awaiting') : awaiting'[i].key = awaiting'[j].key => i = j
      PROVE  InStep'
  <2>1. HandledOnce'
    BY <1>1, <1>5 DEF InStep, HandledOnce, OnChain
  <2> QED
    BY <1>2, <2>1 DEF InStep
<1>6. CASE UNCHANGED <<awaiting, processed>> /\ \A i \in 1..Len(backlog') : OnChain(backlog'[i])
  BY <1>5, <1>6 DEF InStep, HandledOnce
<1>7. CASE Fetch
  BY <1>3, <1>6, <1>7 DEF Fetch, LogsOnChain, ram
<1>8. CASE BackfillNext
  <2>1. /\ Head(backlog) \in Log /\ OnChain(Head(backlog))
        /\ \A i \in 1..Len(Tail(backlog)) : OnChain(Tail(backlog)[i])
    <3>1. backlog \in Seq(Log) /\ backlog # <<>>
      BY <1>8 DEF BackfillNext, Types, RamTypes
    <3>2. Head(backlog) = backlog[1] /\ 1 \in 1..Len(backlog) /\ Head(backlog) \in Log
      BY <3>1
    <3>3. \A i \in 1..Len(Tail(backlog)) :
             i + 1 \in 1..Len(backlog) /\ Tail(backlog)[i] = backlog[i + 1]
      BY <3>1
    <3> QED
      BY <1>4, <3>2, <3>3
  <2>2. backlog' = Tail(backlog) /\ Enter(Head(backlog))
    BY <1>8 DEF BackfillNext
  <2> QED
    BY <1>1, <1>5, <2>1, <2>2, EnteredOnce
<1>9. CASE BackfillDone \/ BackfillAgain \/ Miss
  BY <1>4, <1>6, <1>9 DEF BackfillDone, BackfillAgain, Miss, ram
<1>10. CASE Deliver
  <2>1. cursor \in 1..Len(chain)
    BY <1>10 DEF Deliver, Types, ChainTypes, RamTypes
  <2>2. chain[cursor] \in Log /\ OnChain(chain[cursor])
    BY <1>3, <2>1, EntryIsLog DEF Types, ChainTypes
  <2> QED
    BY <1>1, <1>4, <1>5, <1>10, <2>2, EnteredOnce DEF Deliver
<1>11. CASE DeliverAgain
  <2>1. cursor - 1 \in 1..Len(chain)
    BY <1>11 DEF DeliverAgain, Types, ChainTypes, RamTypes
  <2>2. chain[cursor - 1] \in Log /\ OnChain(chain[cursor - 1])
    BY <1>3, <2>1, EntryIsLog DEF Types, ChainTypes
  <2> QED
    BY <1>1, <1>4, <1>5, <1>11, <2>2, EnteredOnce DEF DeliverAgain
<1> QED
  BY <1>7, <1>8, <1>9, <1>10, <1>11

\* start() finds on the disk what the process will go on from.
LEMMA StartInStep ==
    ASSUME Types, InStep, Start
    PROVE  InStep'
<1>1. /\ UNCHANGED <<chain, vault, snapshot, writing, fileKeys, awaiting, backlog, processed>>
      /\ ~Running /\ Running'
      /\ eventKeys' = fileKeys /\ streams' = snapshot
  BY DEF Start, Running, chainVars, disk
<1>2. ChainTells' /\ \A id \in Ids : Grounded(id)' /\ Weighed(id)'
  BY <1>1, ViewSame DEF Reached
<1>3. HandledOnce'
  BY <1>1 DEF InStep, HandledOnce, OnChain
<1> QED
  BY <1>2, <1>3 DEF InStep

\* An event is recorded once, and not yet applied.
LEMMA RecordInStep ==
    ASSUME Types, InStep, NEW i \in 1..Len(awaiting), Record(i), KeysIntact'
    PROVE  InStep'
<1> DEFINE l == awaiting[i]
           q == RemoveAt(awaiting, i)
<1>1. awaiting \in Seq(Log) /\ Len(awaiting) \in Nat /\ l \in Log /\ l.key # 0
  <2>1. awaiting \in Seq(Log)
    BY DEF Types, RamTypes
  <2>2. l \in Log
    BY <2>1, EntryIsLog
  <2> QED
    BY <2>1, <2>2 DEF Log
<1>2. /\ UNCHANGED <<chain, vault, snapshot, streams, backlog, processed>>
      /\ Running /\ Running' /\ writing = NoLog /\ writing' = l /\ awaiting' = q
      /\ eventKeys' = eventKeys \cup {l.key}
  BY DEF Record, Idle, Running, chainVars
<1>3. fileKeys' = fileKeys \cup {l.key}
  <2>1. ~tornTail
    BY DEF Record, KeysIntact
  <2> QED
    BY <2>1 DEF Record
<1>4. l.key \notin fileKeys /\ OnChain(l)
  BY DEF InStep, HandledOnce
<1>5. Reached' = Reached
  BY <1>2, <1>3, <1>4, NoKeyOfNoLog DEF Reached
<1>6. ChainTells' /\ \A id \in Ids : Grounded(id)' /\ Weighed(id)'
  BY <1>2, <1>5, ViewSame
<1>7. /\ Len(q) = Len(awaiting) - 1
      /\ \A j \in 1..Len(q) : q[j] = IF j < i THEN awaiting[j] ELSE awaiting[j + 1]
  BY <1>1, Removed
<1>8. \A j \in 1..Len(q) : \E k \in 1..Len(awaiting) :
         k # i /\ q[j] = awaiting[k] /\ k = IF j < i THEN j ELSE j + 1
  <2>1. SUFFICES ASSUME NEW j \in 1..Len(q)
                 PROVE  \E k \in 1..Len(awaiting) :
                           k # i /\ q[j] = awaiting[k] /\ k = IF j < i THEN j ELSE j + 1
    OBVIOUS
  <2> HIDE DEF q, l
  <2>2. CASE j < i
    BY <1>1, <1>7, <2>2
  <2>3. CASE ~(j < i)
    <3>1. j + 1 \in 1..Len(awaiting) /\ j + 1 # i
      BY <1>1, <1>7, <2>3
    <3> QED
      BY <1>7, <2>3, <3>1
  <2> QED
    BY <2>2, <2>3
<1> HIDE DEF q
<1>9. /\ \A j \in 1..Len(awaiting) :
            OnChain(awaiting[j]) /\ awaiting[j].key \in processed \ fileKeys
      /\ \A j, k \in 1..Len(awaiting) : awaiting[j].key = awaiting[k].key => j = k
  BY DEF InStep, HandledOnce
<1>10. \A j \in 1..Len(q) : OnChain(q[j]) /\ q[j].key \in processed \ fileKeys'
  BY <1>3, <1>8, <1>9
<1>11. ASSUME NEW j \in 1..Len(q), NEW k \in 1..Len(q), q[j].key = q[k].key
       PROVE  j = k
  <2>1. PICK a \in 1..Len(awaiting) : q[j] = awaiting[a] /\ a = IF j < i THEN j ELSE j + 1
    BY <1>8
  <2>2. PICK b \in 1..Len(awaiting) : q[k] = awaiting[b] /\ b = IF k < i THEN k ELSE k + 1
    BY <1>8
  <2>3. a = b
    BY <1>9, <1>11, <2>1, <2>2
  <2>4. j \in Int /\ k \in Int /\ i \in Int
    BY <1>1
  <2> QED
    BY <2>1, <2>2, <2>3, <2>4
<1>12. HandledOnce'
  <2>1. l.key \in 1..Len(chain)
    BY <1>4 DEF OnChain
  <2> HIDE DEF l
  <2> QED
    BY <1>2, <1>3, <1>4, <1>10, <1>11, <2>1 DEF InStep, HandledOnce, OnChain
<1> QED
  BY <1>6, <1>12 DEF InStep

\* What applying the recorded event does to the snapshot and to memory: its
\* stream takes the effect, a provisioned one was not known before.
LEMMA ProjectView ==
    ASSUME Types, InStep, Project
    PROVE  /\ writing \in Log /\ writing.id \in Ids
           /\ writing.key \in fileKeys \ Reached
           /\ OnChain(writing)
           /\ writing' = NoLog
           /\ Reached' = Reached \cup {writing.key}
           /\ streams' = snapshot'
           /\ snapshot' = [snapshot EXCEPT ![writing.id] = Applied(writing, @)]
           /\ writing.kind = "PaycardProvisioned" => snapshot[writing.id] = Absent
<1>1. writing \in Log /\ writing # NoLog /\ writing.id \in Ids
  BY DEF Project, Types, RamTypes, Log
<1>2. OnChain(writing) /\ writing.key \in fileKeys /\ streams = snapshot
  BY <1>1 DEF InStep, HandledOnce, Project
<1>3. writing' = NoLog /\ fileKeys' = fileKeys
  BY DEF Project
<1>4. Reached' = Reached \cup {writing.key} /\ writing.key \notin Reached
  BY <1>2, <1>3, NoKeyOfNoLog DEF Reached
<1>5. streams' = [snapshot EXCEPT ![writing.id] = Applied(writing, @)]
  BY <1>2 DEF Project
<1>6. streams' = snapshot'
  <2>1. CASE Persists(writing)
    BY <2>1 DEF Project
  <2>2. CASE ~Persists(writing)
    <3>1. snapshot[writing.id] = Absent /\ writing.kind # "PaycardProvisioned"
      BY <1>2, <2>2 DEF Persists
    <3>2. Applied(writing, snapshot[writing.id]) = snapshot[writing.id]
      BY <3>1 DEF Applied
    <3>3. streams' = snapshot
      BY <1>1, <1>5, <3>2 DEF Types, DiskTypes
    <3> QED
      BY <2>2, <3>3 DEF Project
  <2> QED
    BY <2>1, <2>2
<1>7. ASSUME writing.kind = "PaycardProvisioned", snapshot[writing.id] # Absent
      PROVE  FALSE
  <2>1. PICK i \in Reached : chain[i].id = writing.id /\ chain[i].kind = "PaycardProvisioned"
    BY <1>1, <1>7 DEF InStep, Grounded
  <2>2. i \in 1..Len(chain)
    BY DEF Reached, InStep, HandledOnce
  <2>3. i = writing.key
    BY <1>2, <1>7, <2>1, <2>2 DEF InStep, ChainTells, OnChain
  <2> QED
    BY <1>4, <2>3
<1> QED
  BY <1>1, <1>2, <1>3, <1>4, <1>5, <1>6, <1>7

\* An event that is applied accounts for its own debit.
LEMMA ProjectInStep ==
    ASSUME Types, InStep, Project
    PROVE  InStep'
<1> DEFINE l == writing
           k == writing.key
<1>1. /\ l \in Log /\ l.id \in Ids
      /\ k \in fileKeys /\ k \notin Reached
      /\ k \in 1..Len(chain) /\ l = chain[k]
      /\ writing' = NoLog
      /\ Reached' = Reached \cup {k}
      /\ streams' = snapshot'
      /\ snapshot' = [snapshot EXCEPT ![l.id] = Applied(l, @)]
      /\ l.kind = "PaycardProvisioned" => snapshot[l.id] = Absent
  BY ProjectView DEF OnChain
<1>2. /\ UNCHANGED <<chain, vault, phase, backlog, processed, awaiting, eventKeys, fileKeys>>
      /\ Running
  BY DEF Project, chainVars
<1>3. ChainTells'
  BY <1>2 DEF InStep, ChainTells
<1>4. HandledOnce'
  BY <1>1, <1>2 DEF InStep, HandledOnce, OnChain, Running
<1>5. Reached \in SUBSET (1..Len(chain)) /\ Reached' \in SUBSET (1..Len(chain))
  BY <1>1 DEF Reached, InStep, HandledOnce
<1>6. snapshot \in [Ids -> Stream] /\ vault \in [Ids -> Stream]
  BY DEF Types, ChainTypes, DiskTypes
<1> HIDE DEF l, k
<1>7. ASSUME NEW x \in Ids PROVE Grounded(x)' /\ Weighed(x)'
  <2>1. Grounded(x) /\ Weighed(x)
    BY DEF InStep
  <2>2. PICK w : /\ Tally(w, chain, x)
                 /\ vault[x] = Absent => w[1..Len(chain)] = 0
                 /\ vault[x].status = "Active" =>
                       /\ vault[x].available + w[1..Len(chain)] = Pool[x]
                       /\ snapshot[x] # Absent => snapshot[x].available + w[Reached] >= Pool[x]
    BY <2>1 DEF Weighed
  <2>3. /\ w[Reached'] = w[Reached] + Debit(l, x)
        /\ w[Reached'] <= w[1..Len(chain)]
        /\ w[Reached] \in Nat /\ w[Reached'] \in Nat /\ w[1..Len(chain)] \in Nat
    <3>1. w[Reached \cup {k}] = w[Reached] + Debit(chain[k], x)
      BY <1>1, <1>5, <2>2 DEF Tally
    <3>2. 1..Len(chain) \in SUBSET (1..Len(chain))
      OBVIOUS
    <3> QED
      BY <1>1, <1>5, <2>2, <3>1, <3>2 DEF Tally
  <2>4. ASSUME vault[x].status = "Active", snapshot'[x] # Absent =>
                  snapshot'[x].available + w[Reached'] >= Pool[x]
        PROVE  Weighed(x)'
    BY <1>2, <2>2, <2>4 DEF Weighed
  <2>5. vault[x].status # "Active" => Weighed(x)'
    BY <1>2, <2>2 DEF Weighed
  <2>6. CASE x # l.id
    <3>1. snapshot'[x] = snapshot[x] /\ Debit(l, x) = 0
      BY <1>1, <1>6, <2>6 DEF Debit
    <3>2. Grounded(x)'
      BY <1>1, <1>2, <2>1, <3>1 DEF Grounded
    <3>3. w[Reached'] = w[Reached]
      BY <2>3, <3>1
    <3> QED
      BY <2>2, <2>4, <2>5, <3>1, <3>2, <3>3
  <2>7. CASE x = l.id
    <3>1. snapshot'[x] = Applied(l, snapshot[x]) /\ vault[x] # Absent
      BY <1>1, <1>6, <2>7 DEF InStep, ChainTells
    <3>2. snapshot[x] \in Stream /\ snapshot[x].available \in Nat /\ vault[x].available \in Nat
          /\ Pool[x] \in Nat /\ l.amount \in Nat
      BY <1>1, <1>6 DEF Stream, Log
    <3>3. CASE l.kind = "PaycardProvisioned"
      <4>1. snapshot'[x] = [available |-> l.amount, status |-> "Active"]
        BY <3>1, <3>3 DEF Applied
      <4>2. l.amount = Pool[x]
        BY <1>1, <2>7, <3>3 DEF InStep, ChainTells
      <4>3. Grounded(x)'
        BY <1>1, <1>2, <2>7, <3>1, <3>3, <4>1 DEF Grounded
      <4>4. snapshot'[x].available + w[Reached'] >= Pool[x]
        BY <2>3, <3>2, <4>1, <4>2
      <4> QED
        BY <2>4, <2>5, <4>3, <4>4
    <3>4. CASE l.kind # "PaycardProvisioned" /\ snapshot[x] = Absent
      <4>1. snapshot'[x] = Absent
        BY <3>1, <3>4 DEF Applied
      <4> QED
        BY <2>4, <2>5, <4>1 DEF Grounded
    <3>5. CASE l.kind = "SettlementFlushed" /\ snapshot[x] # Absent
      <4>1. snapshot'[x] = Debited(snapshot[x], l.amount)
        BY <3>1, <3>5 DEF Applied
      <4>2. Debit(l, x) = l.amount
        BY <2>7, <3>5 DEF Debit
      <4>3. CASE snapshot[x].available > l.amount
        <5>1. snapshot'[x].available = snapshot[x].available - l.amount
              /\ snapshot'[x].status = snapshot[x].status
          BY <3>2, <4>1, <4>3 DEF Debited, Stream
        <5>2. Grounded(x)'
          BY <1>1, <1>2, <2>1, <3>1, <3>5, <5>1 DEF Grounded
        <5>3. vault[x].status = "Active" => snapshot'[x].available + w[Reached'] >= Pool[x]
          BY <2>2, <2>3, <3>2, <3>5, <4>2, <5>1
        <5> QED
          BY <2>4, <2>5, <5>2, <5>3
      <4>4. CASE ~(snapshot[x].available > l.amount)
        <5>1. snapshot'[x] = [available |-> 0, status |-> "Terminated"]
          BY <4>1, <4>4 DEF Debited
        <5>2. vault[x].status # "Active"
          <6>1. SUFFICES ASSUME vault[x].status = "Active" PROVE FALSE
            OBVIOUS
          <6>2. vault[x].available + w[1..Len(chain)] = Pool[x]
                /\ snapshot[x].available + w[Reached] >= Pool[x]
            BY <2>2, <3>5, <6>1
          <6>3. vault[x].available > 0
            BY <6>1 DEF InStep, ChainTells, Absent
          <6> QED
            BY <2>3, <3>2, <4>2, <4>4, <6>2, <6>3
        <5>3. vault[x].status = "Terminated"
          BY <3>1, <5>2 DEF InStep, ChainTells
        <5>4. Grounded(x)'
          BY <1>1, <1>2, <2>1, <3>1, <3>5, <5>3 DEF Grounded
        <5> QED
          BY <2>5, <5>2, <5>4
      <4> QED
        BY <4>3, <4>4
    <3>6. CASE l.kind = "ResidualDeltaReclaimed" /\ snapshot[x] # Absent
      <4>1. vault[x].status = "Terminated"
        BY <1>1, <2>7, <3>6 DEF InStep, ChainTells
      <4>2. Grounded(x)'
        BY <1>1, <1>2, <2>1, <3>1, <3>6, <4>1 DEF Grounded
      <4> QED
        BY <2>5, <4>1, <4>2
    <3>7. l.kind \in Kinds
      BY <1>1 DEF Log
    <3> QED
      BY <3>3, <3>4, <3>5, <3>6, <3>7 DEF Kinds
  <2> QED
    BY <2>6, <2>7
<1> QED
  BY <1>3, <1>4, <1>7 DEF InStep

\* A sweep marks streams in memory and in the snapshot alike.
LEMMA SweepView ==
    ASSUME Types, InStep, SweepExpired
    PROVE  /\ streams' = snapshot'
           /\ \A x \in Ids : snapshot'[x] = snapshot[x] \/ snapshot'[x] = MarkExpired(snapshot[x])
<1>1. streams = snapshot
  BY DEF InStep, HandledOnce, SweepExpired, Idle
<1>2. streams' = snapshot'
  BY <1>1 DEF SweepExpired
<1>3. \A x \in Ids : streams'[x] = streams[x] \/ streams'[x] = MarkExpired(streams[x])
  BY DEF SweepExpired
<1> QED
  BY <1>1, <1>2, <1>3

\* Expiring takes nothing from a stream.
LEMMA SweepInStep ==
    ASSUME Types, InStep, SweepExpired
    PROVE  InStep'
<1>1. /\ UNCHANGED <<chain, vault, phase, backlog, processed, awaiting, eventKeys, fileKeys,
                     writing>>
      /\ streams' = snapshot' /\ Reached' = Reached /\ Running
  BY SweepView DEF SweepExpired, chainVars, Reached, Idle
<1>2. ChainTells' /\ HandledOnce'
  BY <1>1 DEF InStep, ChainTells, HandledOnce, OnChain, Running
<1>3. ASSUME NEW x \in Ids
      PROVE  /\ snapshot'[x] # Absent => snapshot[x] # Absent
             /\ snapshot'[x].available = snapshot[x].available
             /\ snapshot'[x].status = "Terminated" => snapshot[x].status = "Terminated"
  <2>1. snapshot[x] \in Stream
    BY DEF Types, DiskTypes
  <2>2. snapshot'[x] = snapshot[x] \/ snapshot'[x] = MarkExpired(snapshot[x])
    BY SweepView
  <2> QED
    BY <2>1, <2>2 DEF MarkExpired, Stream, Absent
<1>4. ASSUME NEW x \in Ids PROVE Grounded(x)'
  BY <1>1, <1>3 DEF InStep, Grounded
<1>5. ASSUME NEW x \in Ids PROVE Weighed(x)'
  <2>1. Weighed(x)
    BY DEF InStep
  <2> QED
    BY <1>1, <1>3, <2>1 DEF Weighed
<1> QED
  BY <1>2, <1>4, <1>5 DEF InStep

\* A process that ends leaves a snapshot that reflects no more than the file
\* records: the current one, or none.
LEMMA CrashInStep ==
    ASSUME Types, InStep, Crash \/ CrashBetweenWrites \/ CrashInSnapshot \/ CrashInAppend
    PROVE  InStep'
<1>1. /\ UNCHANGED <<chain, vault, fileKeys>>
      /\ ~Running' /\ awaiting' = <<>> /\ writing' = NoLog /\ backlog' = <<>>
      /\ streams' = Nothing
      /\ snapshot' = snapshot \/ snapshot' = Nothing
  BY DEF Crash, CrashBetweenWrites, CrashInSnapshot, CrashInAppend, Die, Running, chainVars, disk
<1>2. ChainTells' /\ HandledOnce'
  <2>1. ChainTells'
    BY <1>1 DEF InStep, ChainTells
  <2>2. Len(<<>>) = 0
    OBVIOUS
  <2> QED
    BY <1>1, <2>1, <2>2 DEF InStep, HandledOnce
<1>3. /\ Reached' = fileKeys /\ Reached \subseteq fileKeys
      /\ Reached \in SUBSET (1..Len(chain)) /\ fileKeys \in SUBSET (1..Len(chain))
  BY <1>1, NoKeyOfNoLog DEF Reached, InStep, HandledOnce
<1>4. \A x \in Ids : snapshot'[x] = snapshot[x] \/ snapshot'[x] = Absent
  BY <1>1 DEF Nothing
<1>5. ASSUME NEW x \in Ids PROVE Grounded(x)'
  BY <1>1, <1>3, <1>4 DEF InStep, Grounded
<1>6. ASSUME NEW x \in Ids PROVE Weighed(x)'
  <2>1. PICK w : /\ Tally(w, chain, x)
                 /\ vault[x] = Absent => w[1..Len(chain)] = 0
                 /\ vault[x].status = "Active" =>
                       /\ vault[x].available + w[1..Len(chain)] = Pool[x]
                       /\ snapshot[x] # Absent => snapshot[x].available + w[Reached] >= Pool[x]
    BY DEF InStep, Weighed
  <2>2. w[Reached] <= w[Reached'] /\ w[Reached] \in Nat /\ w[Reached'] \in Nat
    BY <1>3, <2>1 DEF Tally
  <2>3. snapshot[x].available \in Nat
    BY DEF Types, DiskTypes, Stream
  <2>4. Pool[x] \in Nat
    OBVIOUS
  <2> QED
    BY <1>1, <1>4, <2>1, <2>2, <2>3, <2>4 DEF Weighed
<1> QED
  BY <1>2, <1>5, <1>6 DEF InStep

-----------------------------------------------------------------------------
(* Theorems.                                                               *)

\* Nothing has happened yet.
LEMMA LedgerStart == Init => Ledger
<1> SUFFICES ASSUME Init PROVE Ledger
  OBVIOUS
<1>1. Types
  BY TypesStart
<1>2. Len(chain) = 0 /\ chain = <<>> /\ 1..Len(chain) = {}
  BY DEF Init
<1>3. ChainTells /\ HandledOnce
  BY <1>2 DEF Init, ChainTells, HandledOnce, Nothing, Running
<1>4. ASSUME NEW id \in Ids PROVE Grounded(id)
  BY DEF Init, Grounded, Nothing
<1>5. ASSUME NEW id \in Ids PROVE Weighed(id)
  <2> DEFINE w == [K \in SUBSET (1..Len(chain)) |-> 0]
  <2>1. Tally(w, chain, id)
    BY <1>2 DEF Tally
  <2>2. w[1..Len(chain)] = 0
    OBVIOUS
  <2>3. vault[id].status # "Active"
    BY DEF Init, Nothing, Absent
  <2> HIDE DEF w
  <2> QED
    BY <2>1, <2>2, <2>3 DEF Weighed
<1> QED
  BY <1>1, <1>3, <1>4, <1>5 DEF Ledger, InStep

\* Every step keeps the books while the keys stay intact.
LEMMA LedgerKept == Ledger /\ [Next]_vars => Ledger'
<1> SUFFICES ASSUME Ledger, [Next]_vars PROVE Ledger'
  OBVIOUS
<1>1. Types /\ Types'
  BY TypesKept DEF Ledger
<1> SUFFICES ASSUME KeysIntact' PROVE InStep'
  BY <1>1 DEF Ledger
<1>2. KeysIntact /\ ~Reorg /\ InStep
  BY <1>1, KeysStayBroken DEF Ledger
<1>3. ChainNext => InStep'
  BY <1>1, <1>2, ChainInStep
<1>4. UNCHANGED vars => InStep'
  BY <1>2, SameInStep DEF vars, ram, disk
<1>5. ASSUME NEW i \in 1..Len(awaiting), Record(i) PROVE InStep'
  BY <1>1, <1>2, <1>5, RecordInStep
<1>6. Start => InStep'
  BY <1>1, <1>2, StartInStep
<1>7. Fetch \/ BackfillNext \/ BackfillDone \/ BackfillAgain \/ Deliver \/ DeliverAgain \/ Miss
      => InStep'
  BY <1>1, <1>2, QuietInStep
<1>8. Project => InStep'
  BY <1>1, <1>2, ProjectInStep
<1>9. SweepExpired => InStep'
  BY <1>1, <1>2, SweepInStep
<1>10. Crash \/ CrashBetweenWrites \/ CrashInSnapshot \/ CrashInAppend => InStep'
  BY <1>1, <1>2, CrashInStep
<1> QED
  BY <1>3, <1>4, <1>5, <1>6, <1>7, <1>8, <1>9, <1>10 DEF Next

\* The inductive invariant: what is on the chain, on its way and on the disk, and
\* what of it the projection may reflect.
THEOREM LedgerAlways == Spec => []Ledger
BY LedgerStart, LedgerKept, PTL DEF Spec

\* What a stream was not debited for yet is at least what the vault still holds.
LEMMA LedgerBounds == Ledger => NeverUnderstated
<1> SUFFICES ASSUME Ledger, KeysIntact, NEW id \in Ids, NEW s \in {streams[id], snapshot[id]},
                    s # Absent
             PROVE  /\ vault[id] # Absent
                    /\ s.available >= vault[id].available
                    /\ s.status = "Terminated" => vault[id].status = "Terminated"
  BY DEF NeverUnderstated
<1>1. Types /\ InStep
  BY DEF Ledger
<1>2. s = snapshot[id]
  BY <1>1 DEF InStep, HandledOnce, Nothing
<1>3. vault[id] # Absent /\ (s.status = "Terminated" => vault[id].status = "Terminated")
  BY <1>1, <1>2 DEF InStep, Grounded
<1>4. s.available \in Nat /\ vault[id].available \in Nat /\ Pool[id] \in Nat
  BY <1>1, <1>2 DEF Types, ChainTypes, DiskTypes, Stream
<1>5. CASE vault[id].status = "Active"
  <2>1. PICK w : /\ Tally(w, chain, id)
                 /\ vault[id].available + w[1..Len(chain)] = Pool[id]
                 /\ s.available + w[Reached] >= Pool[id]
    BY <1>1, <1>2, <1>5 DEF InStep, Weighed
  <2>2. Reached \in SUBSET (1..Len(chain))
    BY <1>1 DEF Reached, InStep, HandledOnce
  <2>3. w[Reached] <= w[1..Len(chain)] /\ w[Reached] \in Nat /\ w[1..Len(chain)] \in Nat
    BY <2>1, <2>2 DEF Tally
  <2> QED
    BY <1>3, <1>4, <2>1, <2>3
<1>6. CASE vault[id].status # "Active"
  <2>1. vault[id].available = 0
    BY <1>1, <1>3, <1>6 DEF InStep, ChainTells
  <2> QED
    BY <1>3, <1>4, <2>1
<1> QED
  BY <1>5, <1>6

\* However logs are lost, repeated or overtaken and whenever the process ends,
\* the projection and the snapshot never show less than the vault holds.
THEOREM NeverUnderstatedAlways == Spec => []NeverUnderstated
BY LedgerAlways, LedgerBounds, PTL

\* The steps that write the snapshot carry every stream forward.
LEMMA SnapshotStep ==
    ASSUME Ledger, [Next]_vars, KeysIntact, NEW id \in Ids
    PROVE  /\ snapshot[id].status = "Terminated" => snapshot'[id].status \in {"Terminated", "Absent"}
           /\ snapshot[id].status = "PendingSettlement" => snapshot'[id].status # "Active"
<1>1. Types /\ InStep
  BY DEF Ledger
<1>2. snapshot[id] \in Stream
  BY <1>1 DEF Types, DiskTypes
<1>3. CASE snapshot' = snapshot
  BY <1>3
<1>4. CASE Project
  <2>1. CASE id # writing.id
    BY <1>1, <1>4, <2>1, ProjectView DEF Types, DiskTypes
  <2>2. CASE id = writing.id
    <3>1. snapshot'[id] = Applied(writing, snapshot[id])
      BY <1>1, <1>4, <2>2, ProjectView DEF Types, DiskTypes
    <3>2. writing.kind = "PaycardProvisioned" => snapshot[id] = Absent
      BY <1>1, <1>4, <2>2, ProjectView
    <3> QED
      BY <1>2, <3>1, <3>2 DEF Applied, Debited, Absent, Stream
  <2> QED
    BY <2>1, <2>2
<1>5. CASE SweepExpired
  <2>1. snapshot'[id] = snapshot[id] \/ snapshot'[id] = MarkExpired(snapshot[id])
    BY <1>1, <1>5, SweepView
  <2> QED
    BY <1>2, <2>1 DEF MarkExpired, Stream
<1>6. CASE CrashInSnapshot
  BY <1>6 DEF CrashInSnapshot, Nothing, Absent
<1>7. ChainNext => snapshot' = snapshot
  <2>1. \A x, logs, entry : Transaction(x, logs, entry) => snapshot' = snapshot
    BY DEF Transaction, Mine, disk
  <2>2. Reorg \/ ClockTick => snapshot' = snapshot
    BY DEF Reorg, ClockTick, disk
  <2> QED
    BY <1>1, <2>1, <2>2, ChainStepForms
<1>8. \A i \in 1..Len(awaiting) : Record(i) => snapshot' = snapshot
  BY DEF Record
<1>9. \/ Start \/ Fetch \/ BackfillNext \/ BackfillDone \/ BackfillAgain \/ Deliver
      \/ DeliverAgain \/ Miss \/ Crash \/ CrashBetweenWrites \/ CrashInAppend
      => snapshot' = snapshot
  BY DEF Start, Fetch, BackfillNext, BackfillDone, BackfillAgain, Deliver, DeliverAgain, Miss,
         Crash, CrashBetweenWrites, CrashInAppend, disk
<1>10. UNCHANGED vars => snapshot' = snapshot
  BY DEF vars
<1> QED
  BY <1>3, <1>4, <1>5, <1>6, <1>7, <1>8, <1>9, <1>10 DEF Next

\* A reader of the snapshot sees a stream's life go forward only.
THEOREM SnapshotMovesForwardAlways == Spec => SnapshotMovesForward
<1>1. Ledger /\ [Next]_vars =>
        [KeysIntact => \A id \in Ids :
          /\ snapshot[id].status = "Terminated" => snapshot'[id].status \in {"Terminated", "Absent"}
          /\ snapshot[id].status = "PendingSettlement" => snapshot'[id].status # "Active"]_vars
  BY SnapshotStep
<1> QED
  BY <1>1, LedgerAlways, PTL DEF Spec, SnapshotMovesForward

-----------------------------------------------------------------------------
(* The course of a stream over the chain, and how far the projection is in it. *)

\* The stream id after the log l.
After(l, s, id) == IF l.id = id THEN Applied(l, s) ELSE s

\* h is what the logs of the chain c make of the stream id, one by one.
Course(h, c, id) ==
    /\ h \in [0..Len(c) -> Stream]
    /\ h[0] = Absent
    /\ \A j \in 1..Len(c) : h[j] = After(c[j], h[j - 1], id)

\* The first n logs are on record; those that wait for their block, and those the
\* backfill and the subscription have still to report, follow in their order.
InTurn(n) ==
    /\ n \in 0..Len(chain) /\ fileKeys = 1..n
    /\ writing # NoLog => writing.key = n
    /\ processed \subseteq 1..(n + Len(awaiting))
    /\ \A i \in 1..Len(awaiting) : awaiting[i].key = n + i
    /\ Running /\ fetch = "idle" => cursor <= n + Len(awaiting) + 1
    /\ fetch = "applying" => \E b \in 0..(n + Len(awaiting)) :
          /\ \A i \in 1..Len(backlog) : backlog[i].key = b + i
          /\ cursor <= b + Len(backlog) + 1

\* How many of the first n logs the snapshot reflects.
Shown(n) == IF writing = NoLog THEN n ELSE n - 1

\* v is the end of the course of the stream id, s what its first n logs make of it.
Follows(c, v, s, n, id) ==
    \E h : Course(h, c, id) /\ h[Len(c)] = v /\ Faithful(s, h[n])

OnCourse(n) == \A id \in Ids : Follows(chain, vault[id], snapshot[id], Shown(n), id)

Following == KeysIntact /\ ~tornTail /\ \E n : InTurn(n) /\ OnCourse(n)

\* A handler keeps the projection faithful,
LEMMA AppliedFaithful ==
    ASSUME NEW l \in Log, NEW s \in Stream, NEW v \in Stream, Faithful(s, v)
    PROVE  Faithful(Applied(l, s), Applied(l, v))
<1>1. s = Absent <=> v = Absent
  BY DEF Faithful, Absent, Stream
<1>2. CASE l.kind = "PaycardProvisioned"
  BY <1>2 DEF Applied, Faithful
<1>3. CASE l.kind # "PaycardProvisioned" /\ s = Absent
  BY <1>1, <1>3 DEF Applied
<1>4. CASE l.kind = "SettlementFlushed" /\ s # Absent
  <2>1. Applied(l, s) = Debited(s, l.amount) /\ Applied(l, v) = Debited(v, l.amount)
    BY <1>1, <1>4 DEF Applied
  <2>2. s.available = v.available
    BY DEF Faithful
  <2>3. CASE s.available > l.amount
    <3>1. PICK rest : rest = s.available - l.amount
      OBVIOUS
    <3>2. /\ Debited(s, l.amount) = [s EXCEPT !.available = rest]
          /\ Debited(v, l.amount) = [v EXCEPT !.available = rest]
      BY <2>2, <2>3, <3>1 DEF Debited
    <3> QED
      BY <2>1, <3>2 DEF Faithful, Stream
  <2>4. CASE ~(s.available > l.amount)
    BY <2>1, <2>2, <2>4 DEF Debited, Faithful
  <2> QED
    BY <2>3, <2>4
<1>5. CASE l.kind = "ResidualDeltaReclaimed" /\ s # Absent
  BY <1>1, <1>5 DEF Applied, Faithful
<1> QED
  BY <1>2, <1>3, <1>4, <1>5 DEF Log, Kinds

\* and so does the timer.
LEMMA ExpiredFaithful ==
    ASSUME NEW s \in Stream, NEW v \in Stream, Faithful(s, v)
    PROVE  Faithful(MarkExpired(s), v)
BY DEF Faithful, MarkExpired, Stream

\* A stream after a log is a stream.
LEMMA AfterIsStream ==
    ASSUME NEW l \in Log, NEW s \in Stream, NEW id
    PROVE  After(l, s, id) \in Stream
BY AppliedIsStream DEF After

\* The course goes on with the chain.
LEMMA CourseGoesOn ==
    ASSUME NEW c \in Seq(Log), NEW e \in Log, NEW id, NEW h, Course(h, c, id)
    PROVE  \E g : /\ Course(g, Append(c, e), id)
                  /\ \A j \in 0..Len(c) : g[j] = h[j]
                  /\ g[Len(c) + 1] = After(e, h[Len(c)], id)
<1>1. PICK n \in Nat : n = Len(c)
  OBVIOUS
<1>2. /\ Len(Append(c, e)) = n + 1 /\ Append(c, e)[n + 1] = e
      /\ \A i \in 1..n : Append(c, e)[i] = c[i]
  BY <1>1
<1>3. /\ h \in [0..n -> Stream] /\ h[0] = Absent
      /\ \A j \in 1..n : h[j] = After(c[j], h[j - 1], id)
  BY <1>1 DEF Course
<1>4. PICK s \in Stream : s = After(e, h[n], id)
  <2>1. h[n] \in Stream
    BY <1>3
  <2> QED
    BY <2>1, AfterIsStream
<1>5. PICK g : g = [j \in 0..(n + 1) |-> IF j = n + 1 THEN s ELSE h[j]]
  OBVIOUS
<1>6. /\ g \in [0..(n + 1) -> Stream] /\ g[n + 1] = s
      /\ \A j \in 0..n : g[j] = h[j]
  BY <1>3, <1>4, <1>5
<1>7. ASSUME NEW j \in 1..(n + 1)
      PROVE  g[j] = After(Append(c, e)[j], g[j - 1], id)
  <2>1. CASE j = n + 1
    BY <1>2, <1>4, <1>6, <2>1
  <2>2. CASE j # n + 1
    <3>1. j \in 1..n /\ j - 1 \in 0..n /\ j \in 0..n
      BY <2>2
    <3> QED
      BY <1>2, <1>3, <1>6, <3>1
  <2> QED
    BY <2>1, <2>2
<1>8. Course(g, Append(c, e), id)
  BY <1>2, <1>3, <1>6, <1>7 DEF Course
<1> QED
  BY <1>1, <1>4, <1>6, <1>8


\* What followed the chain follows the longer chain.
LEMMA FollowsOn ==
    ASSUME NEW c \in Seq(Log), NEW e \in Log, NEW id, NEW v, NEW s, NEW n \in 0..Len(c),
           Follows(c, v, s, n, id)
    PROVE  Follows(Append(c, e), After(e, v, id), s, n, id)
<1>1. PICK h : Course(h, c, id) /\ h[Len(c)] = v /\ Faithful(s, h[n])
  BY DEF Follows
<1>2. PICK g : /\ Course(g, Append(c, e), id)
               /\ \A j \in 0..Len(c) : g[j] = h[j]
               /\ g[Len(c) + 1] = After(e, h[Len(c)], id)
  BY <1>1, CourseGoesOn
<1>3. Len(Append(c, e)) = Len(c) + 1
  OBVIOUS
<1> QED
  BY <1>1, <1>2, <1>3 DEF Follows

\* The snapshot lies within the chain.
LEMMA ShownBounds ==
    ASSUME Types, NEW n, InTurn(n)
    PROVE  Shown(n) \in 0..Len(chain) /\ n \in 0..Len(chain)
<1>1. writing # NoLog => writing.key \in Nat \ {0}
  BY DEF Types, RamTypes, Log
<1> QED
  BY <1>1 DEF InTurn, Shown

\* A transaction leaves everything on its way in its turn.
LEMMA TransactionInTurn ==
    ASSUME Types, NEW n, InTurn(n), KeysIntact, ~tornTail,
           NEW id \in Ids, NEW logs, NEW entry, Transaction(id, logs, entry)
    PROVE  InTurn(n)' /\ KeysIntact' /\ ~tornTail'
<1>1. Len(chain') = Len(chain) + Len(logs) /\ Len(logs) \in Nat /\ Len(chain) \in Nat
  BY DEF Transaction, Mine, Types, ChainTypes
<1>2. /\ UNCHANGED <<phase, fetch, backlog, cursor, ram, disk>>
      /\ mined' = mined + Len(logs)
  BY DEF Transaction, Mine
<1>3. n \in 0..Len(chain')
  BY <1>1 DEF InTurn
<1>4. InTurn(n)'
  BY <1>2, <1>3 DEF InTurn, Running, ram, disk
<1> QED
  BY <1>1, <1>2, <1>4 DEF KeysIntact, disk

\* A transaction with one log ends the courses where its log does.
LEMMA OneLogFollowing ==
    ASSUME Types, Following, NEW id \in Ids, NEW e \in Log, NEW entry,
           Transaction(id, <<e>>, entry), e.id = id, entry = Applied(e, vault[id])
    PROVE  Following'
<1>1. PICK n : InTurn(n) /\ OnCourse(n)
  BY DEF Following
<1>2. chain' = Append(chain, e) /\ chain \in Seq(Log)
  BY DEF Transaction, Mine, Types, ChainTypes
<1>3. \A x \in Ids : vault'[x] = After(e, vault[x], x)
  BY DEF After, Transaction, Mine, Types, ChainTypes
<1>4. UNCHANGED <<snapshot, writing>>
  BY DEF Transaction, Mine, ram, disk
<1>5. OnCourse(n)'
  <2>1. ASSUME NEW x \in Ids
        PROVE  Follows(Append(chain, e), After(e, vault[x], x), snapshot[x], Shown(n), x)
    BY <1>1, <1>2, ShownBounds, FollowsOn DEF OnCourse
  <2> QED
    BY <1>2, <1>3, <1>4, <2>1 DEF OnCourse, Shown
<1>6. InTurn(n)' /\ KeysIntact' /\ ~tornTail'
  BY <1>1, TransactionInTurn DEF Following
<1> QED
  BY <1>5, <1>6 DEF Following

\* A transaction with two logs.
LEMMA TwoLogsFollowing ==
    ASSUME Types, Following, NEW id \in Ids, NEW e \in Log, NEW f \in Log, NEW entry,
           Transaction(id, <<e, f>>, entry), e.id = id, f.id = id,
           entry = Applied(f, Applied(e, vault[id]))
    PROVE  Following'
<1>1. PICK n : InTurn(n) /\ OnCourse(n)
  BY DEF Following
<1>2. chain \in Seq(Log) /\ Append(chain, e) \in Seq(Log) /\ Len(chain) \in Nat
      /\ Len(Append(chain, e)) = Len(chain) + 1
  BY DEF Types, ChainTypes
<1>3. chain' = Append(Append(chain, e), f)
  BY <1>2 DEF Transaction, Mine
<1>4. \A x \in Ids : vault'[x] = After(f, After(e, vault[x], x), x)
  BY DEF After, Transaction, Mine, Types, ChainTypes
<1>5. UNCHANGED <<snapshot, writing>>
  BY DEF Transaction, Mine, ram, disk
<1>6. OnCourse(n)'
  <2>1. Shown(n) \in 0..Len(chain) /\ Shown(n) \in 0..(Len(chain) + 1)
    BY <1>1, <1>2, ShownBounds
  <2>2. ASSUME NEW x \in Ids
        PROVE  Follows(Append(Append(chain, e), f), After(f, After(e, vault[x], x), x),
                       snapshot[x], Shown(n), x)
    <3>1. Follows(Append(chain, e), After(e, vault[x], x), snapshot[x], Shown(n), x)
      BY <1>1, <1>2, <2>1, FollowsOn DEF OnCourse
    <3> QED
      BY <1>2, <2>1, <3>1, FollowsOn
  <2> QED
    BY <1>3, <1>4, <1>5, <2>2 DEF OnCourse, Shown
<1>7. InTurn(n)' /\ KeysIntact' /\ ~tornTail'
  BY <1>1, TransactionInTurn DEF Following
<1> QED
  BY <1>6, <1>7 DEF Following

\* A step that changes none of all this.
LEMMA SameFollowing ==
    ASSUME Following, UNCHANGED <<chain, mined, vault, phase, fetch, backlog, cursor, ram, disk>>
    PROVE  Following'
<1>1. PICK n : InTurn(n) /\ OnCourse(n)
  BY DEF Following
<1>2. InTurn(n)'
  BY <1>1 DEF InTurn, Running, ram, disk
<1>3. OnCourse(n)'
  BY <1>1 DEF OnCourse, Shown, ram, disk
<1> QED
  BY <1>2, <1>3 DEF Following, KeysIntact, disk

\* The vault's entry is what its logs make of it, whatever the transaction.
LEMMA ChainFollowing ==
    ASSUME Types, Following, ChainNext, ~Reorg
    PROVE  Following'
<1>1. \A id \in Ids : vault[id] \in Stream /\ vault[id].available \in Nat /\ Pool[id] \in Nat
  BY DEF Types, ChainTypes, Stream
<1>2. mined + 1 \in Nat \ {0} /\ mined + 2 \in Nat \ {0}
  BY DEF Types, ChainTypes
<1>3. ASSUME NEW id \in Ids, Provision(id) PROVE Following'
  <2> DEFINE e == Entry(mined + 1, id, "PaycardProvisioned", Pool[id])
             entry == [available |-> Pool[id], status |-> "Active"]
  <2>1. Transaction(id, <<e>>, entry)
    BY <1>3, TransactionForms
  <2>2. e \in Log /\ e.id = id
    BY <1>1, <1>2 DEF Entry, Log, Kinds
  <2>3. entry = Applied(e, vault[id])
    BY DEF Entry, Applied
  <2> HIDE DEF e, entry
  <2> QED
    BY <2>1, <2>2, <2>3, OneLogFollowing
<1>4. ASSUME NEW id \in Ids, NEW amount \in 1..Pool[id], Settle(id, amount) PROVE Following'
  <2> DEFINE e == Entry(mined + 1, id, "SettlementFlushed", amount)
             entry == Drained(id, amount)
  <2>1. Transaction(id, <<e>>, entry)
    BY <1>4, TransactionForms
  <2>2. e \in Log /\ e.id = id
    BY <1>1, <1>2 DEF Entry, Log, Kinds
  <2>3. entry = Applied(e, vault[id])
    <3>1. vault[id].status = "Active" /\ amount \in 1..vault[id].available
      BY <1>4 DEF Settle
    <3>2. Applied(e, vault[id]) = Debited(vault[id], amount)
      BY <3>1 DEF Applied, Entry, Absent
    <3>3. CASE amount = vault[id].available
      BY <1>1, <3>2, <3>3 DEF Drained, Debited
    <3>4. CASE amount # vault[id].available
      <4>1. vault[id].available > amount
        BY <1>1, <3>1, <3>4
      <4>2. PICK rest : rest = vault[id].available - amount
        OBVIOUS
      <4>3. entry = [available |-> rest, status |-> "Active"]
        BY <3>4, <4>2 DEF Drained
      <4>4. Debited(vault[id], amount) = [vault[id] EXCEPT !.available = rest]
        BY <4>1, <4>2 DEF Debited
      <4> QED
        BY <1>1, <3>1, <3>2, <4>3, <4>4 DEF Stream
    <3> QED
      BY <3>3, <3>4
  <2> HIDE DEF e, entry
  <2> QED
    BY <2>1, <2>2, <2>3, OneLogFollowing
<1>5. ASSUME NEW id \in Ids, Reclaim(id) PROVE Following'
  <2> DEFINE e == Entry(mined + 1, id, "ResidualDeltaReclaimed", vault[id].available)
             entry == [available |-> 0, status |-> "Terminated"]
  <2>1. Transaction(id, <<e>>, entry)
    BY <1>5, TransactionForms
  <2>2. e \in Log /\ e.id = id
    BY <1>1, <1>2 DEF Entry, Log, Kinds
  <2>3. entry = Applied(e, vault[id])
    BY <1>5 DEF Reclaim, Applied, Entry, Absent
  <2> HIDE DEF e, entry
  <2> QED
    BY <2>1, <2>2, <2>3, OneLogFollowing
<1>6. ASSUME NEW id \in Ids, NEW amount \in 1..Pool[id], SettleAndReclaim(id, amount)
      PROVE  Following'
  <2> DEFINE e == Entry(mined + 1, id, "SettlementFlushed", amount)
             f == Entry(mined + 2, id, "ResidualDeltaReclaimed", vault[id].available - amount)
             entry == [available |-> 0, status |-> "Terminated"]
  <2>1. Transaction(id, <<e, f>>, entry)
    BY <1>6, TransactionForms
  <2>2. vault[id].status = "Active" /\ amount \in Nat /\ vault[id].available - amount \in Nat
        /\ vault[id].available > amount
    BY <1>1, <1>6 DEF SettleAndReclaim
  <2>3. e \in Log /\ e.id = id
    BY <1>1, <1>2, <2>2 DEF Entry, Log, Kinds
  <2>4. f \in Log /\ f.id = id
    BY <1>1, <1>2, <2>2 DEF Entry, Log, Kinds
  <2>5. Applied(e, vault[id]).status = "Active"
    <3>1. Applied(e, vault[id]) = Debited(vault[id], amount)
      BY <2>2 DEF Applied, Entry, Absent
    <3>2. PICK rest : rest = vault[id].available - amount
      OBVIOUS
    <3>3. Debited(vault[id], amount) = [vault[id] EXCEPT !.available = rest]
      BY <2>2, <3>2 DEF Debited
    <3> QED
      BY <1>1, <2>2, <3>1, <3>3 DEF Stream
  <2>6. entry = Applied(f, Applied(e, vault[id]))
    <3>1. PICK s : s = Applied(e, vault[id]) /\ s # Absent
      BY <2>5 DEF Absent
    <3>2. entry = Applied(f, s)
      BY <3>1 DEF Applied, Entry
    <3> QED
      BY <3>1, <3>2
  <2> HIDE DEF e, f, entry
  <2> QED
    BY <2>1, <2>3, <2>4, <2>6, TwoLogsFollowing
<1>7. ClockTick => Following'
  BY SameFollowing DEF ClockTick
<1> QED
  BY <1>3, <1>4, <1>5, <1>6, <1>7 DEF ChainNext

-----------------------------------------------------------------------------
(* Logs on their way.                                                      *)

\* A log that is met is the next one, or one that was met before.
LEMMA EnteredInTurn ==
    ASSUME Types, InStep, Running, NEW n, InTurn(n), NEW l \in Log, OnChain(l), Enter(l),
           l.key <= n + Len(awaiting) + 1
    PROVE  /\ Len(awaiting') \in Nat /\ Len(awaiting) <= Len(awaiting')
           /\ l.key <= n + Len(awaiting')
           /\ processed' \subseteq 1..(n + Len(awaiting'))
           /\ \A i \in 1..Len(awaiting') : awaiting'[i].key = n + i
<1>1. /\ awaiting \in Seq(Log) /\ Len(awaiting) \in Nat /\ n \in Nat /\ l.key \in Nat \ {0}
      /\ processed' = processed \cup {l.key} /\ fileKeys = 1..n /\ eventKeys = fileKeys
      /\ processed \subseteq 1..(n + Len(awaiting))
      /\ \A i \in 1..Len(awaiting) : awaiting[i].key = n + i /\ awaiting[i].key \in processed
  <2>1. awaiting \in Seq(Log) /\ Len(awaiting) \in Nat /\ n \in Nat /\ l.key \in Nat \ {0}
    BY DEF Types, ChainTypes, RamTypes, InTurn, Log
  <2>2. processed' = processed \cup {l.key}
    BY DEF Enter
  <2>3. /\ fileKeys = 1..n /\ processed \subseteq 1..(n + Len(awaiting))
        /\ \A i \in 1..Len(awaiting) : awaiting[i].key = n + i
    BY DEF InTurn
  <2>4. eventKeys = fileKeys /\ \A i \in 1..Len(awaiting) : awaiting[i].key \in processed
    BY DEF InStep, HandledOnce
  <2> QED
    BY <2>1, <2>2, <2>3, <2>4
<1>2. PICK k \in Nat : k = Len(awaiting)
  BY <1>1
<1>3. CASE Seen(l)
  <2>1. awaiting' = awaiting
    BY <1>3 DEF Enter
  <2>2. l.key \in 1..(n + k)
    <3>1. CASE l.key \in processed
      BY <1>1, <1>2, <3>1
    <3>2. CASE l.key \in eventKeys
      BY <1>1, <1>2, <3>2
    <3> QED
      BY <1>3, <3>1, <3>2 DEF Seen
  <2>3. processed' \subseteq 1..(n + k)
    <3>1. processed \subseteq 1..(n + k) /\ processed' = processed \cup {l.key}
      BY <1>1, <1>2
    <3> QED
      BY <2>2, <3>1
  <2> QED
    BY <1>1, <1>2, <2>1, <2>2, <2>3
<1>4. CASE ~Seen(l)
  <2>1. awaiting' = Append(awaiting, l)
    BY <1>4 DEF Enter
  <2>2. l.key = n + k + 1
    <3>1. l.key \notin processed /\ l.key \notin 1..n
      BY <1>1, <1>4 DEF Seen
    <3>2. SUFFICES ASSUME l.key < n + k + 1 PROVE FALSE
      <4>1. l.key <= n + k + 1 /\ l.key \in Nat /\ n \in Nat
        BY <1>1, <1>2
      <4> QED
        BY <4>1
    <3>3. l.key - n \in 1..Len(awaiting) /\ n + (l.key - n) = l.key
      BY <1>1, <1>2, <3>1, <3>2
    <3>4. awaiting[l.key - n].key = l.key
      BY <1>1, <3>3
    <3> QED
      BY <1>1, <3>1, <3>3, <3>4
  <2>3. Len(awaiting') = k + 1 /\ awaiting'[k + 1] = l
        /\ \A i \in 1..k : awaiting'[i] = awaiting[i]
    BY <1>1, <1>2, <2>1
  <2>4. ASSUME NEW i \in 1..(k + 1) PROVE awaiting'[i].key = n + i
    <3>1. CASE i = k + 1
      BY <1>1, <2>2, <2>3, <3>1
    <3>2. CASE i # k + 1
      BY <1>1, <1>2, <2>3, <3>2
    <3> QED
      BY <3>1, <3>2
  <2>5. processed' \subseteq 1..(n + (k + 1))
    <3>1. processed \subseteq 1..(n + k) /\ processed' = processed \cup {l.key}
      BY <1>1, <1>2
    <3>2. 1..(n + k) \subseteq 1..(n + (k + 1)) /\ n + k + 1 \in 1..(n + (k + 1))
      BY <1>1
    <3> QED
      BY <2>2, <3>1, <3>2
  <2> QED
    BY <1>1, <1>2, <2>2, <2>3, <2>4, <2>5
<1> QED
  BY <1>3, <1>4

\* The backfill and the subscription keep the logs in their turn.
LEMMA QuietInTurn ==
    ASSUME Types, InStep, Hazards = {}, NEW n, InTurn(n),
           \/ Start \/ Fetch \/ BackfillNext \/ BackfillDone \/ BackfillAgain
           \/ Deliver \/ DeliverAgain
    PROVE  InTurn(n)'
<1>1. /\ awaiting \in Seq(Log) /\ Len(awaiting) \in Nat /\ n \in 0..Len(chain) /\ n \in Nat
      /\ chain \in Seq(Log) /\ Len(chain) \in Nat /\ backlog \in Seq(Log)
      /\ cursor \in Nat \ {0} /\ cursor <= Len(chain) + 1
  BY DEF Types, ChainTypes, RamTypes, InTurn
<1>2. /\ fileKeys = 1..n /\ (writing # NoLog => writing.key = n)
      /\ processed \subseteq 1..(n + Len(awaiting))
      /\ \A i \in 1..Len(awaiting) : awaiting[i].key = n + i
  BY DEF InTurn
<1>3. \A i \in 1..Len(chain) : chain[i].key = i /\ OnChain(chain[i]) /\ chain[i] \in Log
  BY <1>1 DEF InStep, ChainTells, OnChain
<1>4. CASE Start
  BY <1>1, <1>2, <1>4 DEF Start, InTurn, chainVars, disk
<1>5. CASE Fetch
  <2>1. backlog' = chain /\ UNCHANGED <<chain, fileKeys, writing, processed, awaiting, cursor>>
    BY <1>5 DEF Fetch, LogsOnChain, chainVars, ram, disk
  <2>2. 0 \in 0..(n + Len(awaiting)) /\ \A i \in 1..Len(chain) : chain[i].key = 0 + i
    BY <1>1, <1>3
  <2>3. cursor <= 0 + Len(chain) + 1
    BY <1>1
  <2>4. fetch' = "applying"
    BY <1>5 DEF Fetch
  <2> QED
    BY <1>1, <1>2, <2>1, <2>2, <2>3, <2>4 DEF InTurn
<1>6. CASE BackfillNext
  <2>1. PICK b \in 0..(n + Len(awaiting)) :
          /\ \A i \in 1..Len(backlog) : backlog[i].key = b + i
          /\ cursor <= b + Len(backlog) + 1
    BY <1>6 DEF BackfillNext, InTurn
  <2> DEFINE l == Head(backlog)
  <2>2. /\ backlog # <<>> /\ Enter(l) /\ backlog' = Tail(backlog) /\ Running
        /\ fetch' = "applying" /\ UNCHANGED <<chain, fileKeys, writing, cursor>>
    BY <1>6 DEF BackfillNext, Idle, chainVars, disk
  <2>3. /\ l = backlog[1] /\ 1 \in 1..Len(backlog) /\ Len(backlog') = Len(backlog) - 1
        /\ \A i \in 1..Len(backlog') : backlog'[i] = backlog[i + 1] /\ i + 1 \in 1..Len(backlog)
        /\ Len(backlog) \in Nat
    BY <1>1, <2>2
  <2>4. l \in Log /\ OnChain(l) /\ l.key = b + 1
    <3>1. l \in Log /\ l.key = b + 1
      BY <1>1, <2>1, <2>3
    <3> QED
      BY <2>3, <3>1 DEF InStep, HandledOnce
  <2> HIDE DEF l
  <2>5. l.key <= n + Len(awaiting) + 1 /\ b \in Nat
    BY <1>1, <2>1, <2>4
  <2>6. /\ Len(awaiting') \in Nat /\ l.key <= n + Len(awaiting')
        /\ processed' \subseteq 1..(n + Len(awaiting'))
        /\ \A i \in 1..Len(awaiting') : awaiting'[i].key = n + i
    BY <2>2, <2>4, <2>5, EnteredInTurn
  <2>7. b + 1 \in 0..(n + Len(awaiting'))
    BY <1>1, <2>4, <2>5, <2>6
  <2>8. \A i \in 1..Len(backlog') : backlog'[i].key = b + 1 + i
    BY <2>1, <2>3, <2>5
  <2>9. cursor <= b + 1 + Len(backlog') + 1
    BY <1>1, <2>1, <2>3, <2>5
  <2> QED
    BY <1>1, <1>2, <2>2, <2>6, <2>7, <2>8, <2>9 DEF InTurn
<1>7. CASE BackfillDone
  <2>1. PICK b \in 0..(n + Len(awaiting)) : cursor <= b + Len(backlog) + 1
    BY <1>7 DEF BackfillDone, InTurn
  <2>2. backlog = <<>> /\ UNCHANGED <<chain, fileKeys, writing, processed, awaiting, cursor>>
        /\ fetch' = "idle"
    BY <1>7 DEF BackfillDone, chainVars, ram, disk
  <2>3. cursor <= n + Len(awaiting) + 1
    BY <1>1, <2>1, <2>2
  <2> QED
    BY <1>1, <1>2, <2>2, <2>3 DEF InTurn
<1>8. CASE BackfillAgain
  BY <1>1, <1>2, <1>8 DEF BackfillAgain, InTurn, chainVars, ram, disk
<1>9. CASE Deliver
  <2>1. /\ fetch = "idle" /\ fetch' = "idle" /\ Running /\ cursor \in 1..Len(chain)
        /\ Enter(chain[cursor]) /\ cursor' = cursor + 1
        /\ UNCHANGED <<chain, fileKeys, writing, backlog>>
    BY <1>1, <1>9 DEF Deliver, Deliverable, Idle, chainVars, disk
  <2>2. cursor <= n + Len(awaiting) + 1
    BY <2>1 DEF InTurn
  <2>3. /\ Len(awaiting') \in Nat /\ cursor <= n + Len(awaiting')
        /\ processed' \subseteq 1..(n + Len(awaiting'))
        /\ \A i \in 1..Len(awaiting') : awaiting'[i].key = n + i
    BY <1>3, <2>1, <2>2, EnteredInTurn
  <2>4. cursor' <= n + Len(awaiting') + 1
    BY <1>1, <2>1, <2>3
  <2> QED
    BY <1>1, <1>2, <2>1, <2>3, <2>4 DEF InTurn
<1>10. CASE DeliverAgain
  <2>1. /\ fetch = "idle" /\ fetch' = "idle" /\ Running
        /\ chain[cursor - 1].key \in processed
        /\ Enter(chain[cursor - 1])
        /\ UNCHANGED <<chain, fileKeys, writing, backlog, cursor>>
    BY <1>10 DEF DeliverAgain, Deliverable, Idle, chainVars, disk
  <2>2. processed' = processed /\ awaiting' = awaiting
    BY <2>1 DEF Enter, Seen
  <2>3. cursor <= n + Len(awaiting) + 1
    BY <2>1 DEF InTurn
  <2> QED
    BY <1>1, <1>2, <2>1, <2>2, <2>3 DEF InTurn
<1> QED
  BY <1>4, <1>5, <1>6, <1>7, <1>8, <1>9, <1>10

\* The log at the front of the line is the next on record.
LEMMA RecordFollowing ==
    ASSUME Types, InStep, Hazards = {}, Following, NEW i \in 1..Len(awaiting), Record(i)
    PROVE  Following'
<1>1. PICK n : InTurn(n) /\ OnCourse(n)
  BY DEF Following
<1>2. /\ awaiting \in Seq(Log) /\ Len(awaiting) \in Nat /\ i = 1 /\ 1 \in 1..Len(awaiting)
      /\ awaiting[1] \in Log /\ n \in Nat
  <2>1. awaiting \in Seq(Log) /\ n \in Nat /\ i = 1
    BY <1>1 DEF Types, ChainTypes, RamTypes, InTurn, Record
  <2> QED
    BY <2>1, EntryIsLog
<1>3. PICK l \in Log : l = awaiting[1]
  BY <1>2
<1>4. l.key = n + 1 /\ n + 1 \in 0..Len(chain)
  <2>1. l.key = n + 1
    BY <1>1, <1>2, <1>3 DEF InTurn
  <2>2. l.key \in 1..Len(chain)
    BY <1>2, <1>3 DEF InStep, HandledOnce, OnChain
  <2> QED
    BY <1>2, <2>1, <2>2
<1>5. /\ UNCHANGED <<chain, mined, vault, phase, fetch, backlog, cursor, processed,
                     snapshot, unreadable>>
      /\ ~tornTail' /\ writing = NoLog /\ writing' = l /\ l # NoLog
      /\ fileKeys' = fileKeys \cup {n + 1}
  <2>1. l # NoLog
    BY <1>3 DEF Log, NoLog
  <2> QED
    BY <1>2, <1>3, <1>4, <2>1 DEF Record, Idle, Following, chainVars
<1>6. /\ Len(awaiting') = Len(awaiting) - 1
      /\ \A j \in 1..Len(awaiting') : awaiting'[j] = awaiting[j + 1]
  <2>1. awaiting' = RemoveAt(awaiting, 1)
    BY <1>2 DEF Record
  <2>2. /\ Len(RemoveAt(awaiting, 1)) = Len(awaiting) - 1
        /\ \A j \in 1..(Len(awaiting) - 1) :
              RemoveAt(awaiting, 1)[j] = IF j < 1 THEN awaiting[j] ELSE awaiting[j + 1]
    BY <1>2, Removed
  <2> QED
    BY <1>2, <2>1, <2>2
<1>7. InTurn(n + 1)'
  <2>1. fileKeys' = 1..(n + 1)
    <3>1. fileKeys = 1..n
      BY <1>1 DEF InTurn
    <3>2. (1..n) \cup {n + 1} = 1..(n + 1)
      BY <1>2
    <3> QED
      BY <1>5, <3>1, <3>2
  <2>2. n + 1 + Len(awaiting') = n + Len(awaiting)
    BY <1>2, <1>6
  <2>3. \A j \in 1..Len(awaiting') : awaiting'[j].key = n + 1 + j
    <3>1. \A j \in 1..Len(awaiting) : awaiting[j].key = n + j
      BY <1>1 DEF InTurn
    <3>2. \A j \in 1..Len(awaiting') : j + 1 \in 1..Len(awaiting) /\ n + (j + 1) = n + 1 + j
      BY <1>2, <1>6
    <3> QED
      BY <1>6, <3>1, <3>2
  <2> QED
    BY <1>1, <1>4, <1>5, <2>1, <2>2, <2>3 DEF InTurn, Running
<1>8. OnCourse(n + 1)'
  <2>1. Shown(n) = n /\ Shown(n + 1)' = n
    BY <1>2, <1>5 DEF Shown
  <2> QED
    BY <1>1, <1>5, <2>1 DEF OnCourse
<1>9. KeysIntact'
  BY <1>5 DEF Following, KeysIntact
<1> QED
  BY <1>5, <1>7, <1>8, <1>9 DEF Following

\* Its handler takes the snapshot one log further on every course.
LEMMA ProjectFollowing ==
    ASSUME Types, InStep, Following, Project
    PROVE  Following'
<1>1. PICK n : InTurn(n) /\ OnCourse(n)
  BY DEF Following
<1>2. PICK l : l = writing
  OBVIOUS
<1>3. /\ l \in Log /\ l.id \in Ids /\ l # NoLog /\ writing' = NoLog
      /\ snapshot' = [snapshot EXCEPT ![l.id] = Applied(l, @)]
      /\ l.key \in 1..Len(chain) /\ l = chain[l.key] /\ l.key = n
      /\ n \in 1..Len(chain) /\ n - 1 \in 0..Len(chain)
  <2>1. l # NoLog /\ l.key = n
    BY <1>1, <1>2 DEF Project, InTurn
  <2>2. /\ l \in Log /\ l.id \in Ids /\ OnChain(l) /\ writing' = NoLog
        /\ snapshot' = [snapshot EXCEPT ![l.id] = Applied(l, @)]
    BY <1>2, ProjectView
  <2>3. Len(chain) \in Nat
    BY DEF Types, ChainTypes
  <2> QED
    BY <2>1, <2>2, <2>3 DEF OnChain
<1>4. UNCHANGED <<chain, mined, vault, phase, fetch, backlog, cursor, processed, awaiting,
                  fileKeys, unreadable, tornTail>>
  BY DEF Project, chainVars
<1>5. InTurn(n)' /\ KeysIntact' /\ ~tornTail'
  <2>1. InTurn(n)'
    BY <1>1, <1>3, <1>4 DEF InTurn, Running
  <2> QED
    BY <1>4, <2>1 DEF Following, KeysIntact
<1>6. OnCourse(n)'
  <2>1. Shown(n) = n - 1 /\ Shown(n)' = n
    BY <1>2, <1>3 DEF Shown
  <2>2. chain \in Seq(Log) /\ snapshot \in [Ids -> Stream]
    BY DEF Types, ChainTypes, DiskTypes
  <2>3. ASSUME NEW id \in Ids PROVE Follows(chain, vault[id], snapshot'[id], n, id)
    <3>1. PICK h : /\ Course(h, chain, id) /\ h[Len(chain)] = vault[id]
                   /\ Faithful(snapshot[id], h[n - 1])
      BY <1>1, <2>1 DEF OnCourse, Follows
    <3>2. h[n] = After(l, h[n - 1], id) /\ h[n - 1] \in Stream
      BY <1>3, <3>1 DEF Course
    <3>3. snapshot'[id] = After(l, snapshot[id], id) /\ snapshot[id] \in Stream
      BY <1>3, <2>2 DEF After
    <3>4. Faithful(snapshot'[id], h[n])
      BY <1>3, <3>1, <3>2, <3>3, AppliedFaithful DEF After
    <3> QED
      BY <3>1, <3>4 DEF Follows
  <2> QED
    BY <1>4, <2>1, <2>3 DEF OnCourse
<1> QED
  BY <1>5, <1>6 DEF Following

\* The timer moves no stream off its course.
LEMMA SweepFollowing ==
    ASSUME Types, InStep, Following, SweepExpired
    PROVE  Following'
<1>1. PICK n : InTurn(n) /\ OnCourse(n)
  BY DEF Following
<1>2. UNCHANGED <<chain, mined, vault, phase, fetch, backlog, cursor, processed, awaiting,
                  writing, fileKeys, unreadable, tornTail>>
  BY DEF SweepExpired, chainVars
<1>3. InTurn(n)' /\ KeysIntact' /\ ~tornTail'
  BY <1>1, <1>2 DEF InTurn, Running, Following, KeysIntact
<1>4. OnCourse(n)'
  <2>1. Shown(n)' = Shown(n) /\ Shown(n) \in 0..Len(chain)
    BY <1>1, <1>2, ShownBounds DEF Shown
  <2>2. ASSUME NEW id \in Ids PROVE Follows(chain, vault[id], snapshot'[id], Shown(n), id)
    <3>1. PICK h : /\ Course(h, chain, id) /\ h[Len(chain)] = vault[id]
                   /\ Faithful(snapshot[id], h[Shown(n)])
      BY <1>1 DEF OnCourse, Follows
    <3>2. snapshot[id] \in Stream /\ h[Shown(n)] \in Stream
      BY <2>1, <3>1 DEF Types, DiskTypes, Course
    <3>3. Faithful(MarkExpired(snapshot[id]), h[Shown(n)])
      BY <3>1, <3>2, ExpiredFaithful
    <3>4. snapshot'[id] = snapshot[id] \/ snapshot'[id] = MarkExpired(snapshot[id])
      BY SweepView
    <3> QED
      BY <3>1, <3>3, <3>4 DEF Follows
  <2> QED
    BY <1>2, <2>1, <2>2 DEF OnCourse
<1> QED
  BY <1>3, <1>4 DEF Following

\* A process that ends between two handlers forgets what was on its way; the
\* snapshot reflects what the file records.
LEMMA CrashFollowing ==
    ASSUME Types, InStep, Following, Crash
    PROVE  Following'
<1>1. PICK n : InTurn(n) /\ OnCourse(n)
  BY DEF Following
<1>2. /\ UNCHANGED <<chain, mined, vault, writing, fileKeys, unreadable, tornTail, snapshot>>
      /\ processed' = {} /\ awaiting' = <<>> /\ ~Running' /\ fetch' = "idle"
  BY DEF Crash, Die, Idle, Running, chainVars, disk
<1>3. Len(<<>>) = 0
  OBVIOUS
<1>4. InTurn(n)'
  BY <1>1, <1>2, <1>3 DEF InTurn
<1>5. OnCourse(n)'
  BY <1>1, <1>2 DEF OnCourse, Shown
<1> QED
  BY <1>2, <1>4, <1>5 DEF Following, KeysIntact

\* Nothing has happened yet.
LEMMA FollowingStart == Init => Following
<1> SUFFICES ASSUME Init PROVE Following
  OBVIOUS
<1>1. chain = <<>> /\ Len(chain) = 0 /\ awaiting = <<>> /\ Len(awaiting) = 0
  BY DEF Init
<1>2. InTurn(0)
  BY <1>1 DEF Init, InTurn, Running
<1>3. OnCourse(0)
  <2>1. ASSUME NEW id \in Ids PROVE Follows(<<>>, Absent, Absent, 0, id)
    <3>1. PICK h : h = [j \in 0..0 |-> Absent]
      OBVIOUS
    <3>2. h[0] = Absent /\ h \in [0..0 -> Stream]
      BY <3>1 DEF Absent, Stream
    <3>3. Course(h, <<>>, id)
      BY <3>2 DEF Course
    <3> QED
      BY <3>2, <3>3 DEF Follows, Faithful
  <2> QED
    BY <2>1 DEF OnCourse, Shown, Init, Nothing
<1> QED
  BY <1>2, <1>3 DEF Following, KeysIntact, Init

\* Without a hazard, every step keeps the logs in turn and the streams on course.
LEMMA FollowingKept ==
    ASSUME Hazards = {}, Ledger, Following, [Next]_vars
    PROVE  Following'
<1>1. Types /\ InStep
  BY DEF Ledger, Following
<1>2. ~Reorg /\ ~Miss /\ ~CrashBetweenWrites /\ ~CrashInSnapshot /\ ~CrashInAppend
  BY DEF Reorg, Miss, CrashBetweenWrites, CrashInSnapshot, CrashInAppend
<1>3. ChainNext => Following'
  BY <1>1, <1>2, ChainFollowing
<1>4. ASSUME \/ Start \/ Fetch \/ BackfillNext \/ BackfillDone \/ BackfillAgain
             \/ Deliver \/ DeliverAgain
      PROVE  Following'
  <2>1. PICK n : InTurn(n) /\ OnCourse(n)
    BY DEF Following
  <2>2. InTurn(n)'
    BY <1>1, <1>4, <2>1, QuietInTurn
  <2>3. UNCHANGED <<chain, mined, vault, writing, unreadable, tornTail, snapshot>>
    BY <1>4 DEF Start, Fetch, BackfillNext, BackfillDone, BackfillAgain, Deliver, DeliverAgain,
                chainVars, ram, disk
  <2>4. OnCourse(n)'
    BY <2>1, <2>3 DEF OnCourse, Shown
  <2> QED
    BY <2>2, <2>3, <2>4 DEF Following, KeysIntact
<1>5. ASSUME NEW i \in 1..Len(awaiting), Record(i) PROVE Following'
  BY <1>1, <1>5, RecordFollowing
<1>6. Project => Following'
  BY <1>1, ProjectFollowing
<1>7. SweepExpired => Following'
  BY <1>1, SweepFollowing
<1>8. Crash => Following'
  BY <1>1, CrashFollowing
<1>9. UNCHANGED vars => Following'
  BY SameFollowing DEF vars, ram, disk
<1> QED
  BY <1>2, <1>3, <1>4, <1>5, <1>6, <1>7, <1>8, <1>9 DEF Next

\* The inductive invariant: without a hazard the logs are recorded in the order of
\* the chain, and the snapshot keeps to every stream's course.
THEOREM FollowingAlways ==
    ASSUME Hazards = {}
    PROVE  Spec => []Following
<1>1. Ledger /\ Following /\ [Next]_vars => Following'
  BY FollowingKept
<1> QED
  BY <1>1, FollowingStart, LedgerAlways, PTL DEF Spec

\* Once every log is on record the snapshot is at the end of every course.
LEMMA FollowingConverges == Ledger /\ Following => ConvergesToChain
<1> SUFFICES ASSUME Ledger, Following, AllRecorded, NEW id \in Ids
             PROVE  Faithful(streams[id], vault[id]) /\ Faithful(snapshot[id], vault[id])
  BY DEF ConvergesToChain
<1>1. PICK n : InTurn(n) /\ OnCourse(n)
  BY DEF Following
<1>2. Types /\ InStep /\ Running /\ writing = NoLog
  BY DEF Ledger, Following, AllRecorded, Idle
<1>3. streams = snapshot /\ eventKeys = 1..n
  BY <1>1, <1>2 DEF InStep, HandledOnce, InTurn
<1>4. Shown(n) = Len(chain)
  <2>1. n \in 0..Len(chain) /\ Len(chain) \in Nat
    BY <1>1, <1>2 DEF InTurn, Types, ChainTypes
  <2>2. \A i \in 1..Len(chain) : i \in 1..n
    BY <1>2, <1>3 DEF AllRecorded, InStep, ChainTells
  <2>3. n = Len(chain)
    BY <2>1, <2>2
  <2> QED
    BY <1>2, <2>3 DEF Shown
<1> QED
  BY <1>1, <1>3, <1>4 DEF OnCourse, Follows

\* Without a hazard, and whenever the process ends between two handlers: once
\* every log has been recorded, the projection and its snapshot are the vault.
THEOREM ConvergesToChainAlways ==
    ASSUME Hazards = {}
    PROVE  Spec => []ConvergesToChain
<1>1. Spec => []Following
  BY FollowingAlways
<1> QED
  BY <1>1, LedgerAlways, FollowingConverges, PTL
=============================================================================
