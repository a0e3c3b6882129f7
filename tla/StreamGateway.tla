---------------------------- MODULE StreamGateway ----------------------------
(***************************************************************************)
(* The stream gateway, stream-gateway/index.ts over the durable store of   *)
(* stream-gateway/state-store.ts: it follows the vault's logs, by live     *)
(* subscription and by backfill, into a projection of every stream.        *)
(*                                                                         *)
(* One process, one thread: a handler runs undisturbed up to its next      *)
(* await (the block lookup).  A failed lookup is an unhandled rejection or *)
(* a failed start(); both end the process, so both are Crash.              *)
(*                                                                         *)
(* Abstractions: checkpoints, the display-only projectedAvailableBalance,  *)
(* workflow tags and webhooks are left out; an event record is its key.    *)
(***************************************************************************)
EXTENDS Integers, SequencesExt

CONSTANTS
    Ids,        \* paycards
    Pool,       \* pool of each paycard
    Expiry,     \* genesis + lifespan; 0 for a one-shot payment
    Hazards,    \* what the environment may do, a subset of AllHazards
    MaxKey,     \* bound of the model: logs ever mined, re-mined ones included
    MaxClock,   \* bound of the model: last wall-clock second
    MaxCrashes  \* bound of the model

AllHazards ==
    {"overlap",   \* live logs arrive while a backfill runs
     "gap",       \* the live subscription misses a log
     "overtake",  \* block lookups answer out of order
     "kill",      \* the process dies between the two file writes of a handler
     "torn",      \* the process dies within an append to the event file
     "reorg"}     \* the last log is mined again, at another log index

ASSUME GatewayAssumption ==
    /\ Pool \in [Ids -> Nat \ {0}]
    /\ Expiry \in [Ids -> Nat]
    /\ Hazards \subseteq AllHazards
    /\ MaxKey \in Nat /\ MaxClock \in Nat /\ MaxCrashes \in Nat

VARIABLES
    \* the chain
    chain,      \* the vault's logs, oldest first
    mined,      \* log keys used so far
    vault,      \* what the vault's registry says of every paycard
    clock,
    \* the process
    phase,      \* "down", "starting" (start() before its timer), "up"
    fetch,      \* backfill(): "idle", "asked" (awaits getLogs), "applying"
    backlog,    \* logs the backfill has still to handle
    current,    \* key of the log whose handler the backfill awaits, or 0
    cursor,     \* next position of chain the subscription delivers
    processed,  \* processedLogKeys
    awaiting,   \* handlers awaiting their block lookup, oldest first
    writing,    \* the log whose handler has appended its event, or NoLog
    eventKeys,  \* the store's eventKeys
    streams,    \* the store's in-memory projection
    queue,      \* StreamTerminationQueue, paycards scheduled at their Expiry
    \* the disk
    fileKeys,   \* keys that stream-events.jsonl yields when it is read
    unreadable, \* keys on lines of it that load() skips
    tornTail,   \* its last line is a fragment without a newline
    snapshot,   \* what stream-state.json yields when it is read
    crashes

chainVars == <<chain, mined, vault, clock>>
ram  == <<processed, awaiting, writing, eventKeys, streams, queue>>
disk == <<fileKeys, unreadable, tornTail, snapshot>>
vars == <<chain, mined, vault, clock, phase, fetch, backlog, current, cursor,
          processed, awaiting, writing, eventKeys, streams, queue,
          fileKeys, unreadable, tornTail, snapshot, crashes>>

Kinds == {"PaycardProvisioned", "SettlementFlushed", "ResidualDeltaReclaimed"}
NoLog == [key |-> 0]

Absent == [available |-> 0, status |-> "Absent"]
Nothing == [id \in Ids |-> Absent]

Timed(id) == Expiry[id] > 0

-----------------------------------------------------------------------------
(* The vault and its logs.                                                 *)

Entry(k, id, kind, amount) ==
    [key |-> k, id |-> id, kind |-> kind, amount |-> amount]

\* The registry entry after paying out amount.
Drained(id, amount) ==
    [available |-> vault[id].available - amount,
     status |-> IF amount = vault[id].available THEN "Terminated" ELSE "Active"]

Mine(logs, id, entry) ==
    /\ mined + Len(logs) <= MaxKey
    /\ chain' = chain \o logs
    /\ mined' = mined + Len(logs)
    /\ vault' = [vault EXCEPT ![id] = entry]
    /\ UNCHANGED <<clock, phase, fetch, backlog, current, cursor, ram, disk, crashes>>

Provision(id) ==
    /\ vault[id] = Absent
    /\ Timed(id) => clock < Expiry[id]
    /\ Mine(<<Entry(mined + 1, id, "PaycardProvisioned", Pool[id])>>, id,
            [available |-> Pool[id], status |-> "Active"])

\* A one-shot payment settles all at once.
Settle(id, amount) ==
    /\ vault[id].status = "Active"
    /\ amount \in 1..vault[id].available
    /\ Timed(id) \/ amount = vault[id].available
    /\ Mine(<<Entry(mined + 1, id, "SettlementFlushed", amount)>>, id,
            Drained(id, amount))

\* A flush that finds nothing accrued; otherwise it settles first.
Reclaim(id) ==
    /\ vault[id].status = "Active" /\ Timed(id)
    /\ Mine(<<Entry(mined + 1, id, "ResidualDeltaReclaimed", vault[id].available)>>,
            id, [available |-> 0, status |-> "Terminated"])

SettleAndReclaim(id, amount) ==
    /\ vault[id].status = "Active" /\ Timed(id)
    /\ amount \in 1..(vault[id].available - 1)
    /\ Mine(<<Entry(mined + 1, id, "SettlementFlushed", amount),
              Entry(mined + 2, id, "ResidualDeltaReclaimed",
                    vault[id].available - amount)>>,
            id, [available |-> 0, status |-> "Terminated"])

\* The last transaction moves to another block, where its log has another
\* index; the subscription reports it again.
Reorg ==
    /\ "reorg" \in Hazards
    /\ chain # <<>> /\ mined < MaxKey
    /\ chain' = [chain EXCEPT ![Len(chain)].key = mined + 1]
    /\ mined' = mined + 1
    /\ cursor' = IF cursor > Len(chain) THEN Len(chain) ELSE cursor
    /\ UNCHANGED <<vault, clock, phase, fetch, backlog, current, ram, disk, crashes>>

ClockTick ==
    /\ clock < MaxClock
    /\ clock' = clock + 1
    /\ UNCHANGED <<chain, mined, vault, phase, fetch, backlog, current, cursor,
                   ram, disk, crashes>>

-----------------------------------------------------------------------------
(* What a handler does to the projection.                                  *)

Debited(s, amount) ==
    IF s.available > amount
    THEN [s EXCEPT !.available = @ - amount]
    ELSE [available |-> 0, status |-> "Terminated"]

\* Faulty: a residual is debited like a settlement but leaves the stream open.
AppliedOpen(l, s) ==
    IF l.kind = "PaycardProvisioned" THEN [available |-> l.amount, status |-> "Active"]
    ELSE IF s = Absent THEN s
    ELSE IF l.kind = "SettlementFlushed" THEN Debited(s, l.amount)
    ELSE [s EXCEPT !.available = 0]
\* onPaycardProvisioned, onSettlementFlushed, onResidualDeltaReclaimed.
Applied(l, s) ==
    IF l.kind = "PaycardProvisioned" THEN [available |-> l.amount, status |-> "Active"]
    ELSE IF s = Absent THEN s
    ELSE IF l.kind = "SettlementFlushed" THEN Debited(s, l.amount)
    ELSE [available |-> 0, status |-> "Terminated"]

\* Faulty: only one-shot payments are scheduled.
ScheduledWhenUntimed(l) ==
    IF l.kind = "PaycardProvisioned" /\ ~Timed(l.id) THEN queue \cup {l.id} ELSE queue
\* The termination queue after l: a provisioned stream is scheduled.
Scheduled(l) ==
    IF l.kind = "PaycardProvisioned" /\ Timed(l.id) THEN queue \cup {l.id} ELSE queue

\* Faulty: only this process's own keys are looked up.
SeenThisRun(l) == l.key \in processed
\* Idempotency by txHash:logIndex, in memory and in the event file.
Seen(l) == l.key \in processed \cup eventKeys

\* handleLog up to its await.
Enter(l) ==
    /\ processed' = processed \cup {l.key}
    /\ awaiting' = IF Seen(l) THEN awaiting ELSE Append(awaiting, l)

Running == phase # "down"
Idle == Running /\ writing = NoLog

\* handleLog once its block is known: the event is appended to the file; a line
\* glued to a torn fragment cannot be read back.
Record(i) ==
    /\ Idle
    /\ i = 1 \/ "overtake" \in Hazards
    /\ writing' = awaiting[i]
    /\ awaiting' = RemoveAt(awaiting, i)
    /\ eventKeys' = eventKeys \cup {awaiting[i].key}
    /\ fileKeys' = IF tornTail THEN fileKeys ELSE fileKeys \cup {awaiting[i].key}
    /\ unreadable' = IF tornTail THEN unreadable \cup {awaiting[i].key} ELSE unreadable
    /\ tornTail' = FALSE
    /\ UNCHANGED <<chainVars, phase, fetch, backlog, current, cursor, processed,
                   streams, queue, snapshot, crashes>>

\* Whether the handler calls set(): an unknown stream is left alone.
Persists(l) == l.kind = "PaycardProvisioned" \/ streams[l.id] # Absent

\* ... then the state changes and set() rewrites the snapshot.  No await lies
\* between the two, so only the end of the process can.
Project ==
    /\ Running
    /\ writing # NoLog
    /\ streams' = [streams EXCEPT ![writing.id] = Applied(writing, @)]
    /\ snapshot' = IF Persists(writing) THEN streams' ELSE snapshot
    /\ queue' = Scheduled(writing)
    /\ current' = IF current = writing.key THEN 0 ELSE current
    /\ writing' = NoLog
    /\ UNCHANGED <<chainVars, phase, fetch, backlog, cursor, processed, awaiting,
                   eventKeys, fileKeys, unreadable, tornTail, crashes>>

-----------------------------------------------------------------------------
(* Lifecycle, subscription and backfill.                                   *)

\* Faulty: expirations are scheduled by live logs only.
RescheduledNone(states) == {}
\* start() reschedules the active streams the store has loaded.
Rescheduled(states) ==
    {id \in Ids : states[id].status = "Active" /\ Timed(id)}

\* new PersistentFileStateStore and start() up to the backfill's first await.
Start ==
    /\ phase = "down"
    /\ phase' = "starting"
    /\ fetch' = "asked"
    /\ cursor' = Len(chain) + 1
    /\ eventKeys' = fileKeys
    /\ streams' = snapshot
    /\ queue' = Rescheduled(snapshot)
    /\ UNCHANGED <<chainVars, backlog, current, processed, awaiting, writing,
                   disk, crashes>>

\* Faulty: a restarted process only asks for logs from the head on.
LogsFromHead == <<>>
\* getLogs(fromBlock .. head), in block and log order.
LogsOnChain == chain

Fetch ==
    /\ Idle
    /\ fetch = "asked"
    /\ fetch' = "applying"
    /\ backlog' = LogsOnChain
    /\ UNCHANGED <<chainVars, phase, current, cursor, ram, disk, crashes>>

BackfillNext ==
    /\ Idle
    /\ fetch = "applying" /\ current = 0 /\ backlog # <<>>
    /\ Enter(Head(backlog))
    /\ current' = IF Seen(Head(backlog)) THEN 0 ELSE Head(backlog).key
    /\ backlog' = Tail(backlog)
    /\ UNCHANGED <<chainVars, phase, fetch, cursor, writing, eventKeys, streams,
                   queue, disk, crashes>>

BackfillDone ==
    /\ Idle
    /\ fetch = "applying" /\ current = 0 /\ backlog = <<>>
    /\ fetch' = "idle"
    /\ phase' = "up"
    /\ UNCHANGED <<chainVars, backlog, current, cursor, ram, disk, crashes>>

\* An operator runs backfill() again.
BackfillAgain ==
    /\ Idle
    /\ phase = "up" /\ fetch = "idle"
    /\ fetch' = "asked"
    /\ UNCHANGED <<chainVars, phase, backlog, current, cursor, ram, disk, crashes>>

Deliverable == fetch = "idle" \/ "overlap" \in Hazards

\* The subscription reports the next log.
Deliver ==
    /\ Idle /\ Deliverable
    /\ cursor <= Len(chain)
    /\ Enter(chain[cursor])
    /\ cursor' = cursor + 1
    /\ UNCHANGED <<chainVars, phase, fetch, backlog, current, writing, eventKeys,
                   streams, queue, disk, crashes>>

\* A second provider of the pool reports a log the first has reported.
DeliverAgain ==
    /\ Idle /\ Deliverable
    /\ cursor > 1 /\ chain[cursor - 1].key \in processed
    /\ Enter(chain[cursor - 1])
    /\ UNCHANGED <<chainVars, phase, fetch, backlog, current, cursor, writing,
                   eventKeys, streams, queue, disk, crashes>>

Miss ==
    /\ Running /\ "gap" \in Hazards
    /\ cursor <= Len(chain)
    /\ cursor' = cursor + 1
    /\ UNCHANGED <<chainVars, phase, fetch, backlog, current, ram, disk, crashes>>

\* Faulty: an expired stream is taken for terminated.
MarkTerminated(s) == IF s.status = "Active" THEN [s EXCEPT !.status = "Terminated"] ELSE s
MarkExpired(s) ==
    IF s.status = "Active" THEN [s EXCEPT !.status = "PendingSettlement"] ELSE s

\* What checkExpired returns.
Due == {id \in queue : Expiry[id] <= clock}

\* The timer: checkExpired empties the queue up to the clock, sweepExpired
\* marks what is still active.
SweepExpired ==
    /\ Idle /\ phase = "up"
    /\ Due # {}
    /\ queue' = queue \ Due
    /\ streams' = [id \in Ids |-> IF id \in Due THEN MarkExpired(streams[id])
                                  ELSE streams[id]]
    /\ snapshot' = IF streams' = streams THEN snapshot ELSE streams'
    /\ UNCHANGED <<chainVars, phase, fetch, backlog, current, cursor, processed,
                   awaiting, writing, eventKeys, fileKeys, unreadable, tornTail, crashes>>

-----------------------------------------------------------------------------
(* The end of the process.                                                 *)

Die ==
    /\ crashes < MaxCrashes
    /\ crashes' = crashes + 1
    /\ phase' = "down" /\ fetch' = "idle" /\ backlog' = <<>> /\ current' = 0
    /\ processed' = {} /\ awaiting' = <<>> /\ writing' = NoLog
    /\ eventKeys' = {} /\ streams' = Nothing /\ queue' = {}
    /\ UNCHANGED <<chainVars, cursor>>

\* A failed block lookup, or an end between two handlers.
Crash ==
    /\ Idle
    /\ Die
    /\ UNCHANGED disk

\* Between the append and the snapshot.
CrashBetweenWrites ==
    /\ Running /\ "kill" \in Hazards
    /\ writing # NoLog
    /\ Die
    /\ UNCHANGED disk

\* Within the rewriting of the snapshot, by a handler or by the sweep; load()
\* makes nothing of what is left.
CrashInSnapshot ==
    /\ Running /\ "kill" \in Hazards
    /\ \/ writing # NoLog /\ Persists(writing)
       \/ Idle /\ phase = "up" /\ \E id \in Due : streams[id].status = "Active"
    /\ Die
    /\ snapshot' = Nothing
    /\ UNCHANGED <<fileKeys, unreadable, tornTail>>

CrashInAppend ==
    /\ Idle /\ "torn" \in Hazards
    /\ awaiting # <<>>
    /\ Die
    /\ tornTail' = TRUE
    /\ UNCHANGED <<fileKeys, unreadable, snapshot>>

-----------------------------------------------------------------------------

Init ==
    /\ chain = <<>> /\ mined = 0 /\ vault = Nothing /\ clock = 0
    /\ phase = "down" /\ fetch = "idle" /\ backlog = <<>> /\ current = 0
    /\ cursor = 1
    /\ processed = {} /\ awaiting = <<>> /\ writing = NoLog
    /\ eventKeys = {} /\ streams = Nothing /\ queue = {}
    /\ fileKeys = {} /\ unreadable = {} /\ tornTail = FALSE /\ snapshot = Nothing
    /\ crashes = 0

ChainNext ==
    \/ ClockTick
    \/ Reorg
    \/ \E id \in Ids :
          \/ Provision(id)
          \/ Reclaim(id)
          \/ \E amount \in 1..Pool[id] :
                Settle(id, amount) \/ SettleAndReclaim(id, amount)

Next ==
    \/ ChainNext
    \/ Start \/ Fetch \/ BackfillNext \/ BackfillDone \/ BackfillAgain
    \/ Deliver \/ DeliverAgain \/ Miss
    \/ \E i \in 1..Len(awaiting) : Record(i)
    \/ Project
    \/ SweepExpired
    \/ Crash \/ CrashBetweenWrites \/ CrashInSnapshot \/ CrashInAppend

Spec == Init /\ [][Next]_vars

\* A supervisor restarts the process, the RPC endpoint answers, the event loop
\* and the timer keep turning; time passes.  Nothing is asked of the vault's
\* users or of the operator.
Fairness ==
    /\ WF_vars(Start) /\ WF_vars(Fetch) /\ WF_vars(BackfillNext)
    /\ WF_vars(BackfillDone) /\ WF_vars(Deliver) /\ WF_vars(Project)
    /\ WF_vars(\E i \in 1..Len(awaiting) : Record(i))
    /\ WF_vars(SweepExpired) /\ WF_vars(ClockTick)

FairSpec == Spec /\ Fairness

-----------------------------------------------------------------------------
(* What must hold.                                                         *)

\* The projection of a paycard says what the vault says; a stream past its
\* expiry may be waiting for the settlement that the vault has not seen yet.
Faithful(s, v) ==
    /\ s.available = v.available
    /\ s.status = v.status \/ (s.status = "PendingSettlement" /\ v.status = "Active")

\* Every log of the chain has been recorded and none is being handled.
AllRecorded ==
    /\ Idle /\ awaiting = <<>>
    /\ \A i \in 1..Len(chain) : chain[i].key \in eventKeys

\* Whatever crashed, was reported twice or was backfilled again before: once
\* every log has been recorded, the projection and its snapshot are the vault.
ConvergesToChain ==
    AllRecorded => \A id \in Ids :
        /\ Faithful(streams[id], vault[id])
        /\ Faithful(snapshot[id], vault[id])

\* Every event has kept one key: none was mined again, none is illegible.
KeysIntact == mined = Len(chain) /\ unreadable = {}

\* However logs are ordered, lost or cut off by crashes, the projection errs on
\* one side only as long as the idempotency keys are intact: it knows no stream
\* the vault does not know, shows no less than the vault holds and calls nothing
\* terminated that still runs.
NeverUnderstated ==
    KeysIntact => \A id \in Ids : \A s \in {streams[id], snapshot[id]} :
        s # Absent =>
            /\ vault[id] # Absent
            /\ s.available >= vault[id].available
            /\ s.status = "Terminated" => vault[id].status = "Terminated"

\* The timer never forgets a stream: whatever is active and will expire is in
\* the termination queue, across restarts and replays.
ActiveIsScheduled ==
    Running => \A id \in Ids :
        streams[id].status = "Active" /\ Timed(id) => id \in queue

\* Whoever reads the snapshot sees a stream's life go forward only, and loses
\* sight of it in a corrupt snapshot only: it neither leaves Terminated nor
\* returns from PendingSettlement to Active, as long as the keys are intact.
SnapshotMovesForward ==
    [][KeysIntact => \A id \in Ids :
          /\ snapshot[id].status = "Terminated" => snapshot'[id].status \in {"Terminated", "Absent"}
          /\ snapshot[id].status = "PendingSettlement" => snapshot'[id].status # "Active"]_vars

\* Once the last crash is past the projection settles on the vault for good.
EventuallyInStep ==
    <>[](\A id \in Ids : Faithful(streams[id], vault[id]))

\* A stream that has expired does not stay Active in the projection.
ExpiryNoticed ==
    \A id \in Ids :
        streams[id].status = "Active" /\ Timed(id) /\ Expiry[id] <= clock
            ~> streams[id].status # "Active"

=============================================================================
