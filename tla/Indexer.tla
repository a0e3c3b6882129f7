------------------------------- MODULE Indexer -------------------------------
(***************************************************************************)
(* The indexer worker, workers/indexer-worker/src/index.ts: a cron tick    *)
(* discovers vaults from the factory's log, then scans the log of every    *)
(* watched vault into the D1 tables.  POST /tick starts the same tick by   *)
(* hand, beside the cron's.  Every D1 statement and every RPC call is      *)
(* atomic; a tick awaits each of them, so ticks interleave there.          *)
(*                                                                         *)
(* Abstractions: a vault holds one paycard (rows of different paycards do  *)
(* not interact); terms, timestamps and the read-only routes are left out; *)
(* D1 returns the watched vaults in the order they were inserted in.       *)
(***************************************************************************)
EXTENDS Integers, SequencesExt

CONSTANTS
    Canonical,   \* OPENRAILS_HUB_ADDRESS
    Clones,      \* vaults the factory may deploy
    Factory,     \* the scan key of the factory's log
    Ticks,       \* invocations that may run side by side
    Cron,        \* the one the schedule starts again and again
    Pool,        \* pool allocation of a paycard
    Window,      \* SCAN_WINDOW_BLOCKS
    MaxChunks,   \* MAX_CHUNKS_PER_TICK
    Backfill,    \* INITIAL_BACKFILL_BLOCKS
    MaxHead,     \* bound of the model: the last block
    MaxByHand,   \* bound of the model: ticks started by hand
    MaxFailures  \* bound of the model: ticks that end half way

Vaults == {Canonical} \cup Clones
ScanKeys == Vaults \cup {Factory}

ASSUME IndexerAssumption ==
    /\ Canonical \notin Clones /\ Factory \notin Vaults
    /\ Cron \in Ticks
    /\ {Pool, Window, MaxChunks} \subseteq Nat \ {0}
    /\ {Backfill, MaxHead, MaxByHand, MaxFailures} \subseteq Nat

VARIABLES
    \* the chain
    head,       \* number of the last block
    deployedAt, \* block of a vault's CorporateVaultDeployed, or 0
    logs,       \* the paycard logs of every vault, oldest first
    registry,   \* the paycard as the vault's contract has it
    \* the database
    watched,    \* idx_watched_vaults
    cursor,     \* idx_scan_cursors, Unscanned where there is no row
    recorded,   \* idx_stream_events: positions in logs[v]
    row,        \* idx_paycard_state
    \* the invocations
    tick,
    byHand,     \* ticks started by hand so far
    failures,   \* ticks that ended half way
    \* history
    since,      \* the last block a scan of a log without a cursor began at
    disturbed   \* vaults with a mutation cut off, overlapped or overtaken

chain == <<head, deployedAt, logs, registry>>
database == <<watched, cursor, recorded, row>>
vars == <<head, deployedAt, logs, registry, watched, cursor, recorded, row,
          tick, byHand, failures, since, disturbed>>

Unscanned == -1
NoRow == [available |-> 0, status |-> "none"]
Card(n) == [available |-> n, status |-> IF n = 0 THEN "Terminated" ELSE "Active"]
Event(kind, amount) == [block |-> head + 1, kind |-> kind, amount |-> amount]

NoTick == [at |-> "idle", vault |-> Factory, head |-> 0, used |-> 0, from |-> 0,
           to |-> 0, fresh |-> FALSE, batch |-> {}, todo |-> <<>>, balance |-> 0]

-----------------------------------------------------------------------------
(* The chain: one transaction to a block, or none.                         *)

Mined(v, events, card) ==
    /\ head < MaxHead
    /\ head' = head + 1
    /\ logs' = [logs EXCEPT ![v] = @ \o events]
    /\ registry' = [registry EXCEPT ![v] = card]
    /\ UNCHANGED <<deployedAt, database, tick, byHand, failures, since, disturbed>>

MineEmpty == Mined(Canonical, <<>>, registry[Canonical])

Deploy(v) ==
    /\ head < MaxHead /\ deployedAt[v] = 0
    /\ head' = head + 1
    /\ deployedAt' = [deployedAt EXCEPT ![v] = head + 1]
    /\ UNCHANGED <<logs, registry, database, tick, byHand, failures, since, disturbed>>

Exists(v) == v = Canonical \/ deployedAt[v] > 0

Provision(v) ==
    /\ Exists(v) /\ registry[v] = NoRow
    /\ Mined(v, <<Event("provisioned", Pool)>>, Card(Pool))

Settle(v) ==
    \E a \in 1..registry[v].available :
        Mined(v, <<Event("settled", a)>>, Card(registry[v].available - a))

\* flushResidualDelta: a settlement when something is due, then the residual.
Flush(v) ==
    \E due \in 0..(registry[v].available - 1) :
        Mined(v, (IF due = 0 THEN <<>> ELSE <<Event("settled", due)>>)
                     \o <<Event("reclaimed", registry[v].available - due)>>,
              Card(0))

ChainStep ==
    \/ MineEmpty
    \/ \E v \in Clones : Deploy(v)
    \/ \E v \in Vaults : Provision(v) \/ Settle(v) \/ Flush(v)

-----------------------------------------------------------------------------
(* Reading a log in windows.                                               *)

AtLeast0(n) == IF n < 0 THEN 0 ELSE n
Lesser(a, b) == IF a <= b THEN a ELSE b

FirstBlock(k, h) ==
    IF cursor[k] # Unscanned THEN cursor[k]
    ELSE IF k \in Clones THEN deployedAt[k]
    ELSE AtLeast0(h - Backfill)

WindowEnd(t) == Lesser(t.from + Window - 1, t.head)

BudgetLeft(t) == t.used < MaxChunks
MoreToScan(t) == t.from <= t.head /\ BudgetLeft(t)

LogsIn(k, from, to) ==
    IF k = Factory THEN {v \in Clones : deployedAt[v] \in (from..to) \ {0}}
    ELSE {i \in DOMAIN logs[k] : logs[k][i].block \in from..to}

\* getLogs for the next window.  Blocks up to t.head do not change any more, so
\* the call is part of the step before it.
Fetched(t) == [t EXCEPT !.at = "store", !.to = WindowEnd(t), !.used = @ + 1,
                        !.batch = LogsIn(t.vault, t.from, WindowEnd(t))]

\* With no window left: on to the list of vaults, or to the next vault of it.
Done(t) == [t EXCEPT !.at = IF t.vault = Factory THEN "list" ELSE "pick",
                     !.vault = Factory, !.from = 0, !.to = 0, !.fresh = FALSE]
Scan(t) == IF MoreToScan(t) THEN Fetched(t) ELSE Done(t)

\* The tick t as it opens the log of k.
Opened(t, k) ==
    Scan([t EXCEPT !.vault = k, !.from = FirstBlock(k, t.head),
                   !.fresh = (cursor[k] = Unscanned)])

Earliest(t) ==
    IF t.vault = Factory
    THEN CHOOSE v \in t.batch : \A u \in t.batch : deployedAt[v] <= deployedAt[u]
    ELSE CHOOSE i \in t.batch : \A j \in t.batch : i <= j

Goes(w, t) == tick' = [tick EXCEPT ![w] = t]

-----------------------------------------------------------------------------
(* One tick, statement by statement.                                       *)

BeginTick(w) ==
    /\ tick[w].at = "idle"
    /\ \/ w = Cron /\ UNCHANGED byHand
       \/ w # Cron /\ byHand < MaxByHand /\ byHand' = byHand + 1
    /\ Goes(w, [NoTick EXCEPT !.at = "seed", !.head = head])
    /\ UNCHANGED <<chain, database, failures, since, disturbed>>

Watch(v) == watched' = IF Contains(watched, v) THEN watched ELSE Append(watched, v)

SeedCanonical(w) ==
    /\ tick[w].at = "seed"
    /\ Watch(Canonical)
    /\ Goes(w, Opened(tick[w], Factory))
    /\ UNCHANGED <<chain, cursor, recorded, row, byHand, failures, since, disturbed>>

RecordVault(w) ==
    LET t == tick[w]
    IN  /\ t.at = "store" /\ t.vault = Factory /\ t.batch # {}
        /\ Watch(Earliest(t))
        /\ Goes(w, [t EXCEPT !.batch = @ \ {Earliest(t)}])
        /\ UNCHANGED <<chain, cursor, recorded, row, byHand, failures, since, disturbed>>

\* Faulty: the next window leaves out a block; the cursor is not stored.
NextFromGap(t) == t.to + 2
NextFrom(t) == t.to + 1

StoredNever(t) == cursor
Stored(t) == [cursor EXCEPT ![t.vault] = t.to]

AdvanceCursor(w) ==
    LET t == tick[w]
    IN  /\ t.at = "store" /\ t.batch = {}
        /\ cursor' = Stored(t)
        /\ since' = IF t.fresh /\ since[t.vault] < t.from
                    THEN [since EXCEPT ![t.vault] = t.from] ELSE since
        /\ Goes(w, Scan([t EXCEPT !.from = NextFrom(t), !.fresh = FALSE]))
        /\ UNCHANGED <<chain, watched, recorded, row, byHand, failures, disturbed>>

\* Phase 2 reads the watched vaults once.
ListVaults(w) ==
    /\ tick[w].at = "list"
    /\ Goes(w, [tick[w] EXCEPT !.at = "pick", !.todo = watched])
    /\ UNCHANGED <<chain, database, byHand, failures, since, disturbed>>

PickVault(w) ==
    LET t == tick[w]
    IN  /\ t.at = "pick" /\ t.todo # <<>> /\ BudgetLeft(t)
        /\ Goes(w, Opened([t EXCEPT !.todo = Tail(@)], Head(t.todo)))
        /\ UNCHANGED <<chain, database, byHand, failures, since, disturbed>>

EndTick(w) ==
    LET t == tick[w]
    IN  /\ t.at = "pick" /\ (t.todo = <<>> \/ ~BudgetLeft(t))
        /\ Goes(w, NoTick)
        /\ UNCHANGED <<chain, database, byHand, failures, since, disturbed>>

-----------------------------------------------------------------------------
(* One event: its insertion, then the mutation of its paycard's row.       *)

Mutating(w) == tick[w].at \in {"apply", "write"}

\* The event whose row the invocation w is about to change.
Pending(w) == logs[tick[w].vault][Earliest(tick[w])]

\* Faulty: events are not deduplicated.
KnownNever(v, i) == FALSE
Known(v, i) == i \in recorded[v]

Overtaken(v, i) == \E j \in recorded[v] : j > i
Overlapped(w) == \E u \in Ticks \ {w} : Mutating(u) /\ tick[u].vault = tick[w].vault

StoreEvent(w) ==
    LET t == tick[w] v == t.vault i == Earliest(t)
    IN  /\ t.at = "store" /\ v # Factory /\ t.batch # {}
        /\ recorded' = [recorded EXCEPT ![v] = @ \cup {i}]
        /\ IF Known(v, i) THEN Goes(w, [t EXCEPT !.batch = @ \ {i}])
           ELSE Goes(w, [t EXCEPT !.at = "apply"])
        /\ disturbed' = IF ~Known(v, i) /\ (Overtaken(v, i) \/ Overlapped(w))
                        THEN disturbed \cup {v} ELSE disturbed
        /\ UNCHANGED <<chain, watched, cursor, row, byHand, failures, since>>

\* The row after the statement; the invocation goes on with the next event.
Mutate(w, card) ==
    LET t == tick[w]
    IN  /\ row' = [row EXCEPT ![t.vault] = card]
        /\ Goes(w, [t EXCEPT !.at = "store", !.batch = @ \ {Earliest(t)},
                             !.balance = 0])
        /\ UNCHANGED <<chain, watched, cursor, recorded, byHand, failures, since, disturbed>>

ApplyProvisioned(w) ==
    /\ tick[w].at = "apply" /\ Pending(w).kind = "provisioned"
    /\ Mutate(w, [available |-> Pending(w).amount, status |-> "Active"])

Reclaimed(w) == Card(0)

\* An UPDATE changes nothing where there is no row.
ApplyReclaimed(w) ==
    /\ tick[w].at = "apply" /\ Pending(w).kind = "reclaimed"
    /\ Mutate(w, IF row[tick[w].vault] = NoRow THEN NoRow ELSE Reclaimed(w))

SkipSettled(w) ==
    /\ tick[w].at = "apply" /\ Pending(w).kind = "settled"
    /\ row[tick[w].vault] = NoRow
    /\ Mutate(w, NoRow)

ReadBalance(w) ==
    LET t == tick[w]
    IN  /\ t.at = "apply" /\ Pending(w).kind = "settled"
        /\ row[t.vault] # NoRow
        /\ Goes(w, [t EXCEPT !.at = "write", !.balance = row[t.vault].available])
        /\ UNCHANGED <<chain, database, byHand, failures, since, disturbed>>

\* Faulty: the amount is taken off twice (a second delivery counted again).
RemainingTwice(w) == AtLeast0(tick[w].balance - 2 * Pending(w).amount)
Remaining(w) == AtLeast0(tick[w].balance - Pending(w).amount)

WriteBalance(w) ==
    /\ tick[w].at = "write"
    /\ Mutate(w, Card(Remaining(w)))

\* An RPC or D1 call fails, or the invocation is ended.
Fail(w) ==
    /\ tick[w].at # "idle" /\ failures < MaxFailures
    /\ failures' = failures + 1
    /\ Goes(w, NoTick)
    /\ disturbed' = IF Mutating(w) THEN disturbed \cup {tick[w].vault} ELSE disturbed
    /\ UNCHANGED <<chain, database, byHand, since>>

-----------------------------------------------------------------------------
Init ==
    /\ head = 0
    /\ deployedAt = [v \in Vaults |-> 0]
    /\ logs = [v \in Vaults |-> <<>>]
    /\ registry = [v \in Vaults |-> NoRow]
    /\ watched = <<>>
    /\ cursor = [k \in ScanKeys |-> Unscanned]
    /\ recorded = [v \in Vaults |-> {}]
    /\ row = [v \in Vaults |-> NoRow]
    /\ tick = [w \in Ticks |-> NoTick]
    /\ byHand = 0 /\ failures = 0
    /\ since = [k \in ScanKeys |-> 0]
    /\ disturbed = {}

Proceed(w) ==
    \/ SeedCanonical(w) \/ RecordVault(w) \/ AdvanceCursor(w) \/ ListVaults(w)
    \/ PickVault(w) \/ EndTick(w)
    \/ StoreEvent(w) \/ ApplyProvisioned(w) \/ ApplyReclaimed(w)
    \/ SkipSettled(w) \/ ReadBalance(w) \/ WriteBalance(w)

Next ==
    \/ ChainStep
    \/ \E w \in Ticks : BeginTick(w) \/ Proceed(w) \/ Fail(w)

\* The cron comes round; an invocation that runs gets on with it.
Fairness == WF_vars(BeginTick(Cron)) /\ \A w \in Ticks : WF_vars(Proceed(w))

Spec == Init /\ [][Next]_vars
FairSpec == Spec /\ Fairness

-----------------------------------------------------------------------------
(* Properties.                                                             *)

Steps == {"idle", "seed", "list", "store", "pick", "apply", "write"}

Settled(v) == \A w \in Ticks : ~(Mutating(w) /\ tick[w].vault = v)

\* The cursor never passes over an event or a deployment: whatever lies between
\* the block indexing began at and the cursor is recorded, whichever ticks
\* overlapped or ended half way ("a mid-tick failure or the next scheduled tick
\* simply continues from where this one left off").
NothingSkipped ==
    /\ \A v \in Vaults : LogsIn(v, since[v], cursor[v]) \subseteq recorded[v]
    /\ \A v \in LogsIn(Factory, since[Factory], cursor[Factory]) : Contains(watched, v)

\* A vault whose events are all recorded, from its provisioning on, reads as
\* the contract has it, unless a mutation was cut off, overlapped or overtaken.
RowMatchesRegistry ==
    \A v \in Vaults \ disturbed :
        recorded[v] = DOMAIN logs[v] /\ Settled(v) => row[v] = registry[v]

\* Whatever ticks overlapped or failed: a row never shows less than the vault
\* still holds, so no paycard reads terminated while money can still flow.
NeverUnderstated ==
    \A v \in Vaults :
        row[v] # NoRow => /\ row[v].available >= registry[v].available
                          /\ row[v].status = "Terminated"
                               => registry[v].status = "Terminated"

\* Under the cron, with a chunk to spare for every log that is watched, every
\* event and every vault the first scan reached back to is at last recorded.
EventuallyIndexed ==
    \A v \in Vaults :
        <>[](/\ v \in LogsIn(Factory, since[Factory], MaxHead) => Contains(watched, v)
             /\ Contains(watched, v)
                  => LogsIn(v, since[v], MaxHead) \subseteq recorded[v])
=============================================================================
