------------------------------- MODULE Keeper -------------------------------
(***************************************************************************)
(* The settler cron of workers/reconciliation-worker/src/index.ts in its   *)
(* default "chain" mode (settleActiveRails), composed with the vault whose *)
(* streams it settles.                                                     *)
(*                                                                         *)
(* One unit of the vault's time is one cron period and one block, so the   *)
(* block window is counted in it too.  A run of the cron is over before    *)
(* the next is due; a run that an operator asks for (POST /reconcile) may  *)
(* take as long as it likes and overlap anything.                          *)
(***************************************************************************)
EXTENDS Vault, Sequences

CONSTANTS
    Runs, Cron,  \* runs at work at a time; the one the cron starts
    Window,      \* SETTLER_WINDOW_BLOCKS
    Dust,        \* MIN_ACCRUED_USDC
    BatchLimit,  \* RECONCILIATION_BATCH_LIMIT
    MaxFailures  \* bound of the model: RPC failures and killed runs

ASSUME KeeperAssumption ==
    /\ Cron \in Runs
    /\ Window \in Nat /\ Dust \in Nat \ {0}
    /\ BatchLimit \in Nat \ {0} /\ MaxFailures \in Nat

VARIABLES
    provisioned, \* the vault's PaycardProvisioned logs, oldest first
    runs,        \* every run's local variables
    swept,       \* the cron has had its run for this unit of time
    failures

keeper == <<provisioned, runs, swept, failures>>
vault  == <<now, admin, money>>

Resting == [on |-> FALSE, left |-> <<>>, clock |-> 0, settled |-> 0,
            sending |-> FALSE]

-----------------------------------------------------------------------------
(* What a run looks at.                                                    *)

\* Faulty: only the streams that were opened just now.
ListedNewest == SelectSeq(provisioned, LAMBDA log : log.at = now)
\* queryFilter over the last Window blocks: the logs are in block order, so these
\* are what follows the older ones.
Listed ==
    LET older == {i \in 1..Len(provisioned) : provisioned[i].at < now - Window}
    IN  SubSeq(provisioned, Cardinality(older) + 1, Len(provisioned))

\* The keeper's own estimate of the accrual since the checkpoint.
Estimate(c, t) ==
    LET upto == Lesser(t, Horizon(c)) IN
    IF upto > c.checkpoint
    THEN Lesser(c.velocity * (upto - c.checkpoint), c.available)
    ELSE 0

\* Faulty: a stream whose horizon has passed is given up.
WorthUntilHorizon(c, t) ==
    /\ Active(c) /\ c.available # 0
    /\ c.lifespan > 0 => t < Horizon(c) /\ Estimate(c, t) >= Dust
Worth(c, t) ==
    /\ Active(c) /\ c.available # 0
    /\ c.lifespan > 0 => Estimate(c, t) >= Dust

-----------------------------------------------------------------------------
(* A run.                                                                  *)

Current(r) == Head(runs[r].left).id

\* The cron fires once per unit of time; at the last modelled moment it keeps
\* coming round.
StartRun(r) ==
    /\ ~runs[r].on
    /\ r = Cron => ~swept \/ now = MaxTime
    /\ runs' = [runs EXCEPT ![r] = [Resting EXCEPT !.on = TRUE, !.left = Listed,
                                                   !.clock = now]]
    /\ UNCHANGED <<vault, provisioned, swept, failures>>

\* The registry is read; what it says may be stale when the transaction lands.
Examine(r) ==
    /\ runs[r].on /\ ~runs[r].sending
    /\ runs[r].left # <<>> /\ runs[r].settled < BatchLimit
    /\ runs' = IF Worth(registry[Current(r)], runs[r].clock)
               THEN [runs EXCEPT ![r].sending = TRUE]
               ELSE [runs EXCEPT ![r].left = Tail(@)]
    /\ UNCHANGED <<vault, provisioned, swept, failures>>

Proceed(r, settled) ==
    runs' = [runs EXCEPT ![r].left = Tail(@), ![r].sending = FALSE,
                         ![r].settled = @ + settled]

Fail == failures < MaxFailures /\ failures' = failures + 1

\* The transaction lands; the run may still fail to learn of it.
Submit(r) ==
    /\ runs[r].sending
    /\ ProcessDripSettle(Current(r))
    /\ \/ Proceed(r, 1) /\ UNCHANGED failures
       \/ Proceed(r, 0) /\ Fail
    /\ UNCHANGED <<provisioned, swept>>

\* The vault turns it down: the stream was closed in the meantime.
Reverted(r) ==
    LET c == registry[Current(r)] IN
    /\ runs[r].sending
    /\ ~(MaySettle(Current(r)) /\ Representable(c, now))
    /\ Proceed(r, 0)
    /\ UNCHANGED <<vault, provisioned, swept, failures>>

\* The registry cannot be read, or the transaction is lost.
Lost(r) ==
    /\ runs[r].on /\ runs[r].left # <<>>
    /\ Fail
    /\ Proceed(r, 0)
    /\ UNCHANGED <<vault, provisioned, swept>>

Finish(r) ==
    /\ runs' = [runs EXCEPT ![r] = Resting]
    /\ swept' = (swept \/ r = Cron)
    /\ UNCHANGED <<vault, provisioned>>

EndRun(r) ==
    /\ runs[r].on /\ ~runs[r].sending
    /\ runs[r].left = <<>> \/ runs[r].settled >= BatchLimit
    /\ Finish(r)
    /\ UNCHANGED failures

\* The worker is out of time, or its first request for logs fails.
KillRun(r) ==
    /\ runs[r].on
    /\ Fail
    /\ Finish(r)

-----------------------------------------------------------------------------
(* The vault around it.                                                    *)

Opening(id) == ~Registered(id) /\ Opened(registry'[id])

\* Everybody else's calls (ownership, which no run looks at, stays as it is)
\* and the passing of time once the cron has run.
VaultStep ==
    /\ \/ Tick /\ swept
       \/ \E e \in Submitted : OpenPaycardChannel(e)
       \/ \E e \in Submitted, a \in Accounts : ClaimWildcardPaycardChannel(e, a)
       \/ \E id \in PaycardIds : ProcessDripSettle(id)
       \/ \E a \in Accounts, id \in PaycardIds : FlushResidualDelta(a, id)
       \/ Pause \/ Unpause
    /\ swept' = (swept /\ now' = now)
    /\ provisioned' = IF \E id \in PaycardIds : Opening(id)
                      THEN Append(provisioned,
                               [id |-> CHOOSE id \in PaycardIds : Opening(id),
                                at |-> now])
                      ELSE provisioned
    /\ UNCHANGED <<runs, failures>>

KeeperInit ==
    /\ Init
    /\ provisioned = <<>> /\ swept = FALSE /\ failures = 0
    /\ runs = [r \in Runs |-> Resting]

RunStep(r) == Examine(r) \/ Submit(r) \/ Reverted(r) \/ EndRun(r)

KeeperNext ==
    \/ VaultStep
    \/ \E r \in Runs : StartRun(r) \/ RunStep(r) \/ Lost(r) \/ KillRun(r)

KeeperSpec == KeeperInit /\ [][KeeperNext]_<<vault, keeper>>

\* Time passes, the cron comes round and its runs get on.  Nothing is asked of
\* payers, recipients, the owner or the operator.
KeeperFairness ==
    /\ WF_<<vault, keeper>>(VaultStep /\ Tick)
    /\ WF_<<vault, keeper>>(StartRun(Cron))
    /\ WF_<<vault, keeper>>(RunStep(Cron))

FairKeeperSpec == KeeperSpec /\ KeeperFairness

-----------------------------------------------------------------------------
(* What must hold.                                                         *)

OpenedAt(id) ==
    LET log == CHOOSE l \in {provisioned[i] : i \in 1..Len(provisioned)} : l.id = id
    IN  log.at

\* What a paycard's recipient has earned by now and has not been paid.
Arrears(id) == Escrow!Entitlement(registry[id], now) - paid[id]

\* A stream a run of the cron should have looked after.
Sweepable(id) ==
    /\ Registered(id) /\ Active(registry[id]) /\ Representable(registry[id], now)
    /\ now - Window <= OpenedAt(id) /\ OpenedAt(id) < now

\* A run of the cron that nothing has disturbed, and whose batch is as large as
\* its list, leaves no active stream of its window that was there before it more
\* than dust behind its schedule, and no one-shot payment unpaid, whatever others
\* settle, flush or sweep at the same time; except streams whose debt has outgrown
\* a word, which nobody can settle.
SweepLeavesDust ==
    swept /\ failures = 0 /\ Len(Listed) <= BatchLimit =>
        \A id \in PaycardIds : Sweepable(id) => Arrears(id) < Dust

\* Nobody has to press "settle": every stream that ends within the modelled
\* time is at last closed or paid up to dust, also when a run fails, and also
\* when the owner has paused the vault.
EveryStreamPaysOut ==
    \A id \in PaycardIds :
        Registered(id) /\ Horizon(registry[id]) <= MaxTime
            ~> ~Active(registry[id]) \/ (now = MaxTime /\ Arrears(id) < Dust)

=============================================================================
