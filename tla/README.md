# OpenRails: TLA+ models of the vault and the programs around it

OpenRails moves money in *paycard streams*: a payer signs an envelope, a vault
contract takes the pool, and the recipient is paid by the second until the
stream's horizon. Around the vault stand off-chain programs that settle streams,
sponsor payments, project the vault's state, pay royalties, and decide which
payments an agent may make. This directory specifies those programs in TLA+,
model-checks them with TLC and proves their central properties with TLAPS.

Every definition is translated from the source at the lines `PROJECT.json`
names under `map`; paths below are relative to the repository's root.

## 1. The system

| Component | Source | State it keeps | Operations | Status |
|---|---|---|---|---|
| Payment vault, hub V2 | `contracts/v2-factory/ArcOpenRailsHubV2Initializable.sol` | registry of paycards, nonce tracks, owner, pause flag, one token balance for all pools | open, claim a wildcard, drip-settle, flush, ownership, pause | modelled, proved |
| Settler cron | `workers/reconciliation-worker/src/index.ts`, `settleActiveRails` | none between runs | find streams, read each, settle those worth it | modelled, proved |
| Sponsored payments | same file, `relayClaim`, `relayOpen`; `cockpit/src/lib/newPayment.ts`, `useRailsActions.ts`, `permit.ts`; `sdk/src/relay.ts` | the keeper's account nonce; the page's state; a link | sign, post, land a permit, try and send the opening, claim with a wallet | modelled, proved |
| Royalties | same file, `reconcileFromD1`; `workers/music-scrobble-worker` | D1 table `plays` | log a play; lock, settle and mark plays | modelled, proved |
| Stream gateway | `stream-gateway/` | event file, snapshot, in-memory projection, termination queue | backfill, subscribe, project, sweep expired | modelled, but for webhooks; proved |
| Indexer worker | `workers/indexer-worker` | D1 tables of vaults, cursors, events, rows | tick: discover vaults, scan their logs | modelled, proved |
| Agent kernel | `agent-kernel/src/runtime.ts`, `evaluator.ts`, `store.ts` | Workspace, Agents, Paths, Pacts, checkpoints, Gaia cases | see `PactKernel` | modelled, proved |
| Live payments | `apps/gasok-web/server/index.mjs` and `src/components/LiveVerticalSlice.tsx` | payment drafts in memory; the page's phase | draft, prepare, confirm, prove, settle, recover | modelled, proved |
| Vault factory | `contracts/v2-factory/ArcOpenRailsFactoryV1.sol` | addresses | deploy | as part of the indexer's chain |
| Hub V1, workflow NFT, test tokens | `contracts/` | – | – | not modelled (section 7) |
| Faucets | `workers/faucet-worker`, `contracts/giwa/OrUsdFaucet.sol` | KV counters; cooldowns | fund, claim | not modelled |
| Local server, SDK, MCP, x402 and session endpoints, front ends, scripts | `server`, `sdk`, `mcp`, `workers`, `cockpit`, `apps/gasok-web/src`, `dashboard`, `scripts` | none shared | build, sign, show | not modelled |

How they interact:

```
    payer, recipient, anyone           agents, authority, counterparty
      | open, claim, settle, flush        | proposals, signatures, cases
      |        payment page               |        live-payments page
      |         | permit + envelope       v          | drafts, hashes
      |         v                     +--------------v----+
      |       relay                   | agent kernel      |
      v         v                     |  + chain verifier |
    +--------------+    receipts,     +-------------------+
    |    vault     | ---------------------^
    +--------------+    registry
      ^   ^   | logs        | logs
      |   |   v             v
 keeper royalties       indexer (D1)    gateway (event file, snapshot)
        ^ plays
   scrobble webhook
```

What is hard here: a contract whose books are kept by running balance and
checkpoint while its promise is a closed formula; a keeper that acts on what a
registry said a moment ago; requests that share one account and its nonces, and
whose callers stop listening; table rows marked by overlapping runs, none of
which holds a transaction; projections fed by sources that miss, repeat and
reorder, in a process that may end between two writes; a kernel that reads,
awaits the chain, and only then mutates; a server that forgets its drafts while
a wallet still has the transaction. `PROJECT.json` lists each hazard at its line
with the properties that watch it.

## 2. Modules

| Module | Models | Built on |
|---|---|---|
| `StreamEscrow` | the abstract promise: what a stream has earned by a given time, and that paying and closing respect it | – |
| `Vault` | the contract | instantiates `StreamEscrow` |
| `Keeper` | the settler cron composed with the vault | `Vault` |
| `Relay` | sponsored payments: payment page, links, relay, keeper account, token and nonce track | – |
| `Royalties` | the scrobble webhook and the D1 mode of the reconciliation | – |
| `StreamGateway` | projection, store, backfill, subscription | – |
| `Indexer` | ticks over the chain's logs and the D1 tables | – |
| `PactKernel` | the agent kernel with its chain verifier | – |
| `LivePayments` | one Pact's payment, end to end: page, server, kernel, vault, wallet queue | – |
| `VaultProofs` | theorems about `Vault` | `Vault` |
| `KeeperProofs`, `RelayProofs`, `RoyaltiesProofs`, `IndexerProofs`, `GatewayProofs`, `PactProofs`, `LivePaymentsProofs` | theorems about the module of that name | that module |
| `MC...` | instances for TLC | the above |

Definitions marked "Faulty" directly before a definition are deliberate
mistakes; substituted for the definition they precede, they make the property
named in `PROJECT.json` under `mutants` fail. They take part in no
specification.

### Vault

One action per external function; a revert is a step not taken. An EVM
transaction is atomic and every function that moves money is `nonReentrant`, so
interleaving is between transactions only. `registry` keeps the fields of
`PaycardRegistry`; `wallet` and `escrow` are the token's balances; `paid`,
`refunded` and `redeemed` are history the events would give. `Settled`,
`Payout` and `AccruedDebt` are `_settlePaycard`; `Release` is its transfer.
Solidity's checked arithmetic is `Representable` (and the sum in `WindowOpen`):
above `MaxWord` a call reverts. Signatures are the set `Signed` of envelopes
their payers have signed; an envelope somebody alters is in `Submitted` only.

Left out: the metadata hash, which is opaque to the contract; tokens that take a
fee or call back; the vault itself as a recipient (accounts are external).

### Keeper

`StartRun` takes the list of streams opened within the window, `Examine` reads
one registry entry and decides, `Submit` is the transaction that lands later;
between the two anybody may settle, flush or pause. `Reverted` and `Lost` are
the two ways into the `catch`. Time is counted in cron periods; a unit is also
one block, so that the block window is counted in it too. The cron's run is over
before its next is due (a run takes seconds, the period is minutes); an
operator's run (`POST /reconcile`) is under no such rule and may overlap.

### Relay

`SignIntent`, `PostFlow`, `SelfApprove`, `SelfOpen`, `PageHears` are
`submitNewPayment`'s paths, `MintLink` its link mode; `PostClaim`, `SelfPermit`
and `SelfClaim` are what holders of a link do. A request at the relay goes
through the awaits of `relayClaim` and `relayOpen`: permit check, nonce read,
send, receipt, then the same for the opening (`CheckPermit` to `AwaitReceipt`).
The two handlers differ in what a failed permit means, which is `Unpermitted`.
`account` is the keeper's account: `mined` transactions and a `pool` in nonce
order; `ReadNonce` and `Send` are two steps because ethers asks for the pending
nonce before it sends, and a request in between takes it. `CallFails`,
`WorkerEnds` and `AnswerLost` are the faults.

Of the hub only what decides an opening is kept: the payer's nonce track, the
channels opened, the allowance; of the token the permit nonce. An EIP-2612
permit *sets* the allowance.

Left out: balances, expiries, deadlines, several payers, and the gas estimate
that ethers makes before a send: it repeats the check that `staticCall` makes.

### Royalties

`Scrobble` is the webhook's `INSERT OR IGNORE`. A run (`Begin`) selects the
paycards of pending plays up to the batch limit, locks a paycard's plays, reads
the stream, settles, and marks; every statement is a step, and
`Markable`/`LockedRow` are the `WHERE` clauses. The cron's run and an operator's
may overlap; any run may end anywhere (`crashes`).

Left out: the artists' registry in KV, amounts, timestamps, read-only routes.

### StreamGateway

The process is one thread: a handler runs up to its `await` of the block lookup
(`Enter`), then appends its event (`Record`) and applies it (`Project`); the two
are separate steps because the process can end between the two file writes, and
nothing else can run there. `processed`, `eventKeys`, `streams` and `queue` are
lost with the process, `fileKeys`, `tornTail` and `snapshot` survive. A lookup
that fails rejects a promise nobody handles, or fails `start()`; both end the
process, so both are `Crash`.

`Hazards` names what the environment may do beyond plain crashes between
handlers, repeated deliveries and repeated backfills: live logs during a backfill
(`overlap`), missed logs (`gap`), answers out of order (`overtake`), a kill
between two writes (`kill`), an append cut short (`torn`), a reorganisation
(`reorg`). Each run says which ones it allows.

Left out: checkpoints and the projected balance (for display), workflow tags,
webhooks.

### Indexer

A tick is a sequence of awaited calls, each a step: seed the canonical vault,
scan the factory's log, then each watched vault's, a window of blocks at a time
(`NextFrom` to the window's end), within a budget of `MaxChunks` windows. For
every log it inserts the event (`Stored`), and, if the insert was new, reads the
row, and writes it back; then the cursor. Two ticks interleave at every step. The
chain is the factory's deployments and one paycard's life per vault, one
transaction to a block. `since` and `disturbed` are history variables.

Left out: terms and timestamps of rows, HTTP routes that only read.

### PactKernel

`store.transact` runs one mutation at a time on a copy and drops the copy when
the mutation throws, so a mutation is one step. What the kernel reads *before*
it awaits the chain verifier (`bindOpenRailsPayment` with a transaction,
`recordPactSettlement`) is stale when its mutation starts: `VerifyOpening` and
`VerifySettlement` put an observation in flight, `RecordOpening` and
`RecordSettlement` apply it, `Abandon` loses it. `chain` is what the verifier
sees of the vault: Paycards, their payouts, whether they are terminated.

One Workspace, one Agent, one Path with its signed revisions. Checks of a
proposal against a Path that depend on those two alone are the Path's set
`permits`; a plugin's verdict on a checkpoint is a free choice; a hash is the
value it commits to. The sums of the code (`Exposure`, `PeriodSpent`, what a
Paycard has paid) count unit by unit: `Units` is a set of pairs of an index and
a unit, `Total` its size. The status `awaiting_wallet` is never assigned by the code
and is left out.

`Hazards` names what callers may do: form a Pact while another awaits its
signatures (`hasty`), dispute, verify or rectify a settled one (`afterlife`),
record a settlement twice (`rerecord`).

### LivePayments

The composition `PactKernel` does not have: the page that drives the kernel
through the gasok-web server, and what happens when it is closed, times out or
is opened twice. A page is at one screen (`phase`) and one call (`at`); a closed
page's request is served to its end (`Served`). `queue` is the wallet's list of
transactions, mined in order, late or not before the draft expires. The server's
drafts live in memory (`Restart`). Of the kernel only the Pact's life from
`accepted` to `settled` is kept; what may go wrong in it under other actors is
`PactKernel`'s subject.

Two history variables name what can go wrong. `doubled` counts the events that
make a second Paycard possible: a draft is asked for while another is being
made, a Paycard's whole life passes while a page is on its way from its lookup,
which found none, to its request for a draft, the server restarts and forgets a
draft that is out. None of the three can be left out: `ChargedPerCause` would
fail. A draft made after an earlier one's opening has landed is no event of its
own: it needs one of the three before it. `overlapped` says that two recordings
of settlements were under way at once, after which a payout may be counted twice
on a Paycard that a flush has closed. `disturbed` is either.

Left out: sign-in and sessions, creation and signing of the Pact, the
10 000-block limit of `recover-opening`.

## 3. Runs

| Run | Bounds | Shows |
|---|---|---|
| `vault` | 3 accounts, 2 ids, 8 envelopes, 5 seconds, words up to 8 | `Solvent`, `PoolAccounted`, `PaidPerSchedule`, `NonceTrackLinear`, `CardsAsSigned`, `ClosableWithinWord`, `NoClawback`, `TermsFrozen`, and the refinement `ImplementsEscrow` |
| `keeper` | 2 streams, 3 periods, a cron run and an operator's, 1 failure | `SweepLeavesDust`, `EveryStreamPaysOut` |
| `relay` | 1 flow signed at most twice, 1 card, a holder at the relay and one with a wallet, 2 requests, 1 fault | `AnsweredTruly`, `PaidOnce`, `GasLostInRacesOnly`, `EventuallyClaimed` |
| `royalties` | 2 plays, 2 paycards, 2 overlapping runs, batches of 1, 2 attempts, 1 crash | `ResolvedForCause`, `EventuallyResolved` |
| `gateway_steady` | 2 streams, 4 logs, 2 crashes, no hazard | `ConvergesToChain`, `EventuallyInStep`, `ExpiryNoticed` |
| `gateway_storm` | 1 stream, 4 logs, 2 crashes, every hazard | `NeverUnderstated`, `SnapshotMovesForward`, `ActiveIsScheduled` |
| `indexer_steady` | the hub and a clone, 4 blocks, windows of 2, 3 windows a tick, 1 failure | `NothingSkipped`, `EventuallyIndexed` |
| `indexer_overlap` | the hub, 3 blocks, the cron's tick beside one by hand, 1 failure | `RowMatchesRegistry`, `NeverUnderstated` |
| `pact_steady` | 2 proposals, 2 Pacts, 2 Paycards, a Gaia case, no hazard | `ExposureRespected`, `SettledIsPaid` |
| `pact_storm` | 1 Pact, 2 Paycards, a case decided twice, 2 requests in flight, every hazard | `FundedOnChain`, `FundedWasSigned`, `OpeningIsLasting` |
| `pact_rule` | 1 Pact, 2 proposals, 3 Path revisions, 4 commands, 2 seconds | `FormedUnderItsPath`, `CommandsOnce`, `OpeningAuthorized` |
| `payments` | 2 pages, 4 seconds, Paycards of two, 2 queued transactions, two of: a page closed, a failure or restart, a settlement or flush by others, a cause for a second Paycard | `ChargedOnce`, `ChargedPerCause`, `PaidReadsSettled`, `SettledInFull`, `EventuallySettled` |

Deadlock is not checked where the system really comes to an end of what the
bounds let it do: the pact runs (a bounded supply of proposals and Paycards),
`payments` (time ends), `royalties` and `relay` (every play, every payment is
done). In all other runs something can always happen.

Why the bounds are enough. *Vault*: the envelopes cover a stream that starts
late and leaves a remainder, one whose pool runs dry, one whose rate leaves the
word, a one-shot payment, an id taken twice, a nonce used twice, an unsigned and
a malformed envelope, and five seconds pass every horizon; what the bounds could
hide is covered by the proofs. *Keeper*: three periods see a stream of two tokens
a period through its life with a sweep in every one; dust of three makes the
cron skip every other sweep of it, and a one-shot payment competes for the
batch. *Relay*: two requests are what it takes to race for an account nonce; the
card is worth more than the flow, so that the flow's permit leaves too little
for it; a flow signed twice can be paid twice if anything lets it.
*Royalties*: two runs and two paycards with a batch of one make the second
paycard wait for the next run; two attempts are one failure and the last try.
*Gateway*: three logs are the longest life of a stream of two tokens
(provisioned, settled, settled or reclaimed), a fourth lets a gift in between or
one of them be mined again,
and of two crashes one can fall into the recovery from the other. *Indexer*: four
blocks hold a deployment and a paycard's life of three logs and span two
windows; three windows a tick are one for each log that is watched.
*PactKernel*: two Pacts are what it takes to exceed a ceiling, two Paycards to
rebind; one observation in flight is stale against every mutation, two against
each other. *LivePayments*: four seconds hold a draft that expires, a second one
and its whole stream; two transactions in the queue are the late one and its
successor; of two troubles one can fall into the recovery from the other. The
run goes on behind two recordings that overlap, and behind a cause for a second
Paycard up to the hand-in of the proof (`Bounded`): after it no draft is made.

### The same instances without their conditions

`ConvergesToChain`, `EventuallyIndexed`, `EveryStreamPaysOut` and `RowMatchesRegistry`
hold on conditions, and some of the conditions are what a comment or a document
promises to do without. TLC refutes the property when the condition is taken out
of the instance.

| Says | Change | What TLC shows |
|---|---|---|
| `workers/reconciliation-worker/wrangler.toml:12`: settles "ALL active rails" | `MCKeeper.cfg` with `Window = 2`, `MaxFailures = 0` | a stream older than the block window (9000 blocks) is never settled by the cron (`EveryStreamPaysOut`) |
| `docs/stream_indexing.md:43`: "safe for the live subscription and a backfill window to overlap" | `MCGatewaySteady.cfg` with `{"overlap"}` | a settlement handled before its provisioning is dropped, remembered as handled, and no replay brings it back (`ConvergesToChain`, as in the next four) |
| the same, line 74: "missed events are recovered by backfill" | `{"gap"}` | the missed provisioning is recovered; what followed it live is lost in the same way |
| line 83: "idempotent and restart-safe" | `{"kill"}` | a process that ends between its two writes keeps the event's key and loses its effect |
| line 40: "Dedup survives restarts"; `stream-gateway/index.ts:270`: "never double-apply" | `{"torn"}` | a record glued to a fragment is not read back, and its event is applied again |
| line 85: reorgs are "recoverable by replay" | `{"reorg"}` | a log mined again has another key and is applied under both |
| `workers/indexer-worker/src/index.ts:128`: after a failure the next tick "simply continues from where this one left off" | `MCIndexerSteady.cfg`, `RowMatchesRegistry` without its exception `disturbed` | an event whose row was not changed yet is skipped as recorded |
| the same line, of the next scheduled tick | `MCIndexerSteady.cfg` with `MaxChunks = 2` | every tick begins at the first vault; one at the end of the list is never reached (`EventuallyIndexed`) |
| `docs/gasok-webapp-blueprint.md:239`: "the live registry determines whether settlement is final" | `MCPactStorm.cfg`, asked whether a closed Paycard paid in full and on record leaves its Pact active | finality is computed from what was recorded when the request came in: two callers of the kernel that record the newer payout beside the older one are both partial, and a paid Pact stays active |

Of a lookup that answers out of order (`{"overtake"}`, which `ConvergesToChain`
does not survive either) no document speaks. Under `kill` a process may also end
within the rewriting of the snapshot: replay does not rebuild it then, since the
events are known. What the gateway keeps under all six is what `gateway_storm`
asks; its `NeverUnderstated` stops with the first key that is not intact
(`KeysIntact`), so `torn` and `reorg` can break it.

### What the conditions of the passing runs leave out

* `keeper`: `SweepLeavesDust` speaks of a run that met no failure and whose list
  fits the batch: with more live streams than a batch holds every run serves the
  oldest, and the others are left with what they have earned, however much.
* `pact_steady` with `{"hasty"}`: Pacts that await signatures do not count
  against the Path's ceiling, and `ExposureRespected` fails; with `{"rerecord"}`
  a receipt recorded twice counts twice (`SettledIsPaid`); with `{"afterlife"}` a
  Gaia case opened on a settled Pact makes it disputed (against `SettledIsFinal`). The
  code lets each happen and no document promises otherwise.
* `indexer_overlap`: a settlement lost between two ticks leaves a row that shows
  too much. `RowMatchesRegistry` does not speak of such a row, `NeverUnderstated`
  bounds it on one side.
* `royalties`: a paycard that was never opened reads as active with nothing to
  pay; its settlement goes through without effect and its plays are marked as
  settled. A run that ends between lock and settlement leaves its plays locked;
  nothing unlocks them (the exception `cutOff` in `EventuallyResolved`).
* `relay`: `/relay-open` posted again with the same body after its permit has
  landed is refused for ever (the page signs anew; a caller of the SDK's
  `payGasless` that repeats its body does not get through). A second link minted
  before the first is claimed has its nonce, so one voids the other; a smaller
  permit, landed later, replaces the allowance a link was signed with (the two
  cases of `Voided`). The comment at
  `workers/reconciliation-worker/src/index.ts:145` that the keeper never burns
  gas on a claimed card holds outside races, which is how `GasLostInRacesOnly`
  states it.
* `payments`: a proof plugin that fails to read the chain once returns a
  rejection, which makes the Pact disputed; the page offers no way on from there
  (the disjunct `disputed` in `EventuallySettled`).

## 4. Fairness

* `gateway_steady`: weak fairness of `Start` (a supervisor restarts the process),
  `Fetch`, `BackfillNext`, `BackfillDone`, `Deliver`, `Record`, `Project` (the
  endpoint answers and the event loop turns), `SweepExpired` (the timer) and of
  the clock. None of the vault's users and no operator is asked to act. Crashes
  are finite (`MaxCrashes`).
* `keeper`: weak fairness of time, of the cron and of the cron's own run. Nobody
  else is asked for anything; in particular the owner may pause the vault and
  leave it so. Failures are finite (`MaxFailures`).
* `indexer_steady`, `royalties`: the platform's schedule starts the cron's
  invocation again and again, and an invocation that has not ended takes its next
  step. Nobody starts anything by hand.
* `relay`: blocks are made, requests are served, the page that waits listens.
  `EventuallyClaimed` also asks a holder to keep trying: strong fairness of
  `Claim`, since a request must be free at the relay, which comes and goes.
* `payments`: time, blocks, requests in service, and the payer, who comes back to
  the page and presses the button on the screen; strong fairness of `Refresh`
  only, since a screen is out of date now and then. No page is kept open and no
  request is spared a failure, but both are finite.
* The vault and the kernel promise no progress of their own: every step of
  theirs is somebody's call.

## 5. Proofs

Each theorem holds for every choice of the constants that meets the module's
named assumption, so for any number of actors, identifiers, bounds and faults.

**`VaultProofs`.** `BooksInv` is the inductive invariant: types, `Solvent`,
`PoolAccounted` and `PaidPerSchedule` together, with the facts they need of each
other (a blank entry owes nothing, a checkpoint lies within its window, an active
card holds something). None of the four is inductive alone: solvency after a
settlement needs the type and the account of that one card, the schedule needs
that the payout was not cut by the balance except when the card terminates. From
it `TypeAlways`, `SolventAlways`, `PoolAccountedAlways`, `PaidPerScheduleAlways`,
and `ClosableWithinWordAlways`: since the checkpoint never leaves the window from
genesis to horizon, no debt exceeds rate times lifespan. Solvency is stated
without a sum: the coins owed, `{<<id, k>> : k \in 1..available}`, are counted,
and `escrow` is their number; `OneStackChanges` says that a change of one balance
changes the count by the difference. `EntitlementAdvances` and `Telescope` are
the arithmetic core: payouts taken checkpoint by checkpoint add up to the closed
formula.

Its second part proves `TermsFrozen`, `NoClawback`, `NonceTrackLinear`
and `CardsAsSigned`: a step either opens exactly one card and spends exactly the
next nonce, or leaves signatures alone (`OpensOrQuiet`).

Its third part proves that `Vault` implements `StreamEscrow`: the
mapping takes each registry entry to its terms and to its phase, opening maps to
`Agree`, settling to `Pay`, flushing to `Close`, everything else to the passing
of time or a stutter.

**`KeeperProofs`** proves `SweepLeavesDust` on the keeper composed with the
vault. The property speaks of the moment a run ends; `SweepInv` says what is true
on the way there: a stream is `Served`, so that it cannot be worth a transaction
whoever settles, closes or opens what in between, or it is still on the list of
the cron's run (`OnTheList`); no time passes under that run (`CronInTime`), and
every open stream has one log, in the order of the blocks (`Logged`), so that a
list no longer than a batch leaves none out. The vault's steps are taken from
`Vault` as they stand, with `BooksInv` for the arrears.
`KeeperRefinesVault` shows that the composition is a vault: every step of a run
and of the callers around it is a step of `Vault` or leaves it alone. What
`VaultProofs` proves of `Spec`, `ImplementsEscrow` included, holds of the vault
with its keeper too.

**`RelayProofs`** proves `AnsweredTruly`, `PaidOnce` and `GasLostInRacesOnly`.
The invariant `Honest` ties together what lies apart in time and place: a check
that held is remembered with the track and token it saw (`HoldsAt`); a request
that waits has its transaction in the account at the place of its nonce
(`InPool`), so that the receipt it finds is its own; every envelope of a card is
the link's (`EnvGood`), and openings have distinct nonces. For `PaidOnce` the
envelopes of a flow that are still about anywhere are bounded by the first
opening, except those signed after it, whose nonces are in a counted set
(`CountedBy`): the other openings inject into that set.

**`RoyaltiesProofs`** proves `ResolvedForCause` and `ResolvedIsFinal`. `Ledger`
says what every run knows of the rows it works on: between lock and mark its
paycard's locked rows are those it locked, unless another run has touched the
paycard (`overlaid`).

**`IndexerProofs`** proves `NothingSkipped`, `NeverUnderstated` and
`RowMatchesRegistry`. The first
alone is not inductive: a tick holds a window's logs in hand while another moves
the cursor. `Progress` states it for vaults and factory alike (`CursorsBehind`),
and adds that what a tick has taken out of its window is on record, as is
everything before the window (`InOrder`), and that no log has an entry, and no
cursor a place, beyond the head. For the second, `Reckoned` counts an event on
record once no tick has it in hand: a row, and a balance a tick has read, is at
least the pool less what the counted events debit (`Weighs`), an event is in one
tick's hand only (`Alone`), and the vault holds the pool less all debits. A tick
that fails after the insertion only adds to what is counted, never to what was
taken off; that is why the row errs on the high side. The debits are a sum over
a set of positions, stated without recursion as in the next paragraph. For the
third, the course of a paycard is a function over its vault's log that starts
with no row and goes on with each event (`Traced`). While nothing has disturbed
a vault, one tick at most works on its row, on the last event on record, and the
row is where the course is before or after that event; a record without a gap
makes it the end of the course, which is the registry's entry.

**`GatewayProofs`** proves `NeverUnderstated`, `SnapshotMovesForward` and
`ActiveIsScheduled`, under every hazard, and `ConvergesToChain` under none.
`Ledger` says what may be anywhere while
the keys are intact: a log's key is its place on the chain (`ChainTells`), a log
on its way is one of the chain, waits once and is not yet on file, and memory
agrees with the disk (`HandledOnce`); the snapshot was debited for logs on file
only, less the one whose event is written and not yet applied (`Reached`). What
those logs debit is a sum over a set of positions. It is stated without
recursion: `Weighed` asks for some function on sets of positions that grows by a
log's amount with the log (`Tally`), and `TallyGrows` extends it with the chain.
The snapshot shows at least the pool less the debits on file, the vault holds
the pool less all of them. `ConvergesToChain` assumes `Hazards = {}`: processes
that end between two handlers, repeated reports and repeated backfills remain,
and each of the six hazards alone refutes it (TLC finds the trace within the
bounds of `MCGatewaySteady`). `Following` adds to `Ledger` that the file holds
the first `n` logs, that those that wait, and those the backfill and the
subscription have still to report, follow in order (`InTurn`), and that for every
stream some course over the chain, which starts absent and goes on with what a
handler makes of each log, ends in the vault's entry and passes through the
snapshot at the last applied log (`OnCourse`).

**`PactProofs`** proves `FundedOnChain`, `FundedWasSigned`, `FormedUnderItsPath`,
`CommandsOnce`, `OpeningIsLasting`, `OpeningAuthorized` and, where no hazard
reopens a settled Pact, `SettledIsFinal`. The invariant `Sound` says of every
observation in flight that it was true of the chain when it was made and still is
(`StillTrue`), since a Paycard's terms, payouts and termination only grow
(`ChainKeeps`); so recording it late is sound. `ExposureRespected` assumes that
the hazards `hasty` and `afterlife` are absent and that revisions of a Path never
lower its limit (`NeverTighter`), as the run does: `WithinCeiling` counts every
standing Pact, those that await signatures among them, and only `CreatePact`
adds one. `SettledIsPaid` assumes that `rerecord` is absent: a settled Pact's
receipts cover its terms, and so does every final settlement in flight
(`Covering`), since payouts and receipts only grow. `Untouched` keeps work away from
Pacts that do not exist, and `Lasting` is the action property that the last
three theorems share.

**`LivePaymentsProofs`** proves `ChargedPerCause` and `ChargedOnce` from one
invariant that assumes nothing of what has happened (`Kept`), and
`SettledInFull` from a second one (`Course`) that adds what holds until
`disturbed`. `Kept` is `Sound` and `Charges`. `Sound` has the types and what every
screen, the Pact and the queue know of the Paycards they name, whatever has
happened. `Charges` counts. While the Pact
may still be prepared, `Chargeable` are the Paycards that are open, bound, or may
still be opened from a live draft, a page or the queue, `Drafting` the pages that
wait for a draft; together they are at most one more than `doubled` (`Potential`).
Every step that adds to one of the two sets takes from it elsewhere or is counted.
That is not inductive as it stands: the next page to ask may be given a new draft
although one Paycard is chargeable, because the Paycard the Pact is bound to cannot
be opened any more (`Astray`) or was found too late (`LateDraft`). One of the
counted events has led there, and while it is so (`Renewing`) the two sets are at
most `doubled`, so that the new draft finds room. `ChargedOnce` follows with the binding
of the one Paycard. `Course` says that there is one draft and one Paycard at most
(`OneDraft`, `OneCard`), each screen of a page knows of the kernel
and the server what its buttons take for granted (`InPhase`), the vault's payouts
and the balance left make up the allocation (`Balanced`), and a recovery records
the payouts it found in the order of the chain, so that the payout recorded last is
the one that completes the sum (`Settling`). Sums are counted unit by unit:
`Units` is a set of pairs, whose size grows by an amount when a payout of that
amount is added.

## 6. Only model-checked

Liveness (fairness and `ENABLED` are beyond the prover): `EveryStreamPaysOut`,
`EventuallyInStep`, `ExpiryNoticed`, `EventuallyIndexed`, `EventuallyResolved`,
`EventuallySettled`, `EventuallyClaimed`. Of the safety properties
`PaidReadsSettled`: its proof would have to carry `Balanced` and `Settling` through
overlapping recordings. Every other invariant and every action property that a
passing run checks is the statement of a theorem. `ResolvedIsFinal`
and `SettledIsFinal` are proved only, in no run. Where a property needs a hazard
to be absent, or Paths that never tighten, the theorem says so and the run's
constants agree with it.

## 7. Not modelled

* Hub V1 and the older factory builds: the frozen predecessors of hub V2, the
  same state machine, function for function; V1 recovers the payer from the
  signature instead of comparing it. The workflow NFT and the test tokens:
  one-step operations on balances that hold nothing for others.
* `OrUsdFaucet`: one atomic claim with a cooldown over a test token. The faucet
  worker: one handler over an eventually consistent key-value store whose limits
  on gifts of gas are best-effort; no property holds of them under overlap and
  none is claimed.
* The gateway's webhooks, heartbeat and parser: deliveries are fire-and-forget
  and feed nothing back.
* The kernel's HTTP server, typed data, canonical hashing and plugins: routing,
  hashing and pure checks. A hash is the value it commits to, and a plugin's
  verdict a free choice.
* Sign-in and sessions of the gasok-web server, the openSession and x402 workers,
  the local server: request handlers that keep nothing for another request, but
  for expiring tokens.
* SDK, CLI, MCP server: they build and sign envelopes on the caller's side; where
  that matters (what is signed over which nonce, what is sent again) it is part
  of `Relay` and `LivePayments`.
* The front ends, dashboards, scripts, the design system and archived material:
  presentation and deployment. They make up most of the repository's lines, and
  of the share no definition translates.
