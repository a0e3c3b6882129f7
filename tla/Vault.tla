------------------------------- MODULE Vault -------------------------------
(***************************************************************************)
(* The payment vault, contracts/v2-factory/ArcOpenRailsHubV2Initializable  *)
(* .sol.  One action per external function; a call that reverts is a step  *)
(* that is not taken.  Every call is atomic (EVM transaction, nonReentrant *)
(* on all functions that move money).                                      *)
(*                                                                         *)
(* Abstractions: the metadata hash is opaque and left out; the settlement  *)
(* token is a plain ERC-20 with a sufficient allowance; block timestamps   *)
(* advance one unit at a time up to MaxTime.                               *)
(***************************************************************************)
EXTENDS Integers, FiniteSets

CONSTANTS
    Accounts,    \* externally owned addresses
    Zero,        \* address(0)
    PaycardIds,
    Channels,    \* nonce channels
    Submitted,   \* envelopes somebody may hand to the vault
    Signed,      \* those among them their payer has signed
    StartWallet, \* token balances before the first call
    Deployer,    \* owner given to initialize
    MaxTime,     \* bound of the model: the last block timestamp
    MaxWord      \* type(uint256).max; checked arithmetic reverts above it

ChannelStatus == {"Active", "Terminated"}

Envelope ==
    [id : PaycardIds, payer : Accounts, recipient : Accounts \cup {Zero},
     pool : Nat, velocity : Nat, genesis : Nat, lifespan : Nat,
     residual : Accounts \cup {Zero}, channel : Channels, nonce : Nat]

ASSUME VaultAssumption ==
    /\ Zero \notin Accounts
    /\ Submitted \subseteq Envelope
    /\ Signed \subseteq Submitted
    /\ StartWallet \in [Accounts -> Nat]
    /\ Deployer \in Accounts
    /\ MaxTime \in Nat
    /\ MaxWord \in Nat

VARIABLES
    now,          \* block.timestamp
    owner, pendingOwner, isPaused,
    nonces,       \* accountNonceTracks[account][channel]
    registry,     \* registry[paycardId]
    wallet,       \* settlementToken.balanceOf(account)
    escrow,       \* settlementToken.balanceOf(vault)
    paid,         \* history: total of SettlementFlushed per paycard
    refunded,     \* history: total of ResidualDeltaReclaimed per paycard
    redeemed      \* history: the envelopes that opened a paycard

admin == <<owner, pendingOwner, isPaused>>
money == <<nonces, registry, wallet, escrow, paid, refunded, redeemed>>
vars  == <<now, owner, pendingOwner, isPaused, nonces, registry, wallet,
           escrow, paid, refunded, redeemed>>

Lesser(a, b) == IF a <= b THEN a ELSE b

-----------------------------------------------------------------------------
(* Accrual: _settlePaycard without its transfer.                           *)

\* The zero value of the registry mapping: its status reads Active.
Blank ==
    [payer |-> Zero, recipient |-> Zero, pool |-> 0, available |-> 0,
     velocity |-> 0, genesis |-> 0, lifespan |-> 0, checkpoint |-> 0,
     residual |-> Zero, status |-> "Active"]

Active(c) == c.status = "Active"
Opened(c) == c.payer # Zero

Horizon(c) == c.genesis + c.lifespan

\* Faulty variants stand before the definition they vary: here, an accrual that
\* runs past the horizon, then one that counts from genesis every time.
EpochPastHorizon(c, t) == t
EvaluatedEpoch(c, t) ==
    IF c.lifespan = 0 THEN t ELSE Lesser(t, Horizon(c))

DebtSinceGenesis(c, t) ==
    IF c.lifespan = 0 THEN c.available
    ELSE IF EvaluatedEpoch(c, t) <= c.checkpoint THEN 0
    ELSE (EvaluatedEpoch(c, t) - c.genesis) * c.velocity
AccruedDebt(c, t) ==
    IF c.lifespan = 0 THEN c.available
    ELSE IF EvaluatedEpoch(c, t) <= c.checkpoint THEN 0
    ELSE (EvaluatedEpoch(c, t) - c.checkpoint) * c.velocity

\* Faulty: nothing is paid before the horizon.
PayoutAtHorizonOnly(c, t) ==
    IF t < Horizon(c) THEN 0 ELSE Lesser(AccruedDebt(c, t), c.available)
Payout(c, t) == Lesser(AccruedDebt(c, t), c.available)

\* The only fields of an entry that ever change.
Moved(c, available, checkpoint, status) ==
    [c EXCEPT !.available = available, !.checkpoint = checkpoint,
              !.status = status]

StatusAfter(c, t) ==
    IF AccruedDebt(c, t) >= c.available THEN "Terminated" ELSE c.status

\* Faulty: a drained stream stays active; the balance is not written back.
SettledKeepsActive(c, t) ==
    IF AccruedDebt(c, t) = 0 THEN c
    ELSE Moved(c, c.available - Payout(c, t), EvaluatedEpoch(c, t), c.status)
SettledForgetsBalance(c, t) ==
    IF AccruedDebt(c, t) = 0 THEN c
    ELSE Moved(c, c.available, EvaluatedEpoch(c, t), StatusAfter(c, t))
\* The registry entry as _settlePaycard leaves it.
Settled(c, t) ==
    IF AccruedDebt(c, t) = 0 THEN c
    ELSE Moved(c, c.available - Payout(c, t), EvaluatedEpoch(c, t),
               StatusAfter(c, t))

\* Solidity's checked multiplication; a one-shot payment needs none.
Representable(c, t) == c.lifespan > 0 => AccruedDebt(c, t) <= MaxWord

\* What flushResidualDelta sends to the residual recipient.
Residual(c, t) == Settled(c, t).available

Flushed(c, t) ==
    Moved(Settled(c, t), 0, Settled(c, t).checkpoint, "Terminated")

-----------------------------------------------------------------------------
(* Token movements out of the vault.                                       *)

Credit(c, out, back) ==
    [a \in Accounts |-> wallet[a] + (IF a = c.recipient THEN out ELSE 0)
                                  + (IF a = c.residual THEN back ELSE 0)]

Release(id, after, out, back) ==
    /\ registry' = [registry EXCEPT ![id] = after]
    /\ wallet' = Credit(registry[id], out, back)
    /\ escrow' = escrow - out - back
    /\ paid' = [paid EXCEPT ![id] = @ + out]
    /\ refunded' = [refunded EXCEPT ![id] = @ + back]
    /\ UNCHANGED <<now, admin, nonces, redeemed>>

-----------------------------------------------------------------------------
(* Opening.                                                                *)

Registered(id) == Opened(registry[id])

WellFormed(e) ==
    /\ e.pool # 0
    /\ e.residual # Zero
    /\ e.lifespan > 0 => e.velocity # 0

\* The TimeWindowClosed guard; a sum that overflows reverts too.
WindowOpen(e, t) ==
    e.lifespan > 0 => /\ Horizon(e) <= MaxWord
                      /\ t < Horizon(e)

\* The EIP-712 digest covers every field and the recipient as signed; faulty
\* when the recipient is left out of it.
SignatureSkipsRecipient(e, signedRecipient) ==
    \E s \in Signed : [s EXCEPT !.recipient = Zero] = [e EXCEPT !.recipient = Zero]
SignatureValid(e, signedRecipient) ==
    [e EXCEPT !.recipient = signedRecipient] \in Signed

\* Faulty: any later nonce will do.
NonceNotStale(e) == nonces[e.payer][e.channel] <= e.nonce
NonceExpected(e) == nonces[e.payer][e.channel] = e.nonce

\* Faulty: a terminated id may be reused.
CollisionUnlessActive(id) == Active(registry[id]) /\ Registered(id)
Collision(id) == Registered(id)

NewCard(e, storedRecipient) ==
    [payer |-> e.payer, recipient |-> storedRecipient, pool |-> e.pool,
     available |-> e.pool, velocity |-> e.velocity, genesis |-> e.genesis,
     lifespan |-> e.lifespan, checkpoint |-> e.genesis,
     residual |-> e.residual, status |-> "Active"]

\* _openPaycardChannel, with the whenNotPaused of both its callers.
OpenChannel(e, signedRecipient, storedRecipient) ==
    /\ ~isPaused
    /\ ~Collision(e.id)
    /\ WellFormed(e)
    /\ WindowOpen(e, now)
    /\ SignatureValid(e, signedRecipient)
    /\ NonceExpected(e)
    /\ wallet[e.payer] >= e.pool
    /\ nonces' = [nonces EXCEPT ![e.payer][e.channel] = e.nonce + 1]
    /\ wallet' = [wallet EXCEPT ![e.payer] = @ - e.pool]
    /\ escrow' = escrow + e.pool
    /\ registry' = [registry EXCEPT ![e.id] = NewCard(e, storedRecipient)]
    /\ redeemed' = redeemed \cup {[e EXCEPT !.recipient = signedRecipient]}
    /\ UNCHANGED <<now, admin, paid, refunded>>

-----------------------------------------------------------------------------
(* External functions.                                                     *)

Init ==
    /\ now = 0
    /\ owner = Deployer
    /\ pendingOwner = Zero
    /\ isPaused = FALSE
    /\ nonces = [a \in Accounts |-> [ch \in Channels |-> 0]]
    /\ registry = [id \in PaycardIds |-> Blank]
    /\ wallet = StartWallet
    /\ escrow = 0
    /\ paid = [id \in PaycardIds |-> 0]
    /\ refunded = [id \in PaycardIds |-> 0]
    /\ redeemed = {}

OpenPaycardChannel(e) ==
    /\ e.recipient # Zero
    /\ OpenChannel(e, e.recipient, e.recipient)

ClaimWildcardPaycardChannel(e, claimRecipient) ==
    /\ claimRecipient # Zero
    /\ OpenChannel(e, Zero, claimRecipient)

MaySettle(id) == Active(registry[id])

\* Anyone may call it.  An id nobody registered reads Active and owes nothing.
ProcessDripSettle(id) ==
    LET c == registry[id] IN
    /\ MaySettle(id)
    /\ Representable(c, now)
    /\ Release(id, Settled(c, now), Payout(c, now), 0)

FlushResidualDelta(caller, id) ==
    LET c == registry[id] IN
    /\ caller \in {c.payer, c.recipient}
    /\ Active(c)
    /\ Representable(c, now)
    /\ Release(id, Flushed(c, now), Payout(c, now), Residual(c, now))

TransferOwnership(newOwner) ==
    /\ pendingOwner' = newOwner
    /\ UNCHANGED <<now, owner, isPaused, money>>

AcceptOwnership ==
    /\ pendingOwner # Zero
    /\ owner' = pendingOwner
    /\ pendingOwner' = Zero
    /\ UNCHANGED <<now, isPaused, money>>

Pause ==
    /\ isPaused' = TRUE
    /\ UNCHANGED <<now, owner, pendingOwner, money>>

Unpause ==
    /\ isPaused' = FALSE
    /\ UNCHANGED <<now, owner, pendingOwner, money>>

Tick ==
    /\ now < MaxTime
    /\ now' = now + 1
    /\ UNCHANGED <<admin, money>>

Next ==
    \/ Tick
    \/ \E e \in Submitted : OpenPaycardChannel(e)
    \/ \E e \in Submitted, a \in Accounts : ClaimWildcardPaycardChannel(e, a)
    \/ \E id \in PaycardIds : ProcessDripSettle(id)
    \/ \E a \in Accounts, id \in PaycardIds : FlushResidualDelta(a, id)
    \/ \E a \in Accounts : TransferOwnership(a)
    \/ AcceptOwnership \/ Pause \/ Unpause

Spec == Init /\ [][Next]_vars

-----------------------------------------------------------------------------
(* What must hold.                                                         *)

DealOf(c) ==
    [pool |-> c.pool, velocity |-> c.velocity, genesis |-> c.genesis,
     lifespan |-> c.lifespan,
     phase |-> IF ~Opened(c) THEN "none"
               ELSE IF Active(c) THEN "open" ELSE "closed"]

Escrow == INSTANCE StreamEscrow
            WITH deal <- [id \in PaycardIds |-> DealOf(registry[id])]

Card ==
    [payer : Accounts \cup {Zero}, recipient : Accounts \cup {Zero},
     pool : Nat, available : Nat, velocity : Nat, genesis : Nat,
     lifespan : Nat, checkpoint : Nat, residual : Accounts \cup {Zero},
     status : ChannelStatus]

\* Every variable keeps its type; in particular no balance goes below zero.
TypeOK ==
    /\ now \in Nat
    /\ owner \in Accounts
    /\ pendingOwner \in Accounts \cup {Zero}
    /\ isPaused \in BOOLEAN
    /\ nonces \in [Accounts -> [Channels -> Nat]]
    /\ registry \in [PaycardIds -> Card]
    /\ wallet \in [Accounts -> Nat]
    /\ escrow \in Nat
    /\ paid \in [PaycardIds -> Nat]
    /\ refunded \in [PaycardIds -> Nat]
    /\ redeemed \subseteq Envelope

\* Solvency: the vault holds exactly the tokens its paycards are owed, counted
\* coin by coin, so no payout of one paycard is financed by another's pool.
Stack(id, n) == {<<id, k>> : k \in 1..n}
Coins(balance) == UNION {Stack(id, balance[id]) : id \in PaycardIds}
Solvent ==
    LET owed == Coins([id \in PaycardIds |-> registry[id].available]) IN
    /\ IsFiniteSet(owed)
    /\ escrow = Cardinality(owed)

\* Each pool is accounted for: what was paid, returned and is still held adds
\* up to the allocation; a terminated paycard holds nothing, and one that is
\* still active has returned nothing and has something left to pay.
Accounted(c, p, r) ==
    /\ p + r + c.available = c.pool
    /\ ~Active(c) => c.available = 0
    /\ Opened(c) /\ Active(c) => r = 0 /\ c.available > 0
PoolAccounted ==
    \A id \in PaycardIds : Accounted(registry[id], paid[id], refunded[id])

\* Settling a stream often or seldom makes no difference: what its recipient
\* has been paid is the entitlement at the checkpoint, never rounded, doubled
\* or lost by the number of processDripSettle calls, and the checkpoint never
\* leaves the window [genesis, horizon] nor runs ahead of the clock.
OnSchedule(c, p, t) ==
    c.lifespan > 0 =>
        /\ p = Escrow!Entitlement(c, c.checkpoint)
        /\ c.genesis <= c.checkpoint
        /\ c.checkpoint <= Horizon(c)
        /\ c.checkpoint > c.genesis => c.checkpoint <= t
PaidPerSchedule ==
    \A id \in PaycardIds : OnSchedule(registry[id], paid[id], now)

\* Signatures are spent one by one: on every nonce track the redeemed envelopes
\* carry the nonces 0 .. n-1, each exactly once.
NonceTrackLinear ==
    \A a \in Accounts, ch \in Channels :
        LET spent == {e \in redeemed : e.payer = a /\ e.channel = ch} IN
        /\ {e.nonce : e \in spent} = 0..(nonces[a][ch] - 1)
        /\ \A e, f \in spent : e.nonce = f.nonce => e = f

\* Every registered paycard is one its payer signed for: same terms, and the
\* signed recipient unless the payer left the recipient open.
CardsAsSigned ==
    \A id \in PaycardIds : Registered(id) =>
        LET c == registry[id] IN
        \E s \in Signed \cap redeemed :
            /\ s.id = id /\ s.payer = c.payer
            /\ s.recipient \in {c.recipient, Zero}
            /\ s.pool = c.pool /\ s.velocity = c.velocity
            /\ s.genesis = c.genesis /\ s.lifespan = c.lifespan
            /\ s.residual = c.residual

\* A payer or recipient who closes a stream early cannot take what has already
\* been earned: a refund leaves the recipient paid in full up to this block.
NoClawback ==
    [][\A id \in PaycardIds : refunded'[id] # refunded[id] =>
          /\ paid'[id] = Escrow!Entitlement(registry[id], now)
          /\ ~Active(registry'[id])]_vars

\* A paycard's terms never change and a terminated paycard never comes back:
\* its id cannot be reused, settled or flushed again.
TermsFrozen ==
    [][\A id \in PaycardIds : Registered(id) =>
          /\ LET new == registry'[id] IN
             new = Moved(registry[id], new.available, new.checkpoint, new.status)
          /\ ~Active(registry[id]) => registry'[id] = registry[id]
      ]_vars

\* The books kept by checkpoint and running balance implement the closed-form
\* escrow of StreamEscrow.
ImplementsEscrow == Escrow!Spec

\* An open paycard can be settled and closed at any later time, however long
\* nobody has touched it, unless its rate outgrows a word within its lifespan:
\* such a stream reverts in processDripSettle and in flushResidualDelta alike.
ClosableWithinWord ==
    \A id \in PaycardIds :
        LET c == registry[id] IN
        Registered(id) /\ c.velocity * c.lifespan <= MaxWord => Representable(c, now)

=============================================================================
