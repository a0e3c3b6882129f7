------------------------------- MODULE MCVault -------------------------------
(* Instances of Vault for TLC.                                             *)
EXTENDS Vault

CONSTANTS payer, payee, treasury, idA, idB, track

Stream(pool, velocity, genesis, lifespan, nonce) ==
    [id |-> idA, payer |-> payer, recipient |-> payee, pool |-> pool,
     velocity |-> velocity, genesis |-> genesis, lifespan |-> lifespan,
     residual |-> treasury, channel |-> track, nonce |-> nonce]

\* Starts late, outruns its pool, leaves one token over at the horizon.
Bound == Stream(3, 1, 1, 2, 0)
\* Open to any claimant; the pool runs dry before the horizon.
Bearer == [Stream(3, 2, 0, 4, 1) EXCEPT !.id = idB, !.recipient = Zero]
\* A one-shot payment that competes with Bound for nonce 0.
Instant == [Stream(2, 0, 0, 0, 0) EXCEPT !.id = idB]
\* A later nonce for an id that may already be taken.
Again == Stream(1, 1, 0, 3, 2)
\* The same id, signed by somebody else.
Rival == [Stream(2, 1, 2, 3, 0) EXCEPT !.payer = treasury]
\* A velocity so high that two unsettled blocks of it exceed MaxWord, as the
\* largest uint256 velocities do.
Torrent == [Bearer EXCEPT !.velocity = 5]
\* Never signed: another recipient, and a well-formedness failure.
Forged == [Bound EXCEPT !.recipient = payer]
Hollow == [Instant EXCEPT !.pool = 0]

MCSigned == {Bound, Bearer, Instant, Again, Rival, Hollow, Torrent}
MCSubmitted == MCSigned \cup {Forged}
MCStartWallet ==
    [a \in Accounts |-> CASE a = payer -> 6 [] a = treasury -> 2 [] OTHER -> 0]
=============================================================================
