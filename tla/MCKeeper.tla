------------------------------ MODULE MCKeeper ------------------------------
(* Instances of Keeper for TLC.                                            *)
EXTENDS Keeper

CONSTANTS payer, payee, treasury, idA, idB, track, cron, operator

Envelope1(id, pool, velocity, lifespan, nonce) ==
    [id |-> id, payer |-> payer, recipient |-> payee, pool |-> pool,
     velocity |-> velocity, genesis |-> 0, lifespan |-> lifespan,
     residual |-> payer, channel |-> track, nonce |-> nonce]

\* Three units of two tokens each; an odd token is left at the end.
Salary == Envelope1(idA, 7, 2, 3, 0)
\* A one-shot payment.
Gift == Envelope1(idB, 1, 0, 0, 1)

MCEnvelopes == {Salary, Gift}

MCPurse == [a \in Accounts |-> IF a = payer THEN 16 ELSE 0]
=============================================================================
