---------------------------- MODULE StreamEscrow ----------------------------
(***************************************************************************)
(* What a payment vault promises, without saying how it keeps books.       *)
(*                                                                         *)
(* A deal escrows a pool.  At time t its recipient is entitled to a sum    *)
(* that depends on the terms and on t alone.  Paying a deal brings the     *)
(* recipient to that entitlement; closing it does the same first and only  *)
(* then returns the rest.  There is no checkpoint and no running balance:  *)
(* how often and when a deal was paid makes no difference.                 *)
(***************************************************************************)
EXTENDS Integers

CONSTANT PaycardIds

VARIABLES now, deal, paid, refunded

vars == <<now, deal, paid, refunded>>

Lesser(a, b) == IF a <= b THEN a ELSE b

\* Seconds of the stream that have elapsed at t, never beyond its lifespan.
Elapsed(d, t) ==
    IF t <= d.genesis THEN 0 ELSE Lesser(t - d.genesis, d.lifespan)

\* What the recipient of deal d may have received by time t.
Entitlement(d, t) ==
    IF d.lifespan = 0 THEN d.pool
    ELSE Lesser(d.pool, Elapsed(d, t) * d.velocity)

Terms == [pool : Nat \ {0}, velocity : Nat, genesis : Nat, lifespan : Nat,
          phase : {"open"}]

-----------------------------------------------------------------------------

Init ==
    /\ now \in Nat
    /\ \A id \in PaycardIds : deal[id].phase = "none"
    /\ paid = [id \in PaycardIds |-> 0]
    /\ refunded = [id \in PaycardIds |-> 0]

TimePasses ==
    /\ now' \in Nat
    /\ now' > now
    /\ UNCHANGED <<deal, paid, refunded>>

\* A deal is struck once, for terms that have not already run out.
Agree(id) ==
    /\ deal[id].phase = "none"
    /\ deal'[id] \in Terms
    /\ deal'[id].lifespan > 0 => now < deal'[id].genesis + deal'[id].lifespan
    /\ deal' = [deal EXCEPT ![id] = deal'[id]]
    /\ UNCHANGED <<now, paid, refunded>>

\* The recipient is brought up to date; a deal whose pool is spent is closed.
Pay(id) ==
    LET due == Entitlement(deal[id], now) IN
    /\ deal[id].phase = "open"
    /\ paid' = [paid EXCEPT ![id] = due]
    /\ deal' = [deal EXCEPT ![id].phase =
                    IF due = deal[id].pool THEN "closed" ELSE "open"]
    /\ UNCHANGED <<now, refunded>>

\* The recipient is brought up to date and whatever is left goes back.
Close(id) ==
    LET due == Entitlement(deal[id], now) IN
    /\ deal[id].phase = "open"
    /\ paid' = [paid EXCEPT ![id] = due]
    /\ refunded' = [refunded EXCEPT ![id] = deal[id].pool - due]
    /\ deal' = [deal EXCEPT ![id].phase = "closed"]
    /\ UNCHANGED now

Next ==
    \/ TimePasses
    \/ \E id \in PaycardIds : Agree(id) \/ Pay(id) \/ Close(id)

Spec == Init /\ [][Next]_vars

=============================================================================
