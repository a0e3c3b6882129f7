------------------------------- MODULE MCRelay -------------------------------
(* Instances of Relay for TLC.                                             *)
EXTENDS Relay

CONSTANTS none, rent, card, shop, ann, bob, r1, r2

\* The card is worth more than the flow, whose permit is then too small for it.
Amounts == [d \in Deals |-> IF d \in Links THEN 2 ELSE 1]
=============================================================================
