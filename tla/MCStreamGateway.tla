--------------------------- MODULE MCStreamGateway ---------------------------
(* Instances of StreamGateway for TLC.                                     *)
EXTENDS StreamGateway

CONSTANTS stream, gift

\* A stream of two tokens that expires, and a one-shot payment.
MCPool == [id \in Ids |-> IF id = stream THEN 2 ELSE 1]
MCExpiry == [id \in Ids |-> IF id = stream THEN 1 ELSE 0]
=============================================================================
