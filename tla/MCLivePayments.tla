--------------------------- MODULE MCLivePayments ---------------------------
(* Instances of LivePayments for TLC.                                      *)
EXTENDS LivePayments

CONSTANTS none, tab, phone

\* At most two of: a page closed while it is busy, a failure, a step by others,
\* a cause for a second Paycard.  Where there is such a cause, what matters is
\* over when the proof is handed in.
Bounded ==
    /\ closes + failures + others + doubled <= 2
    /\ doubled > 0 => ~pact.checkpointed
=============================================================================
