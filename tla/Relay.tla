-------------------------------- MODULE Relay --------------------------------
(***************************************************************************)
(* Sponsored payments.  The payment page (cockpit newPayment) has the      *)
(* payer sign an intent and an EIP-2612 permit; a flow is posted to        *)
(* /relay-open, a card becomes a link whose holders post it to             *)
(* /relay-claim or claim it with a wallet of their own (useRailsActions).  *)
(* The relay (reconciliation-worker) lands the permit, tries the opening   *)
(* by staticCall and sends it from its one keeper account, whose nonces    *)
(* all requests share.  Transactions of the account are mined in order;    *)
(* calls fail, answers are lost, workers end.                              *)
(*                                                                         *)
(* Abstractions: one payer; balances, expiries and deadlines suffice; a    *)
(* wallet's own transaction lands at once, though its sender may not hear  *)
(* of it; an envelope signed again over the same nonces is the same; the   *)
(* estimate of gas before a send, which repeats the check, is left out.    *)
(***************************************************************************)
EXTENDS Integers, Sequences, FiniteSets

CONSTANTS
    Flows, Links,  \* the payments: made at once, and minted as bearer cards
    Payee,         \* who a flow is for
    Claimers,      \* holders of the links who ask the relay,
    Wallets,       \* and those who use a wallet of their own
    Requests,      \* requests the relay serves side by side
    None,
    Amount,        \* of every payment
    MaxTries,      \* bounds of the model: signings of a flow,
    MaxFaults      \* failed calls, lost answers and ended workers

Deals == Flows \cup Links
Envelopes == [deal : Deals, nonce : Nat, permit : Nat]

ASSUME RelayAssumption ==
    /\ Flows \cap Links = {} /\ Payee \notin Claimers \cup Wallets
    /\ None \notin Deals \cup Requests \cup Envelopes
    /\ Amount \in [Deals -> Nat \ {0}]
    /\ {MaxTries, MaxFaults} \subseteq Nat

VARIABLES
    track,    \* accountNonceTracks of the payer, channel 0
    opened,   \* the channels opened in the hub: envelope and recipient
    token,    \* the payer's permit nonce and the hub's allowance
    link,     \* the envelope a link carries
    page,     \* what the payment page is doing
    paid,     \* the flows the page has shown as paid
    req,      \* the requests at the relay
    account,  \* of the keeper: transactions mined, and those on their way
    tries, faults,
    again     \* history: signings of a flow that had been opened already

vars == <<track, opened, token, link, page, paid, req, account, tries, faults, again>>
chain == <<track, opened, token>>
payer == <<link, page, paid, tries, again>>

NoPage == [at |-> "idle", deal |-> None, nonce |-> 0, request |-> None]
NoRequest ==
    [at |-> "idle", env |-> None, to |-> None, nonce |-> 0, seen |-> <<>>, receipt |-> "none"]

\* The channel an envelope opens exists: registry[paycardId].payer is not zero.
IsOpen(d, n) == \E o \in opened : o.env.deal = d /\ o.env.nonce = n
OpenedDeal(d) == {o \in opened : o.env.deal = d}

-----------------------------------------------------------------------------
(* The token and the hub.                                                  *)

PermitHolds(env) == env.permit = token.nonce

\* Faulty: the hub does not look at the envelope's nonce.
OpenHoldsAnyNonce(env) ==
    ~IsOpen(env.deal, env.nonce) /\ token.allowance >= Amount[env.deal]
OpenHolds(env) ==
    /\ env.nonce = track
    /\ ~IsOpen(env.deal, env.nonce)
    /\ token.allowance >= Amount[env.deal]

Permitted(env) == token' = [nonce |-> token.nonce + 1, allowance |-> Amount[env.deal]]

Opened(env, to) ==
    /\ track' = track + 1
    /\ opened' = opened \cup {[env |-> env, to |-> to]}
    /\ token' = [token EXCEPT !.allowance = @ - Amount[env.deal]]

Seen == <<track, token>>

PendingNonce == account.mined + Len(account.pool)
Oldest == Head(account.pool)

Holds(tx) == IF tx.what = "permit" THEN PermitHolds(tx.env) ELSE OpenHolds(tx.env)

\* The oldest transaction of the account is mined: a revert has no effect.  The
\* request that waits for it finds the receipt.
Mine ==
    /\ account.pool # <<>>
    /\ account' = [mined |-> account.mined + 1, pool |-> Tail(account.pool)]
    /\ IF ~Holds(Oldest) THEN UNCHANGED chain
       ELSE IF Oldest.what = "open" THEN Opened(Oldest.env, Oldest.to)
       ELSE Permitted(Oldest.env) /\ UNCHANGED <<track, opened>>
    /\ req' = [r \in Requests |->
           IF req[r].at \in {"permitWait", "wait"} /\ req[r].nonce = account.mined
           THEN [req[r] EXCEPT !.receipt = IF Holds(Oldest) THEN "ok" ELSE "reverted"]
           ELSE req[r]]
    /\ UNCHANGED <<payer, faults>>

-----------------------------------------------------------------------------
(* The payment page.                                                       *)

\* The nonce is read and the intent signed; a paid flow and a minted link are
\* not signed again.
SignIntent(d) ==
    /\ page = NoPage
    /\ IF d \in Links THEN link[d] = None ELSE d \notin paid /\ tries[d] < MaxTries
    /\ page' = [NoPage EXCEPT !.at = "signed", !.deal = d, !.nonce = track]
    /\ tries' = IF d \in Flows THEN [tries EXCEPT ![d] = @ + 1] ELSE tries
    /\ again' = IF d \in Flows /\ OpenedDeal(d) # {} THEN [again EXCEPT ![d] = @ + 1] ELSE again
    /\ UNCHANGED <<chain, link, paid, req, account, faults>>

\* The envelope with a permit over the permit nonce of the moment.
Envelope == [deal |-> page.deal, nonce |-> page.nonce, permit |-> token.nonce]

Enters(r, env, to) ==
    /\ req[r] = NoRequest
    /\ req' = [req EXCEPT ![r] = [NoRequest EXCEPT !.at = "permit", !.env = env, !.to = to]]

PostFlow(r) ==
    /\ page.at = "signed" /\ page.deal \in Flows
    /\ Enters(r, Envelope, Payee)
    /\ page' = [page EXCEPT !.at = "waiting", !.request = r]
    /\ UNCHANGED <<chain, link, paid, tries, again, account, faults>>

MintLink ==
    /\ page.at = "signed" /\ page.deal \in Links
    /\ link' = [link EXCEPT ![page.deal] = Envelope]
    /\ page' = NoPage
    /\ UNCHANGED <<chain, paid, tries, again, req, account, faults>>

\* The wallet declines, or a read fails: the page shows an error.
Declined ==
    /\ page.at \in {"signed", "approved"}
    /\ page' = NoPage
    /\ UNCHANGED <<chain, link, paid, tries, again, req, account, faults>>

\* The self-submit path approves only when the allowance is short.
SelfApprove ==
    /\ page.at = "signed" /\ page.deal \in Flows
    /\ IF token.allowance < Amount[page.deal]
       THEN token' = [token EXCEPT !.allowance = Amount[page.deal]]
       ELSE UNCHANGED token
    /\ page' = [page EXCEPT !.at = "approved"]
    /\ UNCHANGED <<track, opened, link, paid, tries, again, req, account, faults>>

\* The page waits 120 s for the receipt and may not see it.
SelfOpen ==
    /\ page.at = "approved"
    /\ IF OpenHolds(Envelope)
       THEN Opened(Envelope, Payee) /\ paid' \in {paid, paid \cup {page.deal}}
       ELSE UNCHANGED <<chain, paid>>
    /\ page' = NoPage
    /\ UNCHANGED <<link, tries, again, req, account, faults>>

\* The relay's answer arrives; everything but a success is shown as an error.
PageHears ==
    /\ page.at = "waiting" /\ req[page.request].at \in {"ok", "refused", "error"}
    /\ paid' = IF req[page.request].at = "ok" THEN paid \cup {page.deal} ELSE paid
    /\ page' = NoPage
    /\ req' = [req EXCEPT ![page.request] = NoRequest]
    /\ UNCHANGED <<chain, link, tries, again, account, faults>>

\* fetch fails: the relay may go on with the request.
AnswerLost ==
    /\ page.at = "waiting" /\ faults < MaxFaults
    /\ faults' = faults + 1
    /\ page' = NoPage
    /\ UNCHANGED <<chain, link, paid, tries, again, req, account>>

-----------------------------------------------------------------------------
(* The holders of the links.                                               *)

PostClaim(d, c, r) ==
    /\ link[d] # None
    /\ Enters(r, link[d], c)
    /\ UNCHANGED <<chain, payer, account, faults>>

\* With the holder's own wallet: a permit that fails is passed over.
SelfPermit(d) ==
    /\ link[d] # None /\ PermitHolds(link[d])
    /\ Permitted(link[d])
    /\ UNCHANGED <<track, opened, payer, req, account, faults>>

SelfClaim(d, c) ==
    /\ link[d] # None /\ OpenHolds(link[d])
    /\ Opened(link[d], c)
    /\ UNCHANGED <<payer, req, account, faults>>

-----------------------------------------------------------------------------
(* The relay.                                                              *)

At(r, stage) == req[r].at = stage
Goes(r, stage) ==
    req' = [req EXCEPT ![r] = [NoRequest EXCEPT !.at = stage, !.env = req[r].env, !.to = req[r].to]]
Checked(r, stage) == req' = [req EXCEPT ![r].at = stage, ![r].seen = Seen]

\* relayClaim goes on without its permit, relayOpen gives up.
\* Faulty: both give up.
UnpermittedGivesUp(r, answer) == answer
Unpermitted(r, answer) == IF req[r].env.deal \in Links THEN "check" ELSE answer

CheckPermit(r) ==
    /\ At(r, "permit")
    /\ IF PermitHolds(req[r].env)
       THEN Checked(r, "permitNonce")
       ELSE Goes(r, Unpermitted(r, "refused"))
    /\ UNCHANGED <<chain, payer, account, faults>>

\* Faulty: the precheck lets everything pass.
NoPrecheck(env) == TRUE
Precheck(env) == OpenHolds(env)

CheckOpen(r) ==
    /\ At(r, "check")
    /\ IF Precheck(req[r].env)
       THEN Checked(r, "nonce")
       ELSE Goes(r, "refused")
    /\ UNCHANGED <<chain, payer, account, faults>>

\* ethers asks for the account's pending nonce before every send.
ReadNonce(r) ==
    /\ req[r].at \in {"permitNonce", "nonce"}
    /\ req' = [req EXCEPT ![r].at = IF @ = "nonce" THEN "send" ELSE "permitSend",
                          ![r].nonce = PendingNonce]
    /\ UNCHANGED <<chain, payer, account, faults>>

\* The node refuses a nonce that has been taken meanwhile.
NonceFree(r) == req[r].nonce = PendingNonce

Send(r, what, next, onError) ==
    IF NonceFree(r)
    THEN /\ account' = [account EXCEPT !.pool = Append(@,
               [what |-> what, env |-> req[r].env, to |-> req[r].to, seen |-> req[r].seen])]
         /\ req' = [req EXCEPT ![r].at = next, ![r].seen = <<>>]
    ELSE /\ Goes(r, onError)
         /\ UNCHANGED account

SendPermit(r) ==
    /\ At(r, "permitSend")
    /\ Send(r, "permit", "permitWait", Unpermitted(r, "error"))
    /\ UNCHANGED <<chain, payer, faults>>

SendOpen(r) ==
    /\ At(r, "send")
    /\ Send(r, "open", "wait", "error")
    /\ UNCHANGED <<chain, payer, faults>>

\* tx.wait() throws for a transaction that reverted.
\* Faulty: being mined is good enough.
MinedIsGood(r) == TRUE
Confirmed(r) == req[r].receipt = "ok"

AwaitReceipt(r) ==
    /\ req[r].receipt # "none"
    /\ Goes(r, IF At(r, "wait") THEN IF Confirmed(r) THEN "ok" ELSE "error"
               ELSE IF Confirmed(r) THEN "check" ELSE Unpermitted(r, "error"))
    /\ UNCHANGED <<chain, payer, account, faults>>

\* A call fails where the request stands; what was sent stays sent.
CallFails(r) ==
    /\ ~At(r, "idle") /\ req[r].at \notin {"ok", "refused", "error"} /\ faults < MaxFaults
    /\ faults' = faults + 1
    /\ Goes(r, CASE At(r, "permit") -> Unpermitted(r, "refused")
                 [] At(r, "check") -> "refused"
                 [] req[r].at \in {"permitNonce", "permitSend", "permitWait"} -> Unpermitted(r, "error")
                 [] OTHER -> "error")
    /\ UNCHANGED <<chain, payer, account>>

\* The worker ends: whoever asked is told nothing more than that it failed.
WorkerEnds(r) ==
    /\ ~At(r, "idle") /\ faults < MaxFaults
    /\ faults' = faults + 1
    /\ Goes(r, "error")
    /\ UNCHANGED <<chain, payer, account>>

\* The answer goes to a holder, or to a page that has stopped listening.
Answered(r) ==
    /\ req[r].at \in {"ok", "refused", "error"} /\ page.request # r
    /\ req' = [req EXCEPT ![r] = NoRequest]
    /\ UNCHANGED <<chain, payer, account, faults>>

-----------------------------------------------------------------------------
Init ==
    /\ track = 0 /\ opened = {} /\ token = [nonce |-> 0, allowance |-> 0]
    /\ link = [d \in Links |-> None] /\ page = NoPage /\ paid = {}
    /\ req = [r \in Requests |-> NoRequest] /\ account = [mined |-> 0, pool |-> <<>>]
    /\ tries = [d \in Flows |-> 0] /\ faults = 0 /\ again = [d \in Flows |-> 0]

Serve(r) ==
    \/ CheckPermit(r) \/ CheckOpen(r) \/ ReadNonce(r) \/ SendPermit(r) \/ SendOpen(r)
    \/ AwaitReceipt(r) \/ Answered(r)

Claim(d) == \E c \in Claimers, r \in Requests : PostClaim(d, c, r)

Next ==
    \/ Mine
    \/ \E d \in Deals : SignIntent(d)
    \/ MintLink \/ Declined \/ SelfApprove \/ SelfOpen \/ PageHears \/ AnswerLost
    \/ \E d \in Links : Claim(d) \/ SelfPermit(d)
    \/ \E d \in Links, c \in Wallets : SelfClaim(d, c)
    \/ \E r \in Requests : PostFlow(r) \/ Serve(r) \/ CallFails(r) \/ WorkerEnds(r)

\* Blocks come, requests are served, pages listen, and whoever holds a link goes
\* on trying.
Fairness ==
    /\ WF_vars(Mine) /\ WF_vars(PageHears)
    /\ \A r \in Requests : WF_vars(Serve(r))
    /\ \A d \in Links : SF_vars(Claim(d))

Spec == Init /\ [][Next]_vars
FairSpec == Spec /\ Fairness

-----------------------------------------------------------------------------
(* Properties.                                                             *)

\* Whoever is told that it worked has the channel: of several holders of one
\* card only the one it was opened to, and a flow shown as paid is paid.
AnsweredTruly ==
    /\ \A r \in Requests :
          At(r, "ok") => [env |-> req[r].env, to |-> req[r].to] \in opened
    /\ \A d \in paid : OpenedDeal(d) # {}

\* A card is claimed once, and a flow is paid again only when it is signed again
\* after it has landed unheard: to try again after any other failure, with the
\* first attempt still on its way, is safe.
PaidOnce ==
    /\ \A d \in Flows : Cardinality(OpenedDeal(d)) <= 1 + again[d]
    /\ \A d \in Links : Cardinality(OpenedDeal(d)) <= 1

\* The keeper pays for a revert only when the payer's nonce or allowance moved
\* between the precheck and the block: never for a card it could see was
\* claimed, voided or unfunded.
GasLostInRacesOnly ==
    [][(account'.mined > account.mined /\ ~Holds(Oldest)) => Oldest.seen # Seen]_vars

\* Another payment has taken the link's nonce, or a smaller permit its allowance.
Voided(d) ==
    /\ link[d] # None
    /\ \/ link[d].nonce < track
       \/ ~PermitHolds(link[d]) /\ token.allowance < Amount[d]

\* A holder who goes on trying gets the card, whatever fails in between, also
\* when its permit has landed and its opening has not; unless it is voided.
EventuallyClaimed == \A d \in Links : (link[d] # None) ~> (OpenedDeal(d) # {} \/ Voided(d))
=============================================================================
