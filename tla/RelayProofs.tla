----------------------------- MODULE RelayProofs -----------------------------
(***************************************************************************)
(* Nobody is told of a payment that was not made, and none is made twice:  *)
(* for any number of payments, holders, requests, retries and faults.      *)
(***************************************************************************)
EXTENDS Relay, FiniteSetTheorems, TLAPS

People == {Payee, None} \cup Claimers \cup Wallets
TokenState == [nonce : Nat, allowance : Int]
SeenState == {<<>>} \cup (Nat \X TokenState)
PageState ==
    [at : {"idle", "signed", "waiting", "approved"}, deal : Deals \cup {None}, nonce : Nat,
     request : Requests \cup {None}]
Waiting == {"permitWait", "wait"}
Stages == {"idle", "permit", "permitNonce", "permitSend", "check", "nonce", "send", "ok",
           "refused", "error"} \cup Waiting
ReqState ==
    [at : Stages, env : Envelopes \cup {None}, to : People, nonce : Nat, seen : SeenState,
     receipt : {"none", "ok", "reverted"}]
TxState == [what : {"permit", "open"}, env : Envelopes, to : People, seen : SeenState]
Opening == [env : Envelopes, to : People]

\* A link's envelope is the only one there is for it.
EnvGood(e) ==
    /\ e \in Envelopes /\ e.nonce <= track
    /\ e.deal \in Links => link[e.deal] # None /\ e = link[e.deal]

\* The permit or the opening of e would take effect in the state seen.
HoldsAt(what, e, seen) ==
    /\ what = "permit" => e.permit = seen[2].nonce
    /\ what = "open" => e.nonce = seen[1] /\ seen[2].allowance >= Amount[e.deal]

\* The transaction that the request q waits for is on its way.
InPool(q) ==
    /\ q.nonce - account.mined + 1 \in DOMAIN account.pool
    /\ LET tx == account.pool[q.nonce - account.mined + 1]
       IN  /\ tx.env = q.env /\ tx.to = q.to
           /\ tx.what = (IF q.at = "wait" THEN "open" ELSE "permit")

HasOpened(q) == [env |-> q.env, to |-> q.to] \in opened

ReqGood(q) ==
    /\ q \in ReqState
    /\ q.at # "idle" => EnvGood(q.env)
    /\ q.at \in {"permitNonce", "permitSend"} => HoldsAt("permit", q.env, q.seen)
    /\ q.at \in {"nonce", "send"} => HoldsAt("open", q.env, q.seen)
    /\ q.at \in Waiting /\ q.receipt = "none" => InPool(q)
    /\ q.receipt # "none" => q.at \in Waiting /\ q.nonce < account.mined
    /\ q.at = "wait" /\ q.receipt = "ok" => HasOpened(q)
    /\ q.at = "ok" => HasOpened(q)

ChainGood ==
    /\ track \in Nat /\ token \in TokenState
    /\ opened \subseteq Opening
    /\ \A o \in opened : o.env.nonce < track /\ EnvGood(o.env)
    /\ \A o, u \in opened : o.env.nonce = u.env.nonce => o = u

LinksGood ==
    /\ link \in [Links -> Envelopes \cup {None}]
    /\ \A d \in Links : link[d] # None => link[d].deal = d /\ link[d].nonce <= track

PageGood ==
    /\ page \in PageState
    /\ page.at # "idle" => page.deal \in Deals /\ page.nonce <= track
    /\ page.at # "idle" /\ page.deal \in Links => page.at = "signed" /\ link[page.deal] = None
    /\ page.at = "waiting" =>
          /\ page.request \in Requests
          /\ req[page.request].at # "idle"
          /\ req[page.request].env.deal = page.deal

TxGood(tx) == tx \in TxState /\ EnvGood(tx.env) /\ HoldsAt(tx.what, tx.env, tx.seen)

PoolGood ==
    /\ account \in [mined : Nat, pool : Seq(TxState)]
    /\ \A i \in DOMAIN account.pool : TxGood(account.pool[i])

ReqsGood == req \in [Requests -> ReqState] /\ \A r \in Requests : ReqGood(req[r])

PaidGood == \A d \in paid : OpenedDeal(d) # {}

\* Somewhere there is an envelope for d over the nonce n.
Around(d, n) ==
    \/ page.at # "idle" /\ page.deal = d /\ page.nonce = n
    \/ \E r \in Requests : req[r].at # "idle" /\ req[r].env.deal = d /\ req[r].env.nonce = n
    \/ \E i \in DOMAIN account.pool :
          account.pool[i].env.deal = d /\ account.pool[i].env.nonce = n
    \/ \E o \in opened : o.env.deal = d /\ o.env.nonce = n

\* The envelopes that may open a flow once more were signed after an opening:
\* their nonces are in the set S, and were counted.
CountedBy(d, S) ==
    /\ IsFiniteSet(S) /\ Cardinality(S) <= again[d]
    /\ \A n : Around(d, n) => n \in S \/ \A o \in OpenedDeal(d) : n <= o.env.nonce

CountsGood ==
    /\ again \in [Flows -> Nat]
    /\ \A d \in Flows : \E S : CountedBy(d, S)

\* The invariant.
Honest ==
    /\ ChainGood /\ LinksGood /\ PageGood /\ PoolGood /\ ReqsGood /\ PaidGood /\ CountsGood

\* A transaction more, and the account is still a sequence of them.
LEMMA AppendTyped ==
    ASSUME NEW S, NEW s \in Seq(S), NEW t \in S
    PROVE  /\ Append(s, t) \in Seq(S)
           /\ DOMAIN Append(s, t) = 1..(Len(s) + 1) /\ DOMAIN s = 1..Len(s) /\ Len(s) \in Nat
           /\ \A i \in DOMAIN s : Append(s, t)[i] = s[i]
           /\ Append(s, t)[Len(s) + 1] = t
OBVIOUS

\* So it is when one is gone.
LEMMA TailTyped ==
    ASSUME NEW S, NEW s \in Seq(S), s # <<>>
    PROVE  Tail(s) \in Seq(S)
OBVIOUS

USE RelayAssumption DEF Waiting

-----------------------------------------------------------------------------
(* What a check says.                                                      *)

\* Whether a transaction takes effect is known from the track and the token.
LEMMA HoldsIsSeen ==
    ASSUME ChainGood, NEW e \in Envelopes
    PROVE  /\ PermitHolds(e) <=> HoldsAt("permit", e, Seen)
           /\ OpenHolds(e) <=> HoldsAt("open", e, Seen)
<1>1. PermitHolds(e) <=> HoldsAt("permit", e, Seen)
  BY DEF PermitHolds, HoldsAt, Seen
<1>2. e.nonce = track => ~IsOpen(e.deal, e.nonce)
  <2>1. SUFFICES ASSUME e.nonce = track, NEW o \in opened, o.env.nonce = e.nonce PROVE FALSE
    BY DEF IsOpen
  <2>2. o.env.nonce < track /\ track \in Nat
    BY DEF ChainGood
  <2> QED
    BY <2>1, <2>2
<1>3. OpenHolds(e) <=> HoldsAt("open", e, Seen)
  BY <1>2 DEF OpenHolds, HoldsAt, Seen
<1> QED
  BY <1>1, <1>3

\* What a check remembers is a track and a state of the token.
LEMMA SeenTyped ==
    ASSUME ChainGood
    PROVE  Seen \in SeenState
BY DEF ChainGood, Seen, SeenState

\* A transaction that does not take effect has been overtaken since its check.
LEMMA OldestHolds ==
    ASSUME ChainGood, PoolGood, account.pool # <<>>, Oldest.seen = Seen
    PROVE  Holds(Oldest)
<1>1. Oldest \in TxState /\ TxGood(Oldest)
  <2>1. PICK s \in Seq(TxState) : s = account.pool
    BY DEF PoolGood
  <2>2. 1 \in DOMAIN s /\ Head(s) = s[1]
    BY <2>1
  <2> QED
    BY <2>1, <2>2 DEF PoolGood, TxGood, Oldest
<1>2. PICK tx \in TxState : tx = Oldest
  BY <1>1
<1>3. tx.env \in Envelopes /\ tx.what \in {"permit", "open"} /\ HoldsAt(tx.what, tx.env, Seen)
  BY <1>1, <1>2 DEF TxGood, TxState
<1> QED
  BY <1>2, <1>3, HoldsIsSeen DEF Holds

-----------------------------------------------------------------------------
(* What stays true as the chain and the links move on.                     *)

Forward ==
    /\ track \in Nat /\ track' \in Nat /\ track <= track'
    /\ opened \subseteq opened'
    /\ \A d \in Links : link[d] # None => link'[d] = link[d]

\* An envelope that was good stays good: the track only grows, a link stays.
LEMMA EnvOutlives ==
    ASSUME Forward, NEW e, EnvGood(e)
    PROVE  EnvGood(e)'
<1>1. e.nonce \in Nat /\ e \in Envelopes
  BY DEF EnvGood, Envelopes
<1> QED
  BY <1>1 DEF EnvGood, Forward

\* So does a request, while the account stands still,
LEMMA ReqOutlives ==
    ASSUME Forward, UNCHANGED account, NEW q, ReqGood(q)
    PROVE  ReqGood(q)'
<1>1. EnvGood(q.env) => EnvGood(q.env)'
  BY EnvOutlives
<1>2. HasOpened(q) => HasOpened(q)'
  BY DEF HasOpened, Forward
<1>3. InPool(q) => InPool(q)'
  BY DEF InPool
<1>4. \A what, e, s : HoldsAt(what, e, s)' = HoldsAt(what, e, s)
  BY DEF HoldsAt
<1> QED
  BY <1>1, <1>2, <1>3, <1>4 DEF ReqGood

\* and so do the transactions of the account.
LEMMA PoolOutlives ==
    ASSUME Forward, UNCHANGED account, PoolGood
    PROVE  PoolGood'
<1>1. ASSUME NEW i \in DOMAIN account.pool PROVE TxGood(account.pool[i])'
  <2>1. PICK tx : tx = account.pool[i]
    OBVIOUS
  <2>2. TxGood(tx)
    BY <2>1 DEF PoolGood
  <2>3. EnvGood(tx.env)'
    BY <2>2, EnvOutlives DEF TxGood
  <2> QED
    BY <2>1, <2>2, <2>3 DEF TxGood, HoldsAt
<1> QED
  BY <1>1 DEF PoolGood

\* A chain that only gains a permit or an allowance stays good.
LEMMA ChainOutlives ==
    ASSUME ChainGood, Forward, UNCHANGED <<track, opened>>, token' \in TokenState
    PROVE  ChainGood'
<1>1. ASSUME NEW o \in opened PROVE EnvGood(o.env)'
  <2>1. PICK e : e = o.env
    OBVIOUS
  <2>2. EnvGood(e)'
    BY <2>1, EnvOutlives DEF ChainGood
  <2> QED
    BY <2>1, <2>2
<1> QED
  BY <1>1 DEF ChainGood

\* So does one that gains an opening which held.
LEMMA OpeningGood ==
    ASSUME ChainGood, NEW e, EnvGood(e), NEW to \in People, OpenHolds(e), Opened(e, to),
           UNCHANGED link
    PROVE  Forward /\ ChainGood'
<1>1. /\ track \in Nat /\ track' = track + 1 /\ e \in Envelopes /\ e.nonce = track
      /\ opened' = opened \cup {[env |-> e, to |-> to]}
      /\ token' = [token EXCEPT !.allowance = token.allowance - Amount[e.deal]]
  BY DEF ChainGood, Opened, OpenHolds, EnvGood
<1>2. Forward
  BY <1>1 DEF Forward
<1>3. token' \in TokenState
  <2>1. PICK t \in TokenState : t = token
    BY DEF ChainGood
  <2>2. PICK n \in Int : n = token.allowance - Amount[e.deal]
    <3>1. e.deal \in Deals
      BY <1>1 DEF Envelopes
    <3> QED
      BY <2>1, <3>1 DEF TokenState
  <2> QED
    BY <1>1, <2>1, <2>2 DEF TokenState
<1>4. PICK new : new = [env |-> e, to |-> to]
  OBVIOUS
<1>5. new \in Opening /\ new.env = e
  BY <1>1, <1>4 DEF Opening
<1>6. \A o \in opened : o.env.nonce \in Nat /\ o.env.nonce < track /\ EnvGood(o.env)
  BY DEF ChainGood, Opening, Envelopes
<1>7. ASSUME NEW o \in opened' PROVE o.env.nonce < track' /\ EnvGood(o.env)'
  <2>1. PICK f : f = o.env
    OBVIOUS
  <2>2. EnvGood(f)
    BY <1>1, <1>4, <1>5, <1>6, <2>1
  <2>3. EnvGood(f)'
    BY <1>2, <2>2, EnvOutlives
  <2>4. f.nonce < track'
    BY <1>1, <1>4, <1>5, <1>6, <2>1
  <2> QED
    BY <2>1, <2>3, <2>4
<1>8. \A o, u \in opened' : o.env.nonce = u.env.nonce => o = u
  BY <1>1, <1>4, <1>5, <1>6 DEF ChainGood
<1> QED
  BY <1>1, <1>2, <1>3, <1>4, <1>5, <1>7, <1>8 DEF ChainGood

\* Every envelope there is was signed over a nonce the track has reached.
LEMMA AroundBounded ==
    ASSUME Honest, NEW d, NEW n, Around(d, n)
    PROVE  n \in Nat /\ n <= track
<1>1. track \in Nat
  BY DEF Honest, ChainGood
<1>2. \A e : EnvGood(e) => e.nonce \in Nat /\ e.nonce <= track
  BY DEF EnvGood, Envelopes
<1>3. CASE page.at # "idle" /\ page.nonce = n
  BY <1>3 DEF Honest, PageGood, PageState
<1>4. CASE \E r \in Requests : req[r].at # "idle" /\ req[r].env.nonce = n
  BY <1>2, <1>4 DEF Honest, ReqsGood, ReqGood
<1>5. CASE \E i \in DOMAIN account.pool : account.pool[i].env.nonce = n
  BY <1>2, <1>5 DEF Honest, PoolGood, TxGood
<1>6. CASE \E o \in opened : o.env.nonce = n
  BY <1>2, <1>6 DEF Honest, ChainGood
<1> QED
  BY <1>3, <1>4, <1>5, <1>6 DEF Around

\* Without a new signing, no count changes.
LEMMA CountsStay ==
    ASSUME Honest, UNCHANGED again,
           \A d \in Flows : \A n : Around(d, n)' => Around(d, n),
           \A o \in opened' : o \in opened \/ o.env.nonce = track
    PROVE  CountsGood'
<1>1. ASSUME NEW d \in Flows PROVE \E S : CountedBy(d, S)'
  <2>1. PICK S : CountedBy(d, S)
    BY DEF Honest, CountsGood
  <2>2. ASSUME NEW n, Around(d, n)', n \notin S, NEW o \in OpenedDeal(d)'
        PROVE  n <= o.env.nonce
    <3>1. Around(d, n)
      BY <2>2
    <3>2. \A u \in OpenedDeal(d) : n <= u.env.nonce
      BY <2>1, <2>2, <3>1 DEF CountedBy
    <3>3. n <= track
      BY <3>1, AroundBounded
    <3> QED
      BY <2>2, <3>2, <3>3 DEF OpenedDeal
  <2>3. CountedBy(d, S)'
    BY <2>1, <2>2 DEF CountedBy
  <2> QED
    BY <2>3
<1> QED
  BY <1>1 DEF Honest, CountsGood

\* One request moves on, or becomes free.
LEMMA OneRequest ==
    ASSUME Honest, UNCHANGED <<chain, payer, account>>, NEW r \in Requests, NEW q,
           req' = [req EXCEPT ![r] = q], ReqGood(q),
           \/ q.at = "idle" /\ page.request # r
           \/ q.at # "idle" /\ req[r].at # "idle" /\ q.env = req[r].env
    PROVE  Honest'
<1>1. Forward
  BY DEF Honest, ChainGood, Forward, chain, payer
<1>2. req \in [Requests -> ReqState] /\ q \in ReqState
  BY DEF Honest, ReqsGood, ReqGood
<1>3. req' \in [Requests -> ReqState] /\ req'[r] = q /\ \A s \in Requests \ {r} : req'[s] = req[s]
  BY <1>2
<1>4. ReqsGood'
  <2>1. ASSUME NEW s \in Requests PROVE ReqGood(req[s])'
    <3>1. PICK p : p = req'[s]
      OBVIOUS
    <3>2. ReqGood(p)
      BY <1>3, <3>1 DEF Honest, ReqsGood
    <3>3. ReqGood(p)'
      BY <1>1, <3>2, ReqOutlives
    <3> QED
      BY <3>1, <3>3
  <2> QED
    BY <1>3, <2>1 DEF ReqsGood
<1>5. ChainGood' /\ LinksGood' /\ PaidGood' /\ PoolGood'
  <2>1. ChainGood' /\ PoolGood'
    BY <1>1, ChainOutlives, PoolOutlives DEF Honest, ChainGood, chain
  <2> QED
    BY <2>1 DEF Honest, LinksGood, PaidGood, OpenedDeal, chain, payer
<1>6. PageGood'
  <2>1. UNCHANGED <<page, link, track>>
    BY DEF chain, payer
  <2>2. page.at = "waiting" =>
          /\ page.request \in Requests
          /\ req'[page.request].at # "idle"
          /\ req'[page.request].env.deal = page.deal
    BY <1>3 DEF Honest, PageGood
  <2> QED
    BY <2>1, <2>2 DEF Honest, PageGood
<1>7. CountsGood'
  <2>1. ASSUME NEW d \in Flows, NEW n, Around(d, n)' PROVE Around(d, n)
    BY <1>3, <2>1 DEF Around, chain, payer
  <2> QED
    BY <2>1, CountsStay DEF chain, payer
<1> QED
  BY <1>4, <1>5, <1>6, <1>7 DEF Honest

-----------------------------------------------------------------------------
(* The relay's steps.                                                      *)

\* A request goes on to a stage that asks for nothing, or to a true answer.
LEMMA GoesSound ==
    ASSUME Honest, UNCHANGED <<chain, payer, account>>, NEW r \in Requests, NEW stage,
           stage \in {"check", "refused", "error", "ok"}, stage = "ok" => HasOpened(req[r]),
           req[r].at # "idle", Goes(r, stage)
    PROVE  Honest'
<1>1. PICK q \in ReqState : q = req[r] /\ ReqGood(q)
  BY DEF Honest, ReqsGood
<1> DEFINE p == [NoRequest EXCEPT !.at = stage, !.env = q.env, !.to = q.to]
<1>2. /\ p.at = stage /\ p.env = q.env /\ p.to = q.to /\ p.receipt = "none"
      /\ p \in ReqState
  BY <1>1 DEF NoRequest, ReqState, Stages, SeenState
<1>3. ReqGood(p)
  BY <1>1, <1>2 DEF ReqGood, HasOpened
<1>4. req' = [req EXCEPT ![r] = p]
  BY <1>1 DEF Goes
<1>5. p.at # "idle" /\ req[r].at # "idle" /\ p.env = req[r].env
  BY <1>1, <1>2
<1> HIDE DEF p
<1> QED
  BY <1>3, <1>4, <1>5, OneRequest

\* A check that held is remembered with what it saw.
LEMMA CheckedSound ==
    ASSUME Honest, UNCHANGED <<chain, payer, account>>, NEW r \in Requests,
           \/ /\ req[r].at = "permit" /\ PermitHolds(req[r].env)
              /\ Checked(r, "permitNonce")
           \/ /\ req[r].at = "check" /\ OpenHolds(req[r].env)
              /\ Checked(r, "nonce")
    PROVE  Honest'
<1>1. PICK q \in ReqState : q = req[r] /\ ReqGood(q)
  BY DEF Honest, ReqsGood
<1>2. EnvGood(q.env) /\ q.env \in Envelopes
  BY <1>1 DEF ReqGood, EnvGood
<1>3. Seen \in SeenState
  BY SeenTyped DEF Honest
<1>4. PICK s \in SeenState : s = Seen
  BY <1>3
<1>5. PICK stage \in {"permitNonce", "nonce"} :
          /\ stage = "permitNonce" => HoldsAt("permit", q.env, s)
          /\ stage = "nonce" => HoldsAt("open", q.env, s)
          /\ q.at \notin Waiting /\ q.at # "idle"
          /\ Checked(r, stage)
  BY <1>1, <1>2, <1>4, HoldsIsSeen DEF Honest
<1> DEFINE p == [q EXCEPT !.at = stage, !.seen = s]
<1>6. /\ p.at = stage /\ p.env = q.env /\ p.seen = s /\ p.receipt = q.receipt
      /\ p \in ReqState
  BY <1>5 DEF ReqState, Stages
<1>7. ReqGood(p)
  BY <1>1, <1>2, <1>5, <1>6 DEF ReqGood
<1>8. req' = [req EXCEPT ![r] = p]
  BY <1>1, <1>4, <1>5 DEF Checked, Honest, ReqsGood
<1>9. p.at # "idle" /\ req[r].at # "idle" /\ p.env = req[r].env
  BY <1>1, <1>5, <1>6
<1> HIDE DEF p
<1> QED
  BY <1>7, <1>8, <1>9, OneRequest

\* A nonce is read for what was checked.
LEMMA ReadNonceSound ==
    ASSUME Honest, NEW r \in Requests, ReadNonce(r)
    PROVE  Honest'
<1>1. PICK q \in ReqState : q = req[r] /\ ReqGood(q)
  BY DEF Honest, ReqsGood
<1>2. PICK n \in Nat : n = PendingNonce
  BY DEF Honest, PoolGood, PendingNonce
<1>3. PICK stage : stage = IF q.at = "nonce" THEN "send" ELSE "permitSend"
  OBVIOUS
<1> DEFINE p == [q EXCEPT !.at = stage, !.nonce = n]
<1>4. /\ p.at = stage /\ p.env = q.env /\ p.seen = q.seen /\ p.receipt = q.receipt
      /\ p \in ReqState
  BY <1>3 DEF ReqState, Stages
<1>5. q.at \in {"permitNonce", "nonce"}
  BY <1>1 DEF ReadNonce
<1>6. ReqGood(p)
  BY <1>1, <1>3, <1>4, <1>5 DEF ReqGood
<1>7. req' = [req EXCEPT ![r] = p]
  BY <1>1, <1>2, <1>3 DEF ReadNonce, Honest, ReqsGood
<1>8. p.at # "idle" /\ req[r].at # "idle" /\ p.env = req[r].env
  BY <1>1, <1>3, <1>4, <1>5
<1> HIDE DEF p
<1> QED
  BY <1>6, <1>7, <1>8, OneRequest DEF ReadNonce

\* An answer is delivered, and the request is free.
LEMMA AnsweredSound ==
    ASSUME Honest, NEW r \in Requests, Answered(r)
    PROVE  Honest'
<1>1. ReqGood(NoRequest)
  BY DEF ReqGood, NoRequest, ReqState, Stages, SeenState, People
<1>2. NoRequest.at = "idle"
  BY DEF NoRequest
<1> QED
  BY <1>1, <1>2, OneRequest DEF Answered

\* An answer that is no success, or the way on without the permit.
LEMMA StageSound ==
    ASSUME Honest, NEW r \in Requests, NEW answer \in {"refused", "error"}
    PROVE  Unpermitted(r, answer) \in {"check", "refused", "error"}
BY DEF Unpermitted

\* The permit is checked: it holds, or the request goes on or ends without it.
LEMMA CheckPermitSound ==
    ASSUME Honest, NEW r \in Requests, CheckPermit(r)
    PROVE  Honest'
<1>1. req[r].at = "permit" /\ UNCHANGED <<chain, payer, account>>
  BY DEF CheckPermit, At
<1>2. CASE PermitHolds(req[r].env)
  BY <1>1, <1>2, CheckedSound DEF CheckPermit
<1>3. CASE ~PermitHolds(req[r].env)
  <2>1. PICK stage \in {"check", "refused", "error"} : Goes(r, stage)
    BY <1>3, StageSound DEF CheckPermit
  <2> QED
    BY <1>1, <2>1, GoesSound
<1> QED
  BY <1>2, <1>3

\* The opening is checked: it holds, or the request is refused.
LEMMA CheckOpenSound ==
    ASSUME Honest, NEW r \in Requests, CheckOpen(r)
    PROVE  Honest'
<1>1. req[r].at = "check" /\ UNCHANGED <<chain, payer, account>>
  BY DEF CheckOpen, At
<1>2. CASE OpenHolds(req[r].env)
  BY <1>1, <1>2, CheckedSound DEF CheckOpen, Precheck
<1>3. CASE ~OpenHolds(req[r].env)
  BY <1>1, <1>3, GoesSound DEF CheckOpen, Precheck
<1> QED
  BY <1>2, <1>3

\* Success is answered only on the receipt of an opening that was made.
LEMMA AwaitReceiptSound ==
    ASSUME Honest, NEW r \in Requests, AwaitReceipt(r)
    PROVE  Honest'
<1>1. ReqGood(req[r])
  BY DEF Honest, ReqsGood
<1>2. req[r].at \in Waiting /\ req[r].at # "idle" /\ UNCHANGED <<chain, payer, account>>
  BY <1>1 DEF ReqGood, AwaitReceipt
<1>3. PICK stage : /\ Goes(r, stage)
                   /\ \/ stage \in {"check", "refused", "error"}
                      \/ stage = "ok" /\ req[r].at = "wait" /\ req[r].receipt = "ok"
  BY StageSound DEF AwaitReceipt, At, Confirmed
<1>4. stage = "ok" => HasOpened(req[r])
  BY <1>1, <1>3 DEF ReqGood
<1> QED
  BY <1>2, <1>3, <1>4, GoesSound

\* A failed call ends a request, or lets it go on without its permit.
LEMMA CallFailsSound ==
    ASSUME Honest, NEW r \in Requests, CallFails(r)
    PROVE  Honest'
<1>1. req[r].at # "idle" /\ UNCHANGED <<chain, payer, account>>
  BY DEF CallFails, At
<1>2. PICK stage \in {"check", "refused", "error"} : Goes(r, stage)
  BY StageSound DEF CallFails
<1> QED
  BY <1>1, <1>2, GoesSound

\* A worker that ends answers nothing but an error.
LEMMA WorkerEndsSound ==
    ASSUME Honest, NEW r \in Requests, WorkerEnds(r)
    PROVE  Honest'
BY GoesSound DEF WorkerEnds, At

\* What is sent was seen to hold, and its request waits for it.
LEMMA SendSound ==
    ASSUME Honest, NEW r \in Requests, UNCHANGED <<chain, payer>>,
           NEW what \in {"permit", "open"}, NEW next, NEW onError \in {"check", "refused", "error"},
           \/ req[r].at = "permitSend" /\ what = "permit" /\ next = "permitWait"
           \/ req[r].at = "send" /\ what = "open" /\ next = "wait",
           Send(r, what, next, onError)
    PROVE  Honest'
<1>1. CASE ~NonceFree(r)
  BY <1>1, GoesSound DEF Send
<1>2. CASE NonceFree(r)
  <2>1. PICK q \in ReqState : q = req[r] /\ ReqGood(q)
    BY DEF Honest, ReqsGood
  <2>2. EnvGood(q.env) /\ HoldsAt(what, q.env, q.seen) /\ q.receipt = "none"
    BY <2>1 DEF ReqGood, HoldsAt, ReqState
  <2>3. PICK tx : tx = [what |-> what, env |-> q.env, to |-> q.to, seen |-> q.seen]
    OBVIOUS
  <2>4. tx \in TxState /\ TxGood(tx) /\ tx.env = q.env /\ tx.to = q.to /\ tx.what = what
    BY <2>1, <2>2, <2>3 DEF TxState, TxGood, ReqState, EnvGood
  <2>5. PICK s \in Seq(TxState), m \in Nat : account = [mined |-> m, pool |-> s]
    BY DEF Honest, PoolGood
  <2>6. account' = [mined |-> m, pool |-> Append(s, tx)]
    BY <1>2, <2>1, <2>3, <2>5 DEF Send
  <2>7. q.nonce = m + Len(s)
    BY <1>2, <2>1, <2>5 DEF NonceFree, PendingNonce
  <2>8. PICK w \in Seq(TxState) : w = Append(s, tx)
    <3>1. Append(s, tx) \in Seq(TxState)
      BY <2>4, <2>5, AppendTyped
    <3> QED
      BY <3>1
  <2>9. /\ DOMAIN w = 1..(Len(s) + 1) /\ DOMAIN s = 1..Len(s) /\ Len(s) \in Nat
        /\ \A i \in DOMAIN s : w[i] = s[i]
        /\ w[Len(s) + 1] = tx
    BY <2>4, <2>5, <2>8
  <2>10. Forward
    BY DEF Honest, ChainGood, Forward, chain, payer
  <2>11. PoolGood'
    <3>1. ASSUME NEW i \in DOMAIN w PROVE TxGood(w[i])'
      <4>1. PICK t : t = w[i] /\ TxGood(t)
        BY <2>4, <2>5, <2>9 DEF Honest, PoolGood
      <4>2. EnvGood(t.env)'
        BY <2>10, <4>1, EnvOutlives DEF TxGood
      <4> QED
        BY <4>1, <4>2 DEF TxGood, HoldsAt
    <3>2. account' = [mined |-> m, pool |-> w]
      BY <2>6, <2>8
    <3> QED
      BY <2>5, <2>8, <3>1, <3>2 DEF PoolGood
  <2> DEFINE p == [q EXCEPT !.at = next, !.seen = <<>>]
  <2>12. /\ p.at = next /\ p.env = q.env /\ p.to = q.to /\ p.nonce = q.nonce
         /\ p.receipt = "none" /\ p \in ReqState
    BY <2>1, <2>2 DEF ReqState, Stages, SeenState
  <2>13. req' = [req EXCEPT ![r] = p]
    BY <1>2, <2>1 DEF Send, Honest, ReqsGood
  <2> HIDE DEF p
  <2>14. ReqGood(p)'
    <3>1. EnvGood(q.env)'
      BY <2>2, <2>10, EnvOutlives
    <3>2. next \in Waiting /\ what = (IF next = "wait" THEN "open" ELSE "permit")
      OBVIOUS
    <3>3. p.nonce - account'.mined + 1 = Len(s) + 1 /\ account'.pool = w
      BY <2>5, <2>6, <2>7, <2>8, <2>9, <2>12
    <3>4. InPool(p)'
      BY <2>4, <2>9, <2>12, <3>2, <3>3 DEF InPool
    <3> QED
      BY <2>12, <3>1, <3>2, <3>4 DEF ReqGood
  <2>15. ReqsGood'
    <3>1. ASSUME NEW t \in Requests, t # r PROVE ReqGood(req[t])'
      <4>1. PICK u : u = req[t] /\ u = req'[t] /\ ReqGood(u)
        BY <2>13, <3>1 DEF Honest, ReqsGood
      <4>2. EnvGood(u.env) => EnvGood(u.env)'
        BY <2>10, EnvOutlives
      <4>3. InPool(u) => InPool(u)'
        BY <2>5, <2>6, <2>8, <2>9 DEF InPool
      <4>4. /\ HasOpened(u)' = HasOpened(u)
            /\ \A wh, e, sn : HoldsAt(wh, e, sn)' = HoldsAt(wh, e, sn)
            /\ account'.mined = account.mined
        BY <2>5, <2>6 DEF HasOpened, HoldsAt, chain
      <4>5. ReqGood(u)'
        BY <4>1, <4>2, <4>3, <4>4 DEF ReqGood
      <4> QED
        BY <4>1, <4>5
    <3>2. req'[r] = p /\ req' \in [Requests -> ReqState]
      BY <2>12, <2>13 DEF Honest, ReqsGood
    <3> QED
      BY <2>14, <3>1, <3>2 DEF ReqsGood
  <2>16. ChainGood' /\ LinksGood' /\ PaidGood'
    <3>1. ChainGood'
      BY <2>10, ChainOutlives DEF Honest, ChainGood, chain
    <3> QED
      BY <3>1 DEF Honest, LinksGood, PaidGood, OpenedDeal, chain, payer
  <2>17. PageGood'
    <3>1. UNCHANGED <<page, link, track>>
      BY DEF chain, payer
    <3>2. page.at = "waiting" =>
            /\ page.request \in Requests
            /\ req'[page.request].at # "idle"
            /\ req'[page.request].env.deal = page.deal
      BY <2>1, <2>12, <2>13 DEF Honest, PageGood, ReqsGood
    <3> QED
      BY <3>1, <3>2 DEF Honest, PageGood
  <2>18. CountsGood'
    <3>1. ASSUME NEW d \in Flows, NEW n, Around(d, n)' PROVE Around(d, n)
      <4>1. \A t \in Requests : req'[t].at # "idle" => req[t].at # "idle" /\ req'[t].env = req[t].env
        BY <2>1, <2>12, <2>13 DEF Honest, ReqsGood
      <4>2. \A i \in DOMAIN account'.pool :
                \/ i \in DOMAIN account.pool /\ account'.pool[i] = account.pool[i]
                \/ account'.pool[i].env = req[r].env
        BY <2>1, <2>4, <2>5, <2>6, <2>8, <2>9
      <4>3. req[r].at # "idle"
        OBVIOUS
      <4> QED
        BY <3>1, <4>1, <4>2, <4>3 DEF Around, chain, payer
    <3> QED
      BY <3>1, CountsStay DEF chain, payer
  <2> QED
    BY <2>11, <2>15, <2>16, <2>17, <2>18 DEF Honest
<1> QED
  BY <1>1, <1>2

\* Every step that serves a request.
LEMMA ServeSound ==
    ASSUME Honest, NEW r \in Requests, Serve(r)
    PROVE  Honest'
<1>1. CASE SendPermit(r)
  <2>1. Unpermitted(r, "error") \in {"check", "refused", "error"}
    BY StageSound
  <2> QED
    BY <1>1, <2>1, SendSound DEF SendPermit, At
<1>2. CASE SendOpen(r)
  BY <1>2, SendSound DEF SendOpen, At
<1> QED
  BY <1>1, <1>2, CheckPermitSound, CheckOpenSound, ReadNonceSound, AwaitReceiptSound,
     AnsweredSound DEF Serve

-----------------------------------------------------------------------------
(* The steps of the payer and of the holders.                              *)

\* While the account stands still, what it carries stays good.
LEMMA AccountStays ==
    ASSUME Honest, Forward, UNCHANGED account, req' \in [Requests -> ReqState],
           \A s \in Requests : ReqGood(req'[s])
    PROVE  PoolGood' /\ ReqsGood'
<1>1. ASSUME NEW s \in Requests PROVE ReqGood(req[s])'
  <2>1. PICK p : p = req'[s]
    OBVIOUS
  <2>2. ReqGood(p)
    BY <2>1
  <2>3. ReqGood(p)'
    BY <2>2, ReqOutlives
  <2> QED
    BY <2>1, <2>3
<1> QED
  BY <1>1, PoolOutlives DEF ReqsGood, Honest

\* So does all of it when the requests do too.
LEMMA RequestsStay ==
    ASSUME Honest, Forward, UNCHANGED <<req, account>>
    PROVE  PoolGood' /\ ReqsGood'
BY AccountStays DEF Honest, ReqsGood

\* While track, openings and links stand still nothing is lost.
LEMMA ForwardAlone ==
    ASSUME Honest, UNCHANGED <<track, opened, link>>
    PROVE  Forward
BY DEF Honest, ChainGood, Forward

\* The page stops listening, or gives up.
LEMMA PageRests ==
    ASSUME Honest, UNCHANGED <<chain, link, req, account, again>>, page' = NoPage,
           paid' = paid
    PROVE  Honest'
<1>1. Forward
  BY ForwardAlone DEF chain
<1>2. ChainGood' /\ PoolGood' /\ ReqsGood'
  BY <1>1, ChainOutlives, RequestsStay DEF Honest, ChainGood, chain
<1>3. LinksGood' /\ PaidGood'
  BY DEF Honest, LinksGood, PaidGood, OpenedDeal, chain
<1>4. PageGood'
  BY DEF PageGood, NoPage, PageState
<1>5. CountsGood'
  <2>1. ASSUME NEW d \in Flows, NEW n, Around(d, n)' PROVE Around(d, n)
    BY <2>1 DEF Around, chain, NoPage
  <2> QED
    BY <2>1, CountsStay DEF chain
<1> QED
  BY <1>2, <1>3, <1>4, <1>5 DEF Honest

\* The page gives an intent up.
LEMMA DeclinedSound == ASSUME Honest, Declined PROVE Honest'
BY PageRests DEF Declined

\* The page hears nothing; the request it posted goes on.
LEMMA AnswerLostSound == ASSUME Honest, AnswerLost PROVE Honest'
BY PageRests DEF AnswerLost

\* Only an answer that is true makes a flow a paid one.
LEMMA PageHearsSound == ASSUME Honest, PageHears PROVE Honest'
<1>1. /\ page.request \in Requests /\ page.deal \in Deals
      /\ req[page.request].env.deal = page.deal
      /\ ReqGood(req[page.request])
  BY DEF PageHears, Honest, PageGood, ReqsGood
<1>2. Forward
  BY ForwardAlone DEF chain, PageHears
<1>3. ReqGood(NoRequest) /\ NoRequest \in ReqState
  BY DEF ReqGood, NoRequest, ReqState, Stages, SeenState, People
<1>4. req' \in [Requests -> ReqState] /\ \A s \in Requests : ReqGood(req'[s])
  BY <1>3 DEF Honest, ReqsGood, PageHears
<1>5. ChainGood' /\ PoolGood' /\ ReqsGood'
  BY <1>2, <1>4, ChainOutlives, AccountStays DEF Honest, ChainGood, chain, PageHears
<1>6. LinksGood' /\ PageGood'
  BY DEF Honest, LinksGood, PageHears, PageGood, NoPage, PageState, chain
<1>7. PaidGood'
  <2>1. ASSUME NEW d \in paid', d \notin paid PROVE OpenedDeal(d) # {}
    <3>1. d = page.deal /\ req[page.request].at = "ok"
      BY <2>1 DEF PageHears
    <3>2. HasOpened(req[page.request])
      BY <1>1, <3>1 DEF ReqGood
    <3> QED
      BY <1>1, <3>1, <3>2 DEF HasOpened, OpenedDeal
  <2> QED
    BY <2>1 DEF Honest, PaidGood, OpenedDeal, PageHears, chain
<1>8. CountsGood'
  <2>1. ASSUME NEW d \in Flows, NEW n, Around(d, n)' PROVE Around(d, n)
    <3>1. \A s \in Requests : req'[s] = req[s] \/ req'[s] = NoRequest
      BY DEF PageHears, Honest, ReqsGood
    <3> QED
      BY <2>1, <3>1 DEF Around, PageHears, chain, NoPage, NoRequest
  <2> QED
    BY <2>1, CountsStay DEF PageHears, chain
<1> QED
  BY <1>5, <1>6, <1>7, <1>8 DEF Honest

\* A flow signed again after an opening is counted, with its nonce.
LEMMA SignIntentSound == ASSUME Honest, NEW d \in Deals, SignIntent(d) PROVE Honest'
<1>1. Forward
  BY ForwardAlone DEF chain, SignIntent
<1>2. ChainGood' /\ PoolGood' /\ ReqsGood'
  BY <1>1, ChainOutlives, RequestsStay DEF Honest, ChainGood, chain, SignIntent
<1>3. LinksGood' /\ PaidGood'
  BY DEF Honest, LinksGood, PaidGood, OpenedDeal, chain, SignIntent
<1>4. PICK t \in Nat : t = track
  BY DEF Honest, ChainGood
<1>5. /\ page'.at = "signed" /\ page'.deal = d /\ page'.nonce = t
      /\ page' \in PageState
  BY <1>4 DEF SignIntent, NoPage, PageState
<1>6. PageGood'
  BY <1>4, <1>5 DEF PageGood, SignIntent, chain
<1>7. CountsGood'
  <2>1. ASSUME NEW f \in Flows PROVE \E S : CountedBy(f, S)'
    <3>1. PICK S : CountedBy(f, S)
      BY DEF Honest, CountsGood
    <3>2. ASSUME NEW n, Around(f, n)' PROVE Around(f, n) \/ (f = d /\ n = t)
      BY <1>5, <3>2 DEF Around, SignIntent, chain
    <3>3. OpenedDeal(f)' = OpenedDeal(f)
      BY DEF OpenedDeal, SignIntent, chain
    <3>4. CASE f = d /\ OpenedDeal(d) # {}
      <4>1. PICK T : T = S \cup {t}
        OBVIOUS
      <4>2. IsFiniteSet(T) /\ Cardinality(T) <= Cardinality(S) + 1
        <5>1. IsFiniteSet(S) /\ Cardinality(S) \in Nat
          BY <3>1, FS_CardinalityType DEF CountedBy
        <5>2. /\ IsFiniteSet(S \cup {t})
              /\ Cardinality(S \cup {t}) = Cardinality(S) \/ Cardinality(S \cup {t}) = Cardinality(S) + 1
          BY <5>1, FS_AddElement
        <5> QED
          BY <4>1, <5>1, <5>2
      <4>3. again'[f] = again[f] + 1 /\ again[f] \in Nat
        BY <3>4 DEF SignIntent, Honest, CountsGood
      <4>4. Cardinality(T) <= again'[f]
        BY <3>1, <4>2, <4>3, FS_CardinalityType DEF CountedBy
      <4>5. CountedBy(f, T)'
        BY <3>1, <3>2, <3>3, <4>1, <4>2, <4>4 DEF CountedBy
      <4> QED
        BY <4>5
    <3>5. CASE ~(f = d /\ OpenedDeal(d) # {})
      <4>1. again'[f] = again[f]
        BY <3>5 DEF SignIntent, Honest, CountsGood
      <4>2. CountedBy(f, S)'
        BY <3>1, <3>2, <3>3, <3>5, <4>1 DEF CountedBy
      <4> QED
        BY <4>2
    <3> QED
      BY <3>4, <3>5
  <2>2. again' \in [Flows -> Nat]
    <3>1. CASE d \in Flows /\ OpenedDeal(d) # {}
      <4>1. PICK n \in Nat : n = again[d] + 1
        BY <3>1 DEF Honest, CountsGood
      <4> QED
        BY <3>1, <4>1 DEF Honest, CountsGood, SignIntent
    <3>2. CASE ~(d \in Flows /\ OpenedDeal(d) # {})
      BY <3>2 DEF Honest, CountsGood, SignIntent
    <3> QED
      BY <3>1, <3>2
  <2> QED
    BY <2>1, <2>2 DEF CountsGood
<1> QED
  BY <1>2, <1>3, <1>6, <1>7 DEF Honest

\* The page's envelope, or a link's, enters a request that was free.
LEMMA EntersSound ==
    ASSUME Honest, NEW r \in Requests, NEW e, EnvGood(e), NEW to \in People, Enters(r, e, to),
           UNCHANGED <<chain, link, account>>
    PROVE  /\ Forward /\ ChainGood' /\ PoolGood' /\ ReqsGood' /\ LinksGood'
           /\ req'[r].at = "permit" /\ req'[r].env = e
           /\ \A s \in Requests : s # r => req'[s] = req[s]
           /\ page.at = "waiting" => page.request # r
<1>1. Forward
  BY ForwardAlone DEF chain
<1> DEFINE q == [NoRequest EXCEPT !.at = "permit", !.env = e, !.to = to]
<1>2. q \in ReqState /\ q.at = "permit" /\ q.env = e /\ q.receipt = "none"
  BY DEF NoRequest, ReqState, Stages, SeenState, EnvGood
<1>3. ReqGood(q)
  BY <1>2 DEF ReqGood
<1>4. req' = [req EXCEPT ![r] = q] /\ req[r] = NoRequest
  BY DEF Enters
<1> HIDE DEF q
<1>5. /\ req' \in [Requests -> ReqState] /\ req'[r] = q
      /\ \A s \in Requests : s # r => req'[s] = req[s]
  BY <1>2, <1>4 DEF Honest, ReqsGood
<1>6. \A s \in Requests : ReqGood(req'[s])
  BY <1>3, <1>5 DEF Honest, ReqsGood
<1>7. ChainGood' /\ PoolGood' /\ ReqsGood'
  BY <1>1, <1>5, <1>6, ChainOutlives, AccountStays DEF Honest, ChainGood, chain
<1>8. LinksGood'
  BY DEF Honest, LinksGood, chain
<1>9. page.at = "waiting" => page.request # r
  BY <1>4 DEF Honest, PageGood, NoRequest
<1> QED
  BY <1>1, <1>2, <1>5, <1>7, <1>8, <1>9

\* The page's envelope was signed over a nonce the track had reached.
LEMMA EnvelopeGood ==
    ASSUME Honest, page.at # "idle"
    PROVE  /\ Envelope \in Envelopes /\ Envelope.deal = page.deal /\ Envelope.nonce = page.nonce
           /\ page.nonce <= track
           /\ page.deal \in Flows => EnvGood(Envelope)
<1>1. page.deal \in Deals /\ page.nonce <= track /\ page.nonce \in Nat
  BY DEF Honest, PageGood, PageState
<1>2. token.nonce \in Nat
  BY DEF Honest, ChainGood, TokenState
<1>3. Envelope \in Envelopes /\ Envelope.deal = page.deal /\ Envelope.nonce = page.nonce
  BY <1>1, <1>2 DEF Envelope, Envelopes
<1> QED
  BY <1>1, <1>3 DEF EnvGood, Deals

\* The request the page waits for carries the envelope it signed.
LEMMA PostFlowSound == ASSUME Honest, NEW r \in Requests, PostFlow(r) PROVE Honest'
<1>1. page.at = "signed" /\ page.deal \in Flows /\ UNCHANGED <<chain, link, account, paid, again>>
  BY DEF PostFlow
<1>2. PICK e : e = Envelope
  OBVIOUS
<1>3. EnvGood(e) /\ e.deal = page.deal /\ e.nonce = page.nonce
  BY <1>1, <1>2, EnvelopeGood
<1>4. Enters(r, e, Payee) /\ Payee \in People
  BY <1>2 DEF PostFlow, People
<1>5. /\ Forward /\ ChainGood' /\ PoolGood' /\ ReqsGood' /\ LinksGood'
      /\ req'[r].at = "permit" /\ req'[r].env = e
      /\ \A s \in Requests : s # r => req'[s] = req[s]
  BY <1>1, <1>3, <1>4, EntersSound
<1>6. /\ page' \in PageState /\ page'.at = "waiting" /\ page'.deal = page.deal
      /\ page'.nonce = page.nonce /\ page'.request = r
  BY DEF Honest, PageGood, PageState, PostFlow
<1>7. PageGood'
  BY <1>1, <1>3, <1>5, <1>6 DEF PageGood, Honest, Deals, chain
<1>8. PaidGood'
  BY <1>1 DEF Honest, PaidGood, OpenedDeal, chain
<1>9. CountsGood'
  <2>1. ASSUME NEW d \in Flows, NEW n, Around(d, n)' PROVE Around(d, n)
    BY <1>1, <1>3, <1>5, <1>6, <2>1 DEF Around, chain
  <2> QED
    BY <1>1, <2>1, CountsStay DEF chain
<1> QED
  BY <1>5, <1>7, <1>8, <1>9 DEF Honest

\* The request of a holder carries the envelope of the link.
LEMMA PostClaimSound ==
    ASSUME Honest, NEW d \in Links, NEW c \in Claimers, NEW r \in Requests, PostClaim(d, c, r)
    PROVE  Honest'
<1>1. UNCHANGED <<chain, link, page, paid, account, again>>
  BY DEF PostClaim, payer
<1>2. PICK e : e = link[d]
  OBVIOUS
<1>3. EnvGood(e) /\ e.deal = d
  BY <1>2 DEF PostClaim, Honest, LinksGood, EnvGood
<1>4. Enters(r, e, c) /\ c \in People
  BY <1>2 DEF PostClaim, People
<1>5. /\ Forward /\ ChainGood' /\ PoolGood' /\ ReqsGood' /\ LinksGood'
      /\ req'[r].at = "permit" /\ req'[r].env = e
      /\ \A s \in Requests : s # r => req'[s] = req[s]
      /\ page.at = "waiting" => page.request # r
  BY <1>1, <1>3, <1>4, EntersSound
<1>6. PageGood'
  BY <1>1, <1>5 DEF PageGood, Honest, chain
<1>7. PaidGood'
  BY <1>1 DEF Honest, PaidGood, OpenedDeal, chain
<1>8. CountsGood'
  <2>1. ASSUME NEW f \in Flows, NEW n, Around(f, n)' PROVE Around(f, n)
    BY <1>1, <1>3, <1>5, <2>1 DEF Around, chain
  <2> QED
    BY <1>1, <2>1, CountsStay DEF chain
<1> QED
  BY <1>5, <1>6, <1>7, <1>8 DEF Honest

\* A link is minted once: no envelope of it was anywhere before.
LEMMA MintLinkSound == ASSUME Honest, MintLink PROVE Honest'
<1>1. /\ page.at = "signed" /\ page.deal \in Links /\ link[page.deal] = None
      /\ page' = NoPage /\ UNCHANGED <<track, opened, token, paid, req, account, again>>
  BY DEF Honest, PageGood, MintLink, chain
<1>2. PICK e : e = Envelope
  OBVIOUS
<1>3. e \in Envelopes /\ e.deal = page.deal /\ e.nonce <= track
  BY <1>1, <1>2, EnvelopeGood
<1>4. link' = [link EXCEPT ![page.deal] = e]
  BY <1>2 DEF MintLink
<1>5. Forward
  BY <1>1, <1>4 DEF Forward, Honest, ChainGood, LinksGood
<1>6. ChainGood' /\ PoolGood' /\ ReqsGood'
  BY <1>1, <1>5, ChainOutlives, RequestsStay DEF Honest, ChainGood
<1>7. LinksGood'
  BY <1>1, <1>3, <1>4 DEF Honest, LinksGood
<1>8. PageGood' /\ PaidGood'
  BY <1>1 DEF PageGood, NoPage, PageState, Honest, PaidGood, OpenedDeal
<1>9. CountsGood'
  <2>1. ASSUME NEW f \in Flows, NEW n, Around(f, n)' PROVE Around(f, n)
    BY <1>1, <2>1 DEF Around, NoPage
  <2> QED
    BY <1>1, <2>1, CountsStay
<1> QED
  BY <1>6, <1>7, <1>8, <1>9 DEF Honest

\* Only the token moves.
LEMMA TokenMoves ==
    ASSUME Honest, token' \in TokenState, UNCHANGED <<track, opened, link, paid, req, account, again>>,
           \/ UNCHANGED page
           \/ page.deal \in Flows /\ page.at = "signed" /\ page' = [page EXCEPT !.at = "approved"]
    PROVE  Honest'
<1>1. Forward
  BY ForwardAlone
<1>2. ChainGood' /\ PoolGood' /\ ReqsGood'
  BY <1>1, ChainOutlives, RequestsStay DEF Honest
<1>3. LinksGood' /\ PaidGood'
  BY DEF Honest, LinksGood, PaidGood, OpenedDeal
<1>4. /\ page' \in PageState /\ page'.deal = page.deal /\ page'.nonce = page.nonce
      /\ page'.request = page.request
      /\ page'.at = page.at \/ (page.deal \in Flows /\ page'.at = "approved" /\ page.at = "signed")
  BY DEF Honest, PageGood, PageState
<1>5. PageGood'
  BY <1>4 DEF Honest, PageGood
<1>6. CountsGood'
  <2>1. ASSUME NEW f \in Flows, NEW n, Around(f, n)' PROVE Around(f, n)
    BY <1>4, <2>1 DEF Around
  <2> QED
    BY <2>1, CountsStay
<1> QED
  BY <1>2, <1>3, <1>5, <1>6 DEF Honest

\* A permit leaves a nonce and an allowance.
LEMMA PermittedTyped ==
    ASSUME ChainGood, NEW e \in Envelopes, Permitted(e)
    PROVE  token' \in TokenState
<1>1. PICK n \in Nat, m \in Nat : n = token.nonce + 1 /\ m = Amount[e.deal]
  BY DEF ChainGood, TokenState, Envelopes
<1> QED
  BY <1>1 DEF Permitted, TokenState

\* An approval of the payer changes only the allowance.
LEMMA SelfApproveSound == ASSUME Honest, SelfApprove PROVE Honest'
<1>1. token' \in TokenState
  <2>1. PICK t \in TokenState : t = token
    BY DEF Honest, ChainGood
  <2>2. PICK m \in Nat : m = Amount[page.deal]
    BY DEF SelfApprove, Deals
  <2> QED
    BY <2>1, <2>2 DEF SelfApprove, TokenState
<1> QED
  BY <1>1, TokenMoves DEF SelfApprove

\* A holder lands the link's permit.
LEMMA SelfPermitSound == ASSUME Honest, NEW d \in Links, SelfPermit(d) PROVE Honest'
<1>1. PICK e \in Envelopes : e = link[d]
  BY DEF SelfPermit, Honest, LinksGood
<1>2. token' \in TokenState
  BY <1>1, PermittedTyped DEF SelfPermit, Honest
<1> QED
  BY <1>2, TokenMoves DEF SelfPermit, payer

\* An opening that held, made by whoever holds the envelope.
LEMMA OpenedSound ==
    ASSUME Honest, NEW e, EnvGood(e), NEW to \in People, OpenHolds(e), Opened(e, to),
           UNCHANGED <<link, req, account, again>>,
           \/ UNCHANGED <<page, paid>> /\ e.deal \in Links
           \/ /\ page' = NoPage /\ paid' \in {paid, paid \cup {e.deal}}
              /\ page.at # "idle" /\ page.deal = e.deal /\ page.nonce = e.nonce
    PROVE  Honest'
<1>1. Forward /\ ChainGood'
  BY OpeningGood DEF Honest
<1>2. PoolGood' /\ ReqsGood'
  BY <1>1, RequestsStay
<1>3. PICK new : /\ new.env = e /\ opened' = opened \cup {new} /\ e.nonce = track
                 /\ track \in Nat /\ track' = track + 1
  BY DEF Opened, OpenHolds, Honest, ChainGood
<1>4. LinksGood'
  BY <1>3 DEF Honest, LinksGood, Envelopes
<1>5. PageGood'
  BY <1>3 DEF Honest, PageGood, NoPage, PageState
<1>6. PaidGood'
  BY <1>3 DEF Honest, PaidGood, OpenedDeal
<1>7. CountsGood'
  <2>1. ASSUME NEW f \in Flows, NEW n, Around(f, n)' PROVE Around(f, n)
    BY <1>3, <2>1 DEF Around, NoPage
  <2> QED
    BY <1>3, <2>1, CountsStay
<1> QED
  BY <1>1, <1>2, <1>4, <1>5, <1>6, <1>7 DEF Honest

\* A holder opens the card with a wallet of its own.
LEMMA SelfClaimSound ==
    ASSUME Honest, NEW d \in Links, NEW c \in Wallets, SelfClaim(d, c) PROVE Honest'
<1>1. PICK e : e = link[d]
  OBVIOUS
<1>2. EnvGood(e) /\ e.deal = d
  BY <1>1 DEF SelfClaim, Honest, LinksGood, EnvGood
<1>3. c \in People
  BY DEF People
<1> QED
  BY <1>1, <1>2, <1>3, OpenedSound DEF SelfClaim, payer

\* The payer opens the flow without the relay.
LEMMA SelfOpenSound == ASSUME Honest, SelfOpen PROVE Honest'
<1>1. page.at = "approved" /\ page.deal \in Flows
  BY DEF SelfOpen, Honest, PageGood, Deals
<1>2. PICK e : e = Envelope
  OBVIOUS
<1>3. EnvGood(e) /\ e.deal = page.deal /\ e.nonce = page.nonce
  BY <1>1, <1>2, EnvelopeGood
<1>4. CASE OpenHolds(e)
  <2>1. Payee \in People
    BY DEF People
  <2> QED
    BY <1>1, <1>2, <1>3, <1>4, <2>1, OpenedSound DEF SelfOpen
<1>5. CASE ~OpenHolds(e)
  BY <1>2, <1>5, PageRests DEF SelfOpen
<1> QED
  BY <1>4, <1>5

-----------------------------------------------------------------------------
(* A block.                                                                *)

\* What is mined had its effect on the chain, or none.
LEMMA MinedChain ==
    ASSUME Honest, Mine
    PROVE  /\ Forward /\ ChainGood'
           /\ opened' = opened \/ (/\ Oldest.what = "open" /\ Oldest.env.nonce = track
                                   /\ opened' = opened \cup {[env |-> Oldest.env, to |-> Oldest.to]})
           /\ Holds(Oldest) /\ Oldest.what = "open" =>
                 [env |-> Oldest.env, to |-> Oldest.to] \in opened'
<1>1. PICK tx \in TxState : tx = Oldest /\ TxGood(tx)
  <2>1. PICK s \in Seq(TxState) : s = account.pool
    BY DEF Honest, PoolGood
  <2>2. 1 \in DOMAIN s /\ Head(s) = s[1] /\ s[1] \in TxState
    BY <2>1 DEF Mine
  <2> QED
    BY <2>1, <2>2 DEF Honest, PoolGood, Oldest
<1>2. /\ EnvGood(tx.env) /\ tx.env \in Envelopes /\ tx.to \in People
      /\ tx.what \in {"permit", "open"}
  BY <1>1 DEF TxGood, TxState
<1>3. UNCHANGED link
  BY DEF Mine, payer
<1>4. CASE ~Holds(tx)
  <2>1. UNCHANGED <<track, opened, token>>
    BY <1>1, <1>4 DEF Mine, chain
  <2>2. Forward /\ ChainGood'
    BY <1>3, <2>1, ForwardAlone, ChainOutlives DEF Honest, ChainGood
  <2> QED
    BY <1>1, <1>4, <2>1, <2>2
<1>5. CASE Holds(tx) /\ tx.what = "open"
  <2>1. OpenHolds(tx.env) /\ Opened(tx.env, tx.to)
    BY <1>1, <1>5 DEF Mine, Holds
  <2>2. Forward /\ ChainGood'
    BY <1>2, <1>3, <2>1, OpeningGood DEF Honest
  <2> QED
    BY <1>1, <1>5, <2>1, <2>2 DEF Opened, OpenHolds
<1>6. CASE Holds(tx) /\ tx.what = "permit"
  <2>1. Permitted(tx.env) /\ UNCHANGED <<track, opened>>
    BY <1>1, <1>6 DEF Mine
  <2>2. token' \in TokenState
    BY <1>2, <2>1, PermittedTyped DEF Honest
  <2>3. Forward /\ ChainGood'
    BY <1>3, <2>1, <2>2, ForwardAlone, ChainOutlives DEF Honest
  <2> QED
    BY <1>1, <1>6, <2>1, <2>3
<1> QED
  BY <1>2, <1>4, <1>5, <1>6

\* Every transaction left moves one place up, and the request of the one mined
\* finds its receipt.
LEMMA MineSound == ASSUME Honest, Mine PROVE Honest'
<1>1. PICK s \in Seq(TxState), m \in Nat : account = [mined |-> m, pool |-> s]
  BY DEF Honest, PoolGood
<1>2. /\ s # <<>> /\ DOMAIN s = 1..Len(s) /\ Len(s) \in Nat /\ 1 \in DOMAIN s
      /\ Oldest = s[1]
  BY <1>1 DEF Mine, Oldest
<1>3. PICK w \in Seq(TxState) : w = Tail(s)
  <2>1. Tail(s) \in Seq(TxState)
    BY <1>2, TailTyped
  <2> QED
    BY <2>1
<1>4. /\ DOMAIN w = 1..(Len(s) - 1)
      /\ \A i \in DOMAIN w : i + 1 \in DOMAIN s /\ w[i] = s[i + 1]
  BY <1>2, <1>3
<1>5. account' = [mined |-> m + 1, pool |-> w]
  BY <1>1, <1>3 DEF Mine
<1>6. /\ Forward /\ ChainGood'
      /\ opened' = opened \/ (/\ Oldest.what = "open" /\ Oldest.env.nonce = track
                              /\ opened' = opened \cup {[env |-> Oldest.env, to |-> Oldest.to]})
      /\ Holds(Oldest) /\ Oldest.what = "open" =>
            [env |-> Oldest.env, to |-> Oldest.to] \in opened'
  BY MinedChain
<1>7. /\ UNCHANGED <<link, page, paid, again>>
      /\ req' = [r \in Requests |->
             IF req[r].at \in Waiting /\ req[r].nonce = m
             THEN [req[r] EXCEPT !.receipt = IF Holds(Oldest) THEN "ok" ELSE "reverted"]
             ELSE req[r]]
  BY <1>1 DEF Mine, payer
<1>8. PoolGood'
  <2>1. ASSUME NEW i \in DOMAIN w PROVE TxGood(w[i])'
    <3>1. PICK t : t = w[i] /\ TxGood(t)
      BY <1>1, <1>4 DEF Honest, PoolGood
    <3>2. EnvGood(t.env)'
      BY <1>6, <3>1, EnvOutlives DEF TxGood
    <3> QED
      BY <3>1, <3>2 DEF TxGood, HoldsAt
  <2> QED
    BY <1>3, <1>5, <2>1 DEF PoolGood
<1>9. ReqsGood'
  <2>1. ASSUME NEW r \in Requests PROVE ReqGood(req[r])'
    <3>1. PICK q \in ReqState : q = req[r] /\ ReqGood(q)
      BY DEF Honest, ReqsGood
    <3>2. EnvGood(q.env) => EnvGood(q.env)'
      BY <1>6, EnvOutlives
    <3>3. /\ HasOpened(q) => HasOpened(q)'
          /\ \A wh, e, sn : HoldsAt(wh, e, sn)' = HoldsAt(wh, e, sn)
          /\ q.nonce \in Nat
      BY <1>6, <3>1 DEF HasOpened, Forward, HoldsAt, ReqState
    <3>4. CASE q.at \in Waiting /\ q.nonce = m
      <4>1. PICK rc \in {"ok", "reverted"} : rc = IF Holds(Oldest) THEN "ok" ELSE "reverted"
        OBVIOUS
      <4> DEFINE p == [q EXCEPT !.receipt = rc]
      <4>2. /\ p.at = q.at /\ p.env = q.env /\ p.to = q.to /\ p.nonce = q.nonce /\ p.seen = q.seen
            /\ p.receipt = rc /\ p \in ReqState
        BY <3>1 DEF ReqState
      <4>3. req'[r] = p
        BY <1>7, <3>1, <3>4, <4>1
      <4> HIDE DEF p
      <4>4. q.receipt = "none"
        BY <1>1, <3>1, <3>4 DEF ReqGood
      <4>5. /\ Oldest.env = q.env /\ Oldest.to = q.to
            /\ Oldest.what = (IF q.at = "wait" THEN "open" ELSE "permit")
        <5>1. InPool(q)
          BY <3>1, <3>4, <4>4 DEF ReqGood
        <5>2. q.nonce - m + 1 = 1
          BY <3>4
        <5> QED
          BY <1>1, <1>2, <5>1, <5>2 DEF InPool
      <4>6. q.at = "wait" /\ rc = "ok" => HasOpened(p)'
        BY <1>6, <4>1, <4>2, <4>5 DEF HasOpened
      <4>7. p.nonce < account'.mined
        BY <1>5, <3>4, <4>2
      <4>8. ReqGood(p)'
        BY <3>1, <3>2, <3>4, <4>2, <4>6, <4>7 DEF ReqGood
      <4> QED
        BY <4>3, <4>8
    <3>5. CASE ~(q.at \in Waiting /\ q.nonce = m)
      <4>1. req'[r] = q
        BY <1>7, <3>1, <3>5
      <4>2. q.receipt # "none" => q.nonce < account'.mined
        BY <1>1, <1>5, <3>1, <3>3 DEF ReqGood
      <4>3. q.at \in Waiting /\ q.receipt = "none" => InPool(q)'
        <5>1. SUFFICES ASSUME q.at \in Waiting, q.receipt = "none" PROVE InPool(q)'
          OBVIOUS
        <5>2. InPool(q) /\ q.nonce # m
          BY <3>1, <3>5, <5>1 DEF ReqGood
        <5>3. PICK i \in DOMAIN s : i = q.nonce - m + 1
          BY <1>1, <5>2 DEF InPool
        <5>4. i - 1 \in DOMAIN w /\ w[i - 1] = s[i] /\ q.nonce - (m + 1) + 1 = i - 1
          BY <1>2, <1>4, <3>3, <5>2, <5>3
        <5> QED
          BY <1>1, <1>5, <5>2, <5>3, <5>4 DEF InPool
      <4>4. ReqGood(q)'
        BY <3>1, <3>2, <3>3, <4>2, <4>3 DEF ReqGood
      <4> QED
        BY <4>1, <4>4
    <3> QED
      BY <3>4, <3>5
  <2>2. req' \in [Requests -> ReqState]
    <3>1. ASSUME NEW r \in Requests PROVE req'[r] \in ReqState
      BY <2>1 DEF ReqGood
    <3> QED
      BY <1>7, <3>1
  <2> QED
    BY <2>1, <2>2 DEF ReqsGood
<1>10. LinksGood' /\ PaidGood'
  BY <1>6, <1>7 DEF Honest, LinksGood, Forward, PaidGood, OpenedDeal, ChainGood, Envelopes
<1>11. \A r \in Requests : req'[r].at = req[r].at /\ req'[r].env = req[r].env
  BY <1>7 DEF Honest, ReqsGood, ReqState
<1>12. PageGood'
  BY <1>6, <1>7, <1>11 DEF Honest, PageGood, Forward, PageState
<1>13. CountsGood'
  <2>1. ASSUME NEW f \in Flows, NEW n, Around(f, n)' PROVE Around(f, n)
    <3>1. CASE page.at # "idle" /\ page.deal = f /\ page.nonce = n
      BY <3>1 DEF Around
    <3>2. CASE \E r \in Requests : req'[r].at # "idle" /\ req'[r].env.deal = f /\ req'[r].env.nonce = n
      BY <1>11, <3>2 DEF Around
    <3>3. CASE \E i \in DOMAIN w : w[i].env.deal = f /\ w[i].env.nonce = n
      BY <1>1, <1>4, <3>3 DEF Around
    <3>4. CASE \E o \in opened' : o.env.deal = f /\ o.env.nonce = n
      BY <1>1, <1>2, <1>6, <3>4 DEF Around
    <3> QED
      BY <1>5, <1>7, <2>1, <3>1, <3>2, <3>3, <3>4 DEF Around
  <2>2. \A o \in opened' : o \in opened \/ o.env.nonce = track
    BY <1>6
  <2> QED
    BY <1>7, <2>1, <2>2, CountsStay
<1> QED
  BY <1>6, <1>8, <1>9, <1>10, <1>12, <1>13 DEF Honest

-----------------------------------------------------------------------------
(* The theorems.                                                           *)

\* In the initial state nothing is on its way.
LEMMA InitHonest == ASSUME Init PROVE Honest
<1>1. NoRequest \in ReqState /\ ReqGood(NoRequest)
  BY DEF ReqGood, NoRequest, ReqState, Stages, SeenState, People
<1>2. ChainGood /\ LinksGood /\ PaidGood
  BY DEF Init, ChainGood, LinksGood, PaidGood, TokenState
<1>3. PageGood
  BY DEF Init, PageGood, NoPage, PageState
<1>4. PoolGood
  <2>1. <<>> \in Seq(TxState) /\ DOMAIN <<>> = {}
    OBVIOUS
  <2> QED
    BY <2>1 DEF Init, PoolGood
<1>5. ReqsGood
  BY <1>1 DEF Init, ReqsGood
<1>6. CountsGood
  <2>1. ASSUME NEW d \in Flows PROVE CountedBy(d, {})
    BY FS_EmptySet DEF CountedBy, Init, OpenedDeal
  <2> QED
    BY <2>1 DEF CountsGood, Init
<1> QED
  BY <1>2, <1>3, <1>4, <1>5, <1>6 DEF Honest

\* Every step keeps the invariant.
LEMMA NextHonest == ASSUME Honest, [Next]_vars PROVE Honest'
<1>1. CASE UNCHANGED vars
  BY <1>1 DEF vars, Honest, ChainGood, LinksGood, PageGood, PoolGood, ReqsGood, PaidGood,
     CountsGood, EnvGood, HoldsAt, InPool, HasOpened, ReqGood, TxGood, Around, CountedBy, OpenedDeal
<1>2. CASE \E d \in Links : Claim(d) \/ SelfPermit(d)
  BY <1>2, PostClaimSound, SelfPermitSound DEF Claim
<1>3. CASE \E r \in Requests : PostFlow(r) \/ Serve(r) \/ CallFails(r) \/ WorkerEnds(r)
  BY <1>3, PostFlowSound, ServeSound, CallFailsSound, WorkerEndsSound
<1> QED
  BY <1>1, <1>2, <1>3, MineSound, SignIntentSound, MintLinkSound, DeclinedSound, SelfApproveSound,
     SelfOpenSound, PageHearsSound, AnswerLostSound, SelfClaimSound DEF Next

\* What the account carries was seen to hold, what waits has its transaction on the
\* way, and every envelope that may still open something is accounted for.
THEOREM HonestAlways == Spec => []Honest
BY InitHonest, NextHonest, PTL DEF Spec

\* Whoever the relay or the page tells that it worked has the channel.
THEOREM AnsweredTrulyAlways == Spec => []AnsweredTruly
<1>1. Honest => AnsweredTruly
  <2>1. ASSUME Honest, NEW r \in Requests, At(r, "ok")
        PROVE  [env |-> req[r].env, to |-> req[r].to] \in opened
    BY <2>1 DEF Honest, ReqsGood, ReqGood, HasOpened, At
  <2> QED
    BY <2>1 DEF AnsweredTruly, Honest, PaidGood
<1> QED
  BY <1>1, HonestAlways, PTL

\* The keeper pays for a revert only when the track or the token moved between its
\* check and the block, however many requests share its account.
THEOREM GasLostInRacesOnlyAlways == Spec => GasLostInRacesOnly
<1>1. ASSUME Honest, [Next]_vars
      PROVE  [(account'.mined > account.mined /\ ~Holds(Oldest)) => Oldest.seen # Seen]_vars
  <2>1. SUFFICES ASSUME account'.mined > account.mined, ~Holds(Oldest), Oldest.seen = Seen
                 PROVE  FALSE
    OBVIOUS
  <2>2. CASE Mine
    BY <1>1, <2>1, <2>2, OldestHolds DEF Mine, Honest
  <2>3. CASE account'.mined = account.mined
    BY <1>1, <2>1, <2>3 DEF Honest, PoolGood
  <2>4. Mine \/ account'.mined = account.mined
    <3>1. CASE UNCHANGED account
      BY <3>1
    <3>2. CASE \E r \in Requests : Serve(r)
      <4>1. PICK r \in Requests : Serve(r)
        BY <3>2
      <4>2. ASSUME NEW what, NEW next, NEW onError, Send(r, what, next, onError)
            PROVE  account'.mined = account.mined
        BY <1>1, <4>2 DEF Send, Honest, PoolGood
      <4> QED
        BY <4>1, <4>2 DEF Serve, CheckPermit, CheckOpen, ReadNonce, SendPermit, SendOpen,
           AwaitReceipt, Answered
    <3> QED
      BY <1>1, <3>1, <3>2 DEF Next, vars, SignIntent, MintLink, Declined, SelfApprove, SelfOpen,
         PageHears, AnswerLost, Claim, PostClaim, SelfPermit, SelfClaim, PostFlow, CallFails,
         WorkerEnds
  <2> QED
    BY <2>2, <2>3, <2>4
<1> QED
  BY <1>1, HonestAlways, PTL DEF Spec, GasLostInRacesOnly

\* The openings of a flow but the first are among the signings counted.
LEMMA FlowsOnce ==
    ASSUME Honest, NEW d \in Flows
    PROVE  Cardinality(OpenedDeal(d)) <= 1 + again[d]
<1>1. PICK S : CountedBy(d, S)
  BY DEF Honest, CountsGood
<1>2. IsFiniteSet(S) /\ Cardinality(S) \in Nat /\ Cardinality(S) <= again[d] /\ again[d] \in Nat
  BY <1>1, FS_CardinalityType DEF CountedBy, Honest, CountsGood
<1>3. \A o \in OpenedDeal(d) : o.env.nonce \in S \/ \A u \in OpenedDeal(d) : o.env.nonce <= u.env.nonce
  BY <1>1 DEF CountedBy, Around, OpenedDeal
<1>4. /\ \A o \in OpenedDeal(d) : o.env.nonce \in Nat
      /\ \A o, u \in OpenedDeal(d) : o.env.nonce = u.env.nonce => o = u
  BY DEF OpenedDeal, Honest, ChainGood, Opening, Envelopes
<1>5. PICK first : \A o \in OpenedDeal(d) : o.env.nonce \in S \cup {first}
  <2>1. CASE \E o \in OpenedDeal(d) : \A u \in OpenedDeal(d) : o.env.nonce <= u.env.nonce
    <3>1. PICK o \in OpenedDeal(d) : \A u \in OpenedDeal(d) : o.env.nonce <= u.env.nonce
      BY <2>1
    <3>2. \A u \in OpenedDeal(d) : u.env.nonce \in S \cup {o.env.nonce}
      BY <1>3, <1>4, <3>1
    <3> QED
      BY <3>2
  <2>2. CASE ~\E o \in OpenedDeal(d) : \A u \in OpenedDeal(d) : o.env.nonce <= u.env.nonce
    BY <1>3, <2>2
  <2> QED
    BY <2>1, <2>2
<1>6. /\ IsFiniteSet(S \cup {first}) /\ Cardinality(S \cup {first}) \in Nat
      /\ Cardinality(S \cup {first}) <= 1 + again[d]
  <2>1. /\ IsFiniteSet(S \cup {first})
        /\ Cardinality(S \cup {first}) \in {Cardinality(S), Cardinality(S) + 1}
    BY <1>2, FS_AddElement
  <2> QED
    BY <1>2, <2>1
<1> DEFINE f == [o \in OpenedDeal(d) |-> o.env.nonce]
<1>7. f \in Injection(OpenedDeal(d), S \cup {first})
  BY <1>4, <1>5 DEF Injection, IsInjective
<1>8. IsFiniteSet(OpenedDeal(d)) /\ Cardinality(OpenedDeal(d)) <= Cardinality(S \cup {first})
  BY <1>6, <1>7, FS_Injection
<1>9. Cardinality(OpenedDeal(d)) \in Nat
  BY <1>8, FS_CardinalityType
<1> QED
  BY <1>2, <1>6, <1>8, <1>9

\* A card has one envelope, and an envelope opens once.
LEMMA LinksOnce ==
    ASSUME Honest, NEW d \in Links
    PROVE  Cardinality(OpenedDeal(d)) <= 1
<1>1. \A o, u \in OpenedDeal(d) : o = u
  BY DEF OpenedDeal, Honest, ChainGood, EnvGood
<1>2. CASE OpenedDeal(d) = {}
  BY <1>2, FS_EmptySet
<1>3. CASE OpenedDeal(d) # {}
  <2>1. PICK o : OpenedDeal(d) = {o}
    <3>1. PICK u : u \in OpenedDeal(d)
      BY <1>3
    <3>2. OpenedDeal(d) = {u}
      BY <1>1, <3>1
    <3> QED
      BY <3>2
  <2> QED
    BY <2>1, FS_Singleton
<1> QED
  BY <1>2, <1>3

\* A card is claimed once; a flow is paid again only when it is signed again after
\* it was paid.
THEOREM PaidOnceAlways == Spec => []PaidOnce
<1>1. Honest => PaidOnce
  BY FlowsOnce, LinksOnce DEF PaidOnce
<1> QED
  BY <1>1, HonestAlways, PTL
=============================================================================
