----------------------------- MODULE PactProofs -----------------------------
(***************************************************************************)
(* What holds of every Pact, for any number of Pacts, Paycards, proposals, *)
(* Path revisions, commands and requests in flight, and whatever the       *)
(* callers do.                                                             *)
(***************************************************************************)
EXTENDS PactKernel, FiniteSetTheorems, TLAPS

Parties == {None} \cup {prop.counterparty : prop \in Proposals}
Signers == {Authority} \cup Parties

PactState ==
    [status : PactStatus, proposal : Proposals \cup {None}, path : Paths \cup {None},
     countersigned : BOOLEAN, signed : SUBSET Signers, paycard : Paycards \cup {None},
     openedAt : Nat \cup {Never}, receipts : SUBSET Nat]
CardState ==
    [status : {"none", "Active", "Terminated"}, amount : Nat, recipient : Parties,
     left : Nat, payouts : Seq(Nat)]
CaseState ==
    [status : {"none", "open", "dismissed", "resolved", "rectification_required"},
     pact : PactIds \cup {None}]
Observation ==
    [kind : {"opening", "settlement"}, pact : PactIds, paycard : Paycards, tx : Nat,
     final : BOOLEAN]

\* A closed Paycard holds nothing.
CardGood(card) == card \in CardState /\ (card.status = "Terminated" => card.left = 0)

\* The Paycard c is registered on the terms of the proposal.
Backed(prop, c) ==
    /\ chain[c].status # "none"
    /\ chain[c].amount = prop.amount
    /\ chain[c].recipient = prop.counterparty

SignedBy(r) == Authority \in r.signed /\ (r.countersigned => r.proposal.counterparty \in r.signed)

Before == {"none", "awaiting_signatures", "accepted", "payment_prepared"}

\* The Pact r: what its status says of its signatures, its Path and the vault.
PactGood(r) ==
    /\ r \in PactState
    /\ r.status # "none" => r.proposal \in Proposals /\ r.path \in Paths
                            /\ r.proposal \in r.path.permits
    /\ r.status \in {"accepted", "payment_prepared", "active", "performing"} => SignedBy(r)
    /\ r.status \in Before => r.openedAt = Never /\ r.receipts = {}
    /\ r.status \in {"active", "performing", "settled"} => r.openedAt # Never
    /\ r.openedAt # Never =>
          /\ SignedBy(r)
          /\ r.paycard \in Paycards
          /\ Backed(r.proposal, r.paycard)
          /\ r.receipts \subseteq 1..Len(chain[r.paycard].payouts)
    /\ r.status = "settled" => chain[r.paycard].status = "Terminated"

CaseGood(case) ==
    /\ case \in CaseState
    /\ case.status # "none" => case.pact \in PactIds /\ pacts[case.pact].status # "none"

\* What the verifier saw for a request stays true until the mutation runs.
StillTrue(o) ==
    /\ o \in Observation
    /\ pacts[o.pact].status # "none"
    /\ o.kind = "opening" => Backed(pacts[o.pact].proposal, o.paycard)
    /\ o.kind = "settlement" =>
          /\ chain[o.paycard].status # "none"
          /\ o.tx \in 1..Len(chain[o.paycard].payouts)
          /\ o.final => chain[o.paycard].status = "Terminated"

Governed ==
    /\ clock \in Nat
    /\ path \in Paths \cup {None}
    /\ commandNonce \in Nat /\ executed \subseteq Commands
    /\ CommandsOnce

Sound ==
    /\ Governed
    /\ pacts \in [PactIds -> PactState] /\ \A p \in PactIds : PactGood(pacts[p])
    /\ chain \in [Paycards -> CardState] /\ \A c \in Paycards : CardGood(chain[c])
    /\ cases \in [Cases -> CaseState] /\ \A k \in Cases : CaseGood(cases[k])
    /\ \A o \in inFlight : StillTrue(o)

USE KernelAssumption DEF PactStatus, Reserving, Before, Never, Operations

-----------------------------------------------------------------------------
(* The vault.                                                              *)

\* A registered Paycard keeps its terms and its payouts; a closed one is closed.
ChainKeeps ==
    \A c \in Paycards :
        /\ CardGood(chain[c])'
        /\ chain[c].status # "none" =>
              /\ chain'[c].status # "none"
              /\ chain'[c].amount = chain[c].amount
              /\ chain'[c].recipient = chain[c].recipient
              /\ Len(chain[c].payouts) <= Len(chain'[c].payouts)
        /\ chain[c].status = "Terminated" => chain'[c].status = "Terminated"

\* A step of the vault changes one Paycard.
LEMMA OneCard ==
    ASSUME Sound, NEW c \in Paycards, NEW card \in CardState,
           chain' = [chain EXCEPT ![c] = card],
           card.status = "Terminated" => card.left = 0,
           chain[c].status # "none" =>
              /\ card.status # "none" /\ card.amount = chain[c].amount
              /\ card.recipient = chain[c].recipient
              /\ Len(chain[c].payouts) <= Len(card.payouts),
           chain[c].status = "Terminated" => card.status = "Terminated"
    PROVE  ChainKeeps /\ chain' \in [Paycards -> CardState]
<1>1. chain \in [Paycards -> CardState]
  BY DEF Sound
<1>2. chain' \in [Paycards -> CardState]
  BY <1>1
<1>3. chain'[c] = card /\ \A d \in Paycards \ {c} : chain'[d] = chain[d]
  BY <1>1
<1>4. ASSUME NEW d \in Paycards PROVE Len(chain[d].payouts) \in Nat /\ CardGood(chain[d])
  BY <1>1 DEF Sound, CardState
<1>5. ASSUME NEW d \in Paycards
      PROVE  /\ CardGood(chain[d])'
             /\ chain[d].status # "none" =>
                   /\ chain'[d].status # "none"
                   /\ chain'[d].amount = chain[d].amount
                   /\ chain'[d].recipient = chain[d].recipient
                   /\ Len(chain[d].payouts) <= Len(chain'[d].payouts)
             /\ chain[d].status = "Terminated" => chain'[d].status = "Terminated"
  <2>1. CASE d = c
    BY <1>3, <2>1 DEF CardGood
  <2>2. CASE d # c
    <3>1. chain'[d] = chain[d]
      BY <1>3, <2>2
    <3> QED
      BY <1>4, <3>1 DEF CardGood
  <2> QED
    BY <2>1, <2>2
<1> QED
  BY <1>2, <1>5 DEF ChainKeeps

\* An opening signed by the wallet, a settlement and a withdrawal: a channel only
\* moves on.
LEMMA VaultKeeps ==
    ASSUME Sound, VaultNext
    PROVE  ChainKeeps /\ chain' \in [Paycards -> CardState]
<1>1. \A c \in Paycards : chain[c] \in CardState /\ CardGood(chain[c])
  BY DEF Sound
<1>2. ASSUME NEW c \in Paycards, NEW prop \in Proposals, WalletOpens(c, prop)
      PROVE  ChainKeeps /\ chain' \in [Paycards -> CardState]
  <2>1. PICK card : card = [status |-> "Active", amount |-> prop.amount,
             recipient |-> prop.counterparty, left |-> prop.amount, payouts |-> <<>>]
    OBVIOUS
  <2>2. prop.amount \in Nat /\ prop.counterparty \in Parties
    BY DEF Parties
  <2>3. card \in CardState /\ card.status = "Active"
    BY <2>1, <2>2 DEF CardState
  <2>4. chain' = [chain EXCEPT ![c] = card] /\ chain[c].status = "none"
    BY <1>2, <2>1 DEF WalletOpens, NoCard
  <2> QED
    BY <2>3, <2>4, OneCard
<1>3. ASSUME NEW c \in Paycards, NEW amount \in Nat, VaultPays(c, amount)
      PROVE  ChainKeeps /\ chain' \in [Paycards -> CardState]
  <2>1. PICK old \in CardState : old = chain[c]
    BY <1>1
  <2>2. PICK left, payouts, status :
           /\ left = old.left - amount /\ payouts = Append(old.payouts, amount)
           /\ status = IF amount = old.left THEN "Terminated" ELSE "Active"
    OBVIOUS
  <2>3. PICK card : card = [old EXCEPT !.left = left, !.payouts = payouts, !.status = status]
    OBVIOUS
  <2>4. old.status = "Active" /\ amount \in 1..old.left
    BY <1>3, <2>1 DEF VaultPays
  <2>5. chain' = [chain EXCEPT ![c] = card]
    BY <1>3, <2>1, <2>2, <2>3 DEF VaultPays
  <2>6. /\ left \in Nat /\ payouts \in Seq(Nat) /\ Len(payouts) = Len(old.payouts) + 1
        /\ Len(old.payouts) \in Nat
        /\ status \in {"Terminated", "Active"} /\ (status = "Terminated" => left = 0)
    BY <2>2, <2>4 DEF CardState
  <2>7. /\ card \in CardState /\ card.status = status /\ card.left = left
        /\ card.amount = old.amount /\ card.recipient = old.recipient
        /\ card.payouts = payouts
    BY <2>3, <2>6 DEF CardState
  <2>8. /\ card.status # "none" /\ Len(chain[c].payouts) <= Len(card.payouts)
        /\ chain[c].status # "Terminated"
        /\ card.status = "Terminated" => card.left = 0
        /\ card.amount = chain[c].amount /\ card.recipient = chain[c].recipient
    BY <2>1, <2>4, <2>6, <2>7
  <2> HIDE DEF CardState
  <2> QED
    BY <2>5, <2>7, <2>8, OneCard
<1>4. ASSUME NEW c \in Paycards, VaultCloses(c)
      PROVE  ChainKeeps /\ chain' \in [Paycards -> CardState]
  <2>1. PICK old \in CardState : old = chain[c]
    BY <1>1
  <2>2. PICK zero \in Nat : zero = 0
    OBVIOUS
  <2>3. PICK card : card = [old EXCEPT !.left = zero, !.status = "Terminated"]
    OBVIOUS
  <2>4. old.status = "Active" /\ chain' = [chain EXCEPT ![c] = card]
    BY <1>4, <2>1, <2>2, <2>3 DEF VaultCloses
  <2>5. /\ card \in CardState /\ card.status = "Terminated" /\ card.left = 0
        /\ card.amount = old.amount /\ card.recipient = old.recipient
        /\ card.payouts = old.payouts
    BY <2>2, <2>3 DEF CardState
  <2>6. Len(old.payouts) \in Nat
    BY DEF CardState
  <2>7. /\ card.status # "none" /\ Len(chain[c].payouts) <= Len(card.payouts)
        /\ chain[c].status # "Terminated"
        /\ card.amount = chain[c].amount /\ card.recipient = chain[c].recipient
    BY <2>1, <2>4, <2>5, <2>6
  <2> QED
    BY <2>4, <2>5, <2>7, OneCard
<1>5. \A prop \in Proposals : \A amount \in 1..prop.amount : amount \in Nat
  OBVIOUS
<1> QED
  BY <1>2, <1>3, <1>4, <1>5 DEF VaultNext

-----------------------------------------------------------------------------
(* What steps leave alone.                                                 *)

\* What is true of a Pact is true of it after a step of the vault.
LEMMA PactOutlives ==
    ASSUME ChainKeeps, chain \in [Paycards -> CardState], NEW r, PactGood(r)
    PROVE  PactGood(r)'
<1>1. CASE r.openedAt = Never
  BY <1>1 DEF PactGood
<1>2. CASE r.openedAt # Never
  <2>1. PICK c \in Paycards : c = r.paycard
    BY <1>2 DEF PactGood
  <2>2. Backed(r.proposal, c)' /\ Len(chain[c].payouts) <= Len(chain'[c].payouts)
    BY <1>2, <2>1 DEF PactGood, Backed, ChainKeeps
  <2>3. chain[c].status = "Terminated" => chain'[c].status = "Terminated"
    BY DEF ChainKeeps
  <2>4. Len(chain[c].payouts) \in Nat /\ Len(chain'[c].payouts) \in Nat
    <3>1. chain[c].payouts \in Seq(Nat) /\ chain'[c].payouts \in Seq(Nat)
      BY DEF ChainKeeps, CardGood, CardState
    <3> QED
      BY <3>1
  <2>5. r.receipts \subseteq 1..Len(chain'[c].payouts)
    BY <1>2, <2>1, <2>2, <2>4 DEF PactGood
  <2> QED
    BY <1>2, <2>1, <2>2, <2>3, <2>5 DEF PactGood
<1> QED
  BY <1>1, <1>2

\* What the verifier saw is still so after a step of the vault, and after a step
\* that changes one Pact but not its terms.
LEMMA SeenOutlives ==
    ASSUME ChainKeeps, chain \in [Paycards -> CardState],
           \A p \in PactIds : pacts[p].status # "none" =>
               pacts'[p].status # "none" /\ pacts'[p].proposal = pacts[p].proposal,
           NEW o, StillTrue(o)
    PROVE  StillTrue(o)'
<1>1. o \in Observation /\ o.pact \in PactIds /\ o.paycard \in Paycards
  BY DEF StillTrue, Observation
<1>2. PICK c \in Paycards, p \in PactIds : c = o.paycard /\ p = o.pact
  BY <1>1
<1>3. pacts'[p].status # "none" /\ pacts'[p].proposal = pacts[p].proposal
  BY <1>2 DEF StillTrue
<1>4. Len(chain[c].payouts) \in Nat /\ Len(chain'[c].payouts) \in Nat
  <2>1. chain[c].payouts \in Seq(Nat) /\ chain'[c].payouts \in Seq(Nat)
    BY DEF ChainKeeps, CardGood, CardState
  <2> QED
    BY <2>1
<1>5. o.kind = "opening" => Backed(pacts[o.pact].proposal, o.paycard)'
  <2>1. SUFFICES ASSUME o.kind = "opening" PROVE Backed(pacts[o.pact].proposal, o.paycard)'
    OBVIOUS
  <2>2. Backed(pacts[p].proposal, c)
    BY <1>2, <2>1 DEF StillTrue
  <2>3. /\ chain'[c].status # "none" /\ chain'[c].amount = chain[c].amount
        /\ chain'[c].recipient = chain[c].recipient
    BY <2>2 DEF Backed, ChainKeeps
  <2> QED
    BY <1>2, <1>3, <2>2, <2>3 DEF Backed
<1>6. o.kind = "settlement" =>
          /\ chain'[o.paycard].status # "none"
          /\ o.tx \in 1..Len(chain'[o.paycard].payouts)
          /\ o.final => chain'[o.paycard].status = "Terminated"
  <2>1. SUFFICES ASSUME o.kind = "settlement"
                 PROVE  /\ chain'[c].status # "none"
                        /\ o.tx \in 1..Len(chain'[c].payouts)
                        /\ o.final => chain'[c].status = "Terminated"
    BY <1>2
  <2>2. /\ o.tx \in 1..Len(chain[c].payouts)
        /\ o.final => chain[c].status = "Terminated"
    BY <1>2, <2>1 DEF StillTrue
  <2>3. chain[c].status # "none"
    BY <1>2, <2>1 DEF StillTrue
  <2>4. Len(chain[c].payouts) <= Len(chain'[c].payouts)
    BY <2>3 DEF ChainKeeps
  <2> QED
    BY <1>4, <2>2, <2>3, <2>4 DEF ChainKeeps
<1> QED
  BY <1>1, <1>2, <1>3, <1>5, <1>6 DEF StillTrue

\* A vault at rest keeps everything.
LEMMA ChainSame ==
    ASSUME Sound, UNCHANGED chain
    PROVE  ChainKeeps /\ chain \in [Paycards -> CardState]
<1>1. \A c \in Paycards : CardGood(chain[c]) /\ CardGood(chain[c])'
  BY DEF Sound, CardGood
<1>2. \A c \in Paycards : Len(chain[c].payouts) \in Nat
  BY <1>1 DEF CardGood, CardState
<1> QED
  BY <1>1, <1>2 DEF ChainKeeps, Sound

\* A step of the vault keeps the invariant.
LEMMA VaultSound ==
    ASSUME Sound, VaultNext
    PROVE  Sound'
<1>1. UNCHANGED <<clock, governance, work, inFlight>>
  BY DEF VaultNext, WalletOpens, VaultPays, VaultCloses
<1>2. /\ ChainKeeps /\ chain \in [Paycards -> CardState]
      /\ chain' \in [Paycards -> CardState]
  BY VaultKeeps DEF Sound
<1>3. Governed'
  BY <1>1 DEF Sound, Governed, CommandsOnce, governance
<1>4. ASSUME NEW p \in PactIds PROVE PactGood(pacts[p])'
  <2>1. PICK r : r = pacts[p]
    OBVIOUS
  <2>2. PactGood(r)'
    BY <1>2, <2>1, PactOutlives DEF Sound
  <2>3. pacts'[p] = r
    BY <1>1, <2>1 DEF work
  <2> QED
    BY <2>2, <2>3
<1>5. \A k \in Cases : CaseGood(cases[k])'
  BY <1>1 DEF Sound, CaseGood, work
<1>6. ASSUME NEW o \in inFlight' PROVE StillTrue(o)'
  <2>1. StillTrue(o)
    BY <1>1 DEF Sound
  <2>2. pacts' = pacts
    BY <1>1 DEF work
  <2> QED
    BY <1>2, <2>1, <2>2, SeenOutlives
<1>7. /\ pacts' \in [PactIds -> PactState]
      /\ cases' \in [Cases -> CaseState]
  BY <1>1 DEF Sound, work
<1>8. \A c \in Paycards : CardGood(chain[c])'
  BY <1>2 DEF ChainKeeps
<1> QED
  BY <1>2, <1>3, <1>4, <1>5, <1>6, <1>7, <1>8 DEF Sound

\* A Pact that was created keeps its terms.
TermsKept ==
    \A p \in PactIds : pacts[p].status # "none" =>
        pacts'[p].status # "none" /\ pacts'[p].proposal = pacts[p].proposal

\* A step that leaves the vault alone: it is enough to look at what changes.
LEMMA KernelSound ==
    ASSUME Sound, UNCHANGED chain, Governed', TermsKept,
           pacts' \in [PactIds -> PactState],
           \A p \in PactIds : pacts'[p] # pacts[p] => PactGood(pacts[p])',
           cases' \in [Cases -> CaseState],
           \A k \in Cases : cases'[k] # cases[k] => CaseGood(cases[k])',
           \A o \in inFlight' : o \in inFlight \/ StillTrue(o)
    PROVE  Sound'
<1>1. ChainKeeps /\ chain \in [Paycards -> CardState]
  BY ChainSame
<1>2. ASSUME NEW p \in PactIds PROVE PactGood(pacts[p])'
  <2>1. CASE pacts'[p] = pacts[p]
    <3>1. PICK r : r = pacts[p]
      OBVIOUS
    <3>2. PactGood(r)'
      BY <1>1, <3>1, PactOutlives DEF Sound
    <3> QED
      BY <2>1, <3>1, <3>2
  <2> QED
    BY <2>1
<1>3. ASSUME NEW k \in Cases PROVE CaseGood(cases[k])'
  <2>1. CASE cases'[k] = cases[k]
    BY <2>1 DEF Sound, CaseGood, TermsKept
  <2> QED
    BY <2>1
<1>4. ASSUME NEW o \in inFlight' PROVE StillTrue(o)'
  <2>1. StillTrue(o)
    BY DEF Sound
  <2> QED
    BY <1>1, <2>1, SeenOutlives DEF TermsKept
<1>5. /\ chain' \in [Paycards -> CardState]
      /\ \A c \in Paycards : CardGood(chain[c])'
  BY <1>1 DEF ChainKeeps
<1> QED
  BY <1>2, <1>3, <1>4, <1>5 DEF Sound

\* The same of a step that changes one Pact, and no case.
LEMMA OnePact ==
    ASSUME Sound, UNCHANGED <<clock, governance, chain, cases>>,
           NEW p \in PactIds, NEW r, PactGood(r), pacts' = [pacts EXCEPT ![p] = r],
           pacts[p].status # "none" => r.status # "none" /\ r.proposal = pacts[p].proposal,
           inFlight' \subseteq inFlight
    PROVE  Sound'
<1>1. pacts \in [PactIds -> PactState] /\ r \in PactState
  BY DEF Sound, PactGood
<1>2. /\ pacts' \in [PactIds -> PactState] /\ pacts'[p] = r
      /\ \A q \in PactIds \ {p} : pacts'[q] = pacts[q]
  BY <1>1
<1>3. TermsKept
  BY <1>2 DEF TermsKept
<1>4. PactGood(pacts[p])'
  BY <1>2 DEF PactGood, Backed, SignedBy
<1>5. \A q \in PactIds : pacts'[q] # pacts[q] => PactGood(pacts[q])'
  BY <1>2, <1>4
<1>6. Governed'
  BY DEF Sound, Governed, CommandsOnce, governance
<1> QED
  BY <1>2, <1>3, <1>5, <1>6, KernelSound DEF Sound

-----------------------------------------------------------------------------
(* The steps of the kernel, one by one.                                    *)

\* A Pact is formed under the Path revision that permits it.
LEMMA CreateSound ==
    ASSUME Sound, NEW p \in PactIds, NEW prop \in Proposals, NEW cs \in BOOLEAN,
           CreatePact(p, prop, cs)
    PROVE  Sound'
<1>1. /\ pacts[p].status = "none" /\ path # None /\ prop \in path.permits
      /\ UNCHANGED <<clock, governance, chain, cases, inFlight>>
  BY DEF CreatePact, Exists, Permitted, Allowed, Become
<1>2. PICK pa \in Paths : pa = path
  BY <1>1 DEF Sound, Governed
<1>3. PICK r : r = [NoPact EXCEPT !.status = "awaiting_signatures", !.proposal = prop,
                                 !.path = pa, !.countersigned = cs]
  OBVIOUS
<1>4. r = [status |-> "awaiting_signatures", proposal |-> prop, path |-> pa,
           countersigned |-> cs, signed |-> {}, paycard |-> None,
           openedAt |-> Never, receipts |-> {}]
  BY <1>3 DEF NoPact
<1>5. PactGood(r)
  BY <1>1, <1>2, <1>4 DEF PactGood, PactState
<1>6. pacts' = [pacts EXCEPT ![p] = r]
  BY <1>2, <1>3 DEF CreatePact, Become
<1> QED
  BY <1>1, <1>5, <1>6, OnePact

\* A Pact is accepted with the signatures it calls for.
LEMMA SignSound ==
    ASSUME Sound, NEW p \in PactIds, NEW signer, SignPact(p, signer)
    PROVE  Sound'
<1>1. PICK old \in PactState : old = pacts[p] /\ PactGood(old)
  BY DEF Sound
<1>2. /\ old.status = "awaiting_signatures"
      /\ signer \in {Authority, old.proposal.counterparty}
      /\ UNCHANGED <<clock, governance, chain, cases, inFlight>>
  BY <1>1 DEF SignPact, Become
<1>3. old.proposal \in Proposals /\ old.openedAt = Never /\ old.receipts = {}
  BY <1>1, <1>2 DEF PactGood
<1>4. PICK signed : signed = old.signed \cup {signer}
  OBVIOUS
<1>5. signed \in SUBSET Signers
  BY <1>2, <1>3, <1>4 DEF Signers, Parties, PactState
<1>6. PICK status : status = IF FullySigned(old, signed) THEN "accepted" ELSE old.status
  OBVIOUS
<1>7. PICK r : r = [old EXCEPT !.signed = signed, !.status = status]
  OBVIOUS
<1>8. status \in {"accepted", "awaiting_signatures"}
  BY <1>2, <1>6
<1>9. /\ r \in PactState /\ r.status = status /\ r.signed = signed
      /\ r.proposal = old.proposal /\ r.path = old.path
      /\ r.countersigned = old.countersigned /\ r.openedAt = Never /\ r.receipts = {}
  BY <1>3, <1>5, <1>7, <1>8 DEF PactState
<1>10. status = "accepted" => SignedBy(r)
  BY <1>2, <1>6, <1>9 DEF SignedBy, FullySigned
<1>11. PactGood(r)
  BY <1>1, <1>2, <1>8, <1>9, <1>10 DEF PactGood
<1>12. pacts' = [pacts EXCEPT ![p] = r]
  BY <1>1, <1>4, <1>6, <1>7 DEF SignPact, Become
<1> QED
  BY <1>1, <1>2, <1>8, <1>9, <1>11, <1>12, OnePact

\* A binding is replaced only before it is opened.
LEMMA PrepareSound ==
    ASSUME Sound, NEW p \in PactIds, NEW c \in Paycards, PreparePayment(p, c)
    PROVE  Sound'
<1>1. PICK old \in PactState : old = pacts[p] /\ PactGood(old)
  BY DEF Sound
<1>2. /\ old.status \in {"accepted", "payment_prepared"}
      /\ UNCHANGED <<clock, governance, chain, cases, inFlight>>
  BY <1>1 DEF PreparePayment, Preparable, Become
<1>3. old.openedAt = Never /\ SignedBy(old)
  BY <1>1, <1>2 DEF PactGood
<1>4. PICK r : r = [old EXCEPT !.status = "payment_prepared", !.paycard = c, !.receipts = {}]
  OBVIOUS
<1>5. /\ r \in PactState /\ r.status = "payment_prepared" /\ r.signed = old.signed
      /\ r.proposal = old.proposal /\ r.path = old.path
      /\ r.countersigned = old.countersigned /\ r.openedAt = Never /\ r.receipts = {}
  BY <1>3, <1>4 DEF PactState
<1>6. PactGood(r)
  BY <1>1, <1>2, <1>3, <1>5 DEF PactGood, SignedBy
<1>7. pacts' = [pacts EXCEPT ![p] = r]
  BY <1>1, <1>4 DEF PreparePayment, Become
<1> QED
  BY <1>1, <1>2, <1>5, <1>6, <1>7, OnePact

\* A request that awaits the verifier adds what the verifier saw.
LEMMA VerifySound ==
    ASSUME Sound, NEW p \in PactIds,
           VerifyOpening(p) \/ \E i \in Nat : VerifySettlement(p, i)
    PROVE  Sound'
<1>1. PICK old \in PactState : old = pacts[p] /\ PactGood(old)
  BY DEF Sound
<1>2. PICK o : /\ inFlight' = inFlight \cup {o}
               /\ StillTrue(o)
               /\ UNCHANGED <<clock, governance, work, chain>>
  <2>1. CASE VerifyOpening(p)
    <3>1. PICK c : c = pacts[p].paycard
      OBVIOUS
    <3>2. PICK o : o = [kind |-> "opening", pact |-> p, paycard |-> c, tx |-> 0, final |-> FALSE]
      OBVIOUS
    <3>3. /\ inFlight' = inFlight \cup {o}
          /\ UNCHANGED <<clock, governance, work, chain>>
          /\ c # None /\ OpeningMatches(p, c) /\ pacts[p].status # "none"
      BY <2>1, <3>1, <3>2 DEF VerifyOpening, Observe, Exists
    <3>4. c \in Paycards
      BY <1>1, <3>1, <3>3 DEF PactState
    <3>5. StillTrue(o)
      BY <3>2, <3>3, <3>4 DEF StillTrue, Observation, OpeningMatches, Backed, Amount
    <3> QED
      BY <3>3, <3>5
  <2>2. ASSUME NEW i \in Nat, VerifySettlement(p, i)
        PROVE  \E o : /\ inFlight' = inFlight \cup {o}
                      /\ StillTrue(o)
                      /\ UNCHANGED <<clock, governance, work, chain>>
    <3>1. PICK c : c = pacts[p].paycard
      OBVIOUS
    <3>2. Final(p, i) \in BOOLEAN
      BY DEF Final
    <3>3. PICK final \in BOOLEAN : final = Final(p, i)
      BY <3>2
    <3>4. PICK o : o = [kind |-> "settlement", pact |-> p, paycard |-> c, tx |-> i, final |-> final]
      OBVIOUS
    <3>5. /\ inFlight' = inFlight \cup {o}
          /\ UNCHANGED <<clock, governance, work, chain>>
          /\ OpenedPact(p) /\ i \in 1..Len(chain[c].payouts)
          /\ final => chain[c].status = "Terminated"
      BY <2>2, <3>1, <3>3, <3>4 DEF VerifySettlement, Observe, ChainFinal
    <3>6. old.openedAt # Never
      BY <1>1, <3>5 DEF OpenedPact
    <3>7. c \in Paycards /\ chain[c].status # "none" /\ old.status # "none"
      BY <1>1, <3>1, <3>6 DEF PactGood, Backed
    <3>8. StillTrue(o)
      BY <1>1, <3>3, <3>4, <3>5, <3>7 DEF StillTrue, Observation
    <3> QED
      BY <3>5, <3>8
  <2> QED
    BY <2>1, <2>2
<1>3. Governed' /\ TermsKept
  BY <1>2 DEF Sound, Governed, CommandsOnce, governance, work, TermsKept
<1>4. UNCHANGED <<pacts, cases, chain>>
  BY <1>2 DEF work
<1> QED
  BY <1>2, <1>3, <1>4, KernelSound DEF Sound

\* The mutation after the await: what it records is still true.
LEMMA RecordSound ==
    ASSUME Sound, NEW o \in inFlight, RecordOpening(o) \/ RecordSettlement(o) \/ Abandon(o)
    PROVE  Sound'
<1>1. StillTrue(o) /\ o \in Observation
  BY DEF Sound, StillTrue
<1>2. PICK p \in PactIds : p = o.pact
  BY <1>1 DEF Observation
<1>3. PICK old \in PactState : old = pacts[p] /\ PactGood(old)
  BY DEF Sound
<1>4. CASE RecordOpening(o)
  <2>1. /\ o.kind = "opening" /\ old.status = "payment_prepared" /\ old.paycard = o.paycard
        /\ UNCHANGED <<clock, governance, chain, cases>> /\ inFlight' = inFlight \ {o}
    BY <1>2, <1>3, <1>4 DEF RecordOpening, Bindable, Become
  <2>2. PICK now \in Nat : now = clock
    BY DEF Sound, Governed
  <2>3. PICK r : r = [old EXCEPT !.status = "active", !.openedAt = now]
    OBVIOUS
  <2>4. /\ r \in PactState /\ r.status = "active" /\ r.signed = old.signed
        /\ r.proposal = old.proposal /\ r.path = old.path /\ r.receipts = old.receipts
        /\ r.countersigned = old.countersigned /\ r.openedAt = now
        /\ r.paycard = o.paycard
    BY <2>1, <2>3 DEF PactState
  <2>5. r.receipts = {} /\ now # Never
    BY <1>3, <2>1, <2>2, <2>4 DEF PactGood
  <2>6. PactGood(r)
    BY <1>1, <1>2, <1>3, <2>1, <2>4, <2>5 DEF PactGood, StillTrue, SignedBy, Observation, Backed
  <2>7. pacts' = [pacts EXCEPT ![p] = r]
    BY <1>2, <1>3, <1>4, <2>2, <2>3 DEF RecordOpening, Become
  <2> QED
    BY <1>3, <2>1, <2>4, <2>6, <2>7, OnePact
<1>5. CASE RecordSettlement(o)
  <2>1. /\ o.kind = "settlement" /\ old.openedAt # Never /\ old.paycard = o.paycard
        /\ UNCHANGED <<clock, governance, chain, cases>> /\ inFlight' = inFlight \ {o}
    BY <1>2, <1>3, <1>5 DEF RecordSettlement, Become, OpenedPact
  <2>2. PICK receipts : receipts = old.receipts \cup {o.tx}
    OBVIOUS
  <2>3. receipts \in SUBSET Nat
    BY <1>1, <2>2 DEF PactState, Observation
  <2>4. PICK status : status = IF o.final THEN "settled" ELSE old.status
    OBVIOUS
  <2>5. status \in PactStatus /\ (status # old.status => status = "settled" /\ o.final)
    BY <2>4 DEF PactState
  <2>6. PICK r : r = [old EXCEPT !.receipts = receipts, !.status = status]
    OBVIOUS
  <2>7. /\ r \in PactState /\ r.status = status /\ r.signed = old.signed
        /\ r.proposal = old.proposal /\ r.path = old.path /\ r.receipts = receipts
        /\ r.countersigned = old.countersigned /\ r.openedAt = old.openedAt
        /\ r.paycard = old.paycard
    BY <2>3, <2>5, <2>6 DEF PactState
  <2>8. receipts \subseteq 1..Len(chain[o.paycard].payouts)
    BY <1>1, <1>3, <2>1, <2>2 DEF PactGood, StillTrue
  <2>9. status = "settled" => chain[o.paycard].status = "Terminated"
    BY <1>1, <1>3, <2>1, <2>4 DEF PactGood, StillTrue
  <2>10. PactGood(r)
    <3>1. old.status # "none" /\ old.status \notin Before /\ SignedBy(old) /\ SignedBy(r)
      BY <1>3, <2>1, <2>7 DEF PactGood, SignedBy
    <3>2. status # "none" /\ status \notin Before
      BY <2>5, <3>1
    <3>3. r.proposal \in Proposals /\ r.path \in Paths /\ r.proposal \in r.path.permits
      BY <1>3, <2>7, <3>1 DEF PactGood
    <3>4. r.paycard \in Paycards /\ Backed(r.proposal, r.paycard)
      BY <1>3, <2>1, <2>7 DEF PactGood
    <3> QED
      BY <2>1, <2>7, <2>8, <2>9, <3>1, <3>2, <3>3, <3>4 DEF PactGood
  <2>11. pacts' = [pacts EXCEPT ![p] = r]
    BY <1>2, <1>3, <1>5, <2>2, <2>4, <2>6 DEF RecordSettlement, Become
  <2>12. r.status # "none"
    BY <1>3, <2>1, <2>5, <2>7 DEF PactGood
  <2> QED
    BY <1>3, <2>1, <2>7, <2>10, <2>11, <2>12, OnePact
<1>6. CASE Abandon(o)
  <2>1. UNCHANGED <<clock, governance, chain, pacts, cases>> /\ inFlight' \subseteq inFlight
    BY <1>6 DEF Abandon, work
  <2>2. Governed' /\ TermsKept
    BY <2>1 DEF Sound, Governed, CommandsOnce, governance, TermsKept
  <2> QED
    BY <2>1, <2>2, KernelSound DEF Sound
<1> QED
  BY <1>4, <1>5, <1>6

\* Checkpoints, disputes and remedies change nothing but the status, and never
\* to one that a signature or a payment must have brought about.
LEMMA StatusGood ==
    ASSUME NEW old \in PactState, PactGood(old), old.status # "none", NEW status,
           \/ status \in {"disputed", "completed", "rectification_required", old.status}
           \/ old.status = "active" /\ status = "performing",
           NEW r, r = [old EXCEPT !.status = status]
    PROVE  PactGood(r) /\ r.status # "none" /\ r.proposal = old.proposal
<1>1. status \in PactStatus /\ status # "none"
  BY DEF PactState
<1>2. /\ r \in PactState /\ r.status = status /\ r.signed = old.signed
      /\ r.proposal = old.proposal /\ r.path = old.path /\ r.receipts = old.receipts
      /\ r.countersigned = old.countersigned /\ r.openedAt = old.openedAt
      /\ r.paycard = old.paycard
  BY <1>1 DEF PactState
<1>3. CASE status = old.status
  BY <1>2, <1>3 DEF PactGood, SignedBy
<1>4. CASE status = "performing" /\ old.status = "active"
  BY <1>2, <1>4 DEF PactGood, SignedBy
<1>5. CASE status \in {"disputed", "completed", "rectification_required"}
  BY <1>2, <1>5 DEF PactGood, SignedBy
<1> QED
  BY <1>1, <1>2, <1>3, <1>4, <1>5

\* A checkpoint and a verdict move a Pact between performing, completed, disputed.
LEMMA CheckpointSound ==
    ASSUME Sound, NEW p \in PactIds,
           \/ \E type \in {"progress", "completed"} : SubmitCheckpoint(p, type)
           \/ \E i, verdict : VerifyCheckpoint(p, i, verdict) /\ pacts[p].status # "none"
    PROVE  Sound'
<1>1. PICK old \in PactState : old = pacts[p] /\ PactGood(old)
  BY DEF Sound
<1>2. PICK status :
        /\ \/ status \in {"disputed", "completed", old.status}
           \/ old.status = "active" /\ status = "performing"
        /\ old.status # "none"
        /\ pacts' = [pacts EXCEPT ![p] = [old EXCEPT !.status = status]]
        /\ UNCHANGED <<clock, governance, chain, cases, inFlight>>
  <2>1. ASSUME NEW type \in {"progress", "completed"}, SubmitCheckpoint(p, type)
        PROVE  \E status :
          /\ \/ status \in {"disputed", "completed", old.status}
             \/ old.status = "active" /\ status = "performing"
          /\ old.status # "none"
          /\ pacts' = [pacts EXCEPT ![p] = [old EXCEPT !.status = status]]
          /\ UNCHANGED <<clock, governance, chain, cases, inFlight>>
    <3>1. PICK status : status = IF old.status = "active" THEN "performing" ELSE old.status
      OBVIOUS
    <3> QED
      BY <1>1, <2>1, <3>1 DEF SubmitCheckpoint, Become
  <2>2. ASSUME NEW i, NEW verdict, VerifyCheckpoint(p, i, verdict), pacts[p].status # "none"
        PROVE  \E status :
          /\ \/ status \in {"disputed", "completed", old.status}
             \/ old.status = "active" /\ status = "performing"
          /\ old.status # "none"
          /\ pacts' = [pacts EXCEPT ![p] = [old EXCEPT !.status = status]]
          /\ UNCHANGED <<clock, governance, chain, cases, inFlight>>
    <3>1. PICK status : status = StatusAfter(old.status, checkpoints[p][i], verdict)
      OBVIOUS
    <3>2. status \in {"disputed", "completed", old.status}
      BY <3>1 DEF StatusAfter
    <3> QED
      BY <1>1, <2>2, <3>1, <3>2 DEF VerifyCheckpoint, Become
  <2> QED
    BY <2>1, <2>2
<1>3. PICK r : r = [old EXCEPT !.status = status]
  OBVIOUS
<1>4. PactGood(r) /\ r.status # "none" /\ r.proposal = old.proposal
  BY <1>1, <1>2, <1>3, StatusGood
<1> QED
  BY <1>1, <1>2, <1>3, <1>4, OnePact

\* A case names a Pact that exists.
LEMMA OpenCaseSound ==
    ASSUME Sound, NEW p \in PactIds, NEW k \in Cases, OpenGaiaCase(k, p)
    PROVE  Sound'
<1>1. PICK old \in PactState : old = pacts[p] /\ PactGood(old)
  BY DEF Sound
<1>2. PICK r : r = [old EXCEPT !.status = "disputed"]
  OBVIOUS
<1>3. /\ pacts' = [pacts EXCEPT ![p] = r] /\ old.status # "none"
      /\ cases' = [cases EXCEPT ![k] = [status |-> "open", pact |-> p]]
      /\ UNCHANGED <<clock, governance, chain, inFlight>>
  BY <1>1, <1>2 DEF OpenGaiaCase, Become, Exists
<1>4. PactGood(r) /\ r.status # "none" /\ r.proposal = old.proposal
  BY <1>1, <1>2, <1>3, StatusGood
<1>5. pacts \in [PactIds -> PactState] /\ r \in PactState
  BY <1>4 DEF Sound, PactGood
<1>6. /\ pacts' \in [PactIds -> PactState] /\ pacts'[p] = r
      /\ \A q \in PactIds \ {p} : pacts'[q] = pacts[q]
  BY <1>3, <1>5
<1>7. PactGood(r)'
  BY <1>3, <1>4 DEF PactGood, Backed, SignedBy
<1>8. \A q \in PactIds : pacts'[q] # pacts[q] => PactGood(pacts[q])'
  BY <1>6, <1>7
<1>9. TermsKept
  BY <1>1, <1>4, <1>6 DEF TermsKept
<1>10. PICK case \in CaseState : case = [status |-> "open", pact |-> p]
  BY DEF CaseState
<1>11. cases \in [Cases -> CaseState]
  BY DEF Sound
<1>12. /\ cases' \in [Cases -> CaseState] /\ cases'[k] = case
       /\ \A j \in Cases \ {k} : cases'[j] = cases[j]
  BY <1>3, <1>10, <1>11
<1>13. CaseGood(cases[k])'
  BY <1>4, <1>6, <1>10, <1>12 DEF CaseGood
<1>14. \A j \in Cases : cases'[j] # cases[j] => CaseGood(cases[j])'
  BY <1>12, <1>13
<1>15. Governed'
  BY <1>3 DEF Sound, Governed, CommandsOnce, governance
<1> QED
  BY <1>3, <1>6, <1>8, <1>9, <1>12, <1>14, <1>15, KernelSound

\* A command takes effect at its own place in the order, once.
LEMMA AuthorizeGoverned ==
    ASSUME Sound, NEW cmd \in Commands, NEW op, Authorize(cmd, op),
           UNCHANGED <<clock, path>>
    PROVE  Governed'
<1>1. /\ cmd.nonce = commandNonce /\ commandNonce \in Nat /\ commandNonce' = commandNonce + 1
      /\ executed' = executed \cup {cmd} /\ executed \subseteq Commands
  BY DEF Authorize, NonceMatches, Sound, Governed
<1>2. {c.nonce : c \in executed} = 0..(commandNonce - 1)
  BY DEF Sound, Governed, CommandsOnce
<1>3. {c.nonce : c \in executed'} = {c.nonce : c \in executed} \cup {commandNonce}
  BY <1>1
<1>4. 0..(commandNonce' - 1) = (0..(commandNonce - 1)) \cup {commandNonce}
  BY <1>1
<1>5. \A c \in executed : c.nonce \in 0..(commandNonce - 1)
  BY <1>2
<1>6. \A c \in executed : c.nonce # cmd.nonce
  BY <1>1, <1>5
<1>7. \A a, b \in executed' : a.nonce = b.nonce => a = b
  BY <1>1, <1>6 DEF Sound, Governed, CommandsOnce
<1> QED
  BY <1>1, <1>2, <1>3, <1>4, <1>7 DEF Sound, Governed, CommandsOnce

\* A resolution leaves the terms of the Pact alone.
LEMMA ResolveSound ==
    ASSUME Sound, NEW cmd \in Commands, ResolveGaiaCase(cmd)
    PROVE  Sound'
<1>1. PICK k \in Cases : k = cmd.target
  <2>1. cmd.op = "resolve_gaia"
    BY DEF ResolveGaiaCase, Authorize
  <2>2. cmd.target \in Cases
    BY <2>1
  <2> QED
    BY <2>2
<1>2. PICK old \in CaseState : old = cases[k] /\ CaseGood(old) /\ old.status # "none"
  BY <1>1 DEF Sound, ResolveGaiaCase
<1>3. PICK p \in PactIds : p = old.pact
  BY <1>2 DEF CaseGood
<1>4. PICK pact \in PactState : pact = pacts[p] /\ PactGood(pact) /\ pact.status # "none"
  BY <1>2, <1>3 DEF Sound, CaseGood
<1>5. PICK status, outcome :
        /\ status = IF cmd.arg \in Remedies THEN "rectification_required" ELSE pact.status
        /\ outcome = IF cmd.arg \in Remedies THEN "rectification_required"
                     ELSE IF cmd.arg = "dismiss" THEN "dismissed" ELSE "resolved"
  OBVIOUS
<1>6. PICK r : r = [pact EXCEPT !.status = status]
  OBVIOUS
<1>7. PICK case : case = [old EXCEPT !.status = outcome]
  OBVIOUS
<1>8. /\ pacts' = [pacts EXCEPT ![p] = r]
      /\ cases' = [cases EXCEPT ![k] = case]
      /\ UNCHANGED <<clock, path, chain, inFlight>>
  BY <1>1, <1>2, <1>3, <1>4, <1>5, <1>6, <1>7 DEF ResolveGaiaCase
<1>9. PactGood(r) /\ r.status # "none" /\ r.proposal = pact.proposal
  BY <1>4, <1>5, <1>6, StatusGood
<1>10. pacts \in [PactIds -> PactState] /\ r \in PactState
  BY <1>9 DEF Sound, PactGood
<1>11. /\ pacts' \in [PactIds -> PactState] /\ pacts'[p] = r
       /\ \A q \in PactIds \ {p} : pacts'[q] = pacts[q]
  BY <1>8, <1>10
<1>12. PactGood(r)'
  BY <1>8, <1>9 DEF PactGood, Backed, SignedBy
<1>13. \A q \in PactIds : pacts'[q] # pacts[q] => PactGood(pacts[q])'
  BY <1>11, <1>12
<1>14. TermsKept
  BY <1>4, <1>9, <1>11 DEF TermsKept
<1>15. case \in CaseState /\ case.pact = p
  BY <1>3, <1>5, <1>7 DEF CaseState
<1>16. cases \in [Cases -> CaseState]
  BY DEF Sound
<1>17. /\ cases' \in [Cases -> CaseState] /\ cases'[k] = case
       /\ \A j \in Cases \ {k} : cases'[j] = cases[j]
  BY <1>8, <1>15, <1>16
<1>18. CaseGood(cases[k])'
  BY <1>9, <1>11, <1>15, <1>17 DEF CaseGood
<1>19. \A j \in Cases : cases'[j] # cases[j] => CaseGood(cases[j])'
  BY <1>17, <1>18
<1>20. Governed'
  BY <1>8, AuthorizeGoverned DEF ResolveGaiaCase
<1> QED
  BY <1>8, <1>11, <1>13, <1>14, <1>17, <1>19, <1>20, KernelSound

\* Steps that touch no Pact and no case.
LEMMA AsideSound ==
    ASSUME Sound, Governed', UNCHANGED <<chain, pacts, cases, inFlight>>
    PROVE  Sound'
<1>1. TermsKept
  BY DEF TermsKept
<1> QED
  BY <1>1, KernelSound DEF Sound

\* What touches neither a Pact nor a channel keeps the invariant.
LEMMA RestSound ==
    ASSUME Sound,
           \/ ClockTick \/ RegisterAgent
           \/ \E pa \in Paths : ActivatePath(pa)
           \/ \E cmd \in Commands : SetAgentStatus(cmd) \/ InstallPlugin(cmd)
           \/ \E prop \in Proposals : SubmitProposal(prop) \/ RunNextJob(prop)
    PROVE  Sound'
<1>1. CASE ClockTick
  BY <1>1, AsideSound DEF ClockTick, work, governance, Sound, Governed, CommandsOnce
<1>2. CASE RegisterAgent
  BY <1>2, AsideSound DEF RegisterAgent, work, Sound, Governed, CommandsOnce
<1>3. ASSUME NEW pa \in Paths, ActivatePath(pa) PROVE Sound'
  BY <1>3, AsideSound DEF ActivatePath, work, Sound, Governed, CommandsOnce
<1>4. ASSUME NEW cmd \in Commands, SetAgentStatus(cmd) \/ InstallPlugin(cmd) PROVE Sound'
  BY <1>4, AuthorizeGoverned, AsideSound DEF SetAgentStatus, InstallPlugin, work
<1>5. ASSUME NEW prop \in Proposals, SubmitProposal(prop) \/ RunNextJob(prop) PROVE Sound'
  BY <1>5, AsideSound DEF SubmitProposal, RunNextJob, governance, Sound, Governed, CommandsOnce
<1> QED
  BY <1>1, <1>2, <1>3, <1>4, <1>5

-----------------------------------------------------------------------------
(* What a step leaves of a Pact.                                           *)

\* A Pact has checkpoints only once it exists.
Untouched == \A p \in PactIds : pacts[p].status = "none" => checkpoints[p] = <<>>

Lasting ==
    \A p \in PactIds :
        /\ pacts[p].status # "none" =>
              pacts'[p].status # "none" /\ pacts'[p].proposal = pacts[p].proposal
        /\ pacts[p].openedAt # Never =>
              /\ pacts'[p].openedAt = pacts[p].openedAt
              /\ pacts'[p].paycard = pacts[p].paycard
              /\ pacts[p].receipts \subseteq pacts'[p].receipts
        /\ pacts[p].status = "settled" /\ "afterlife" \notin Hazards =>
              pacts'[p].status = "settled"

\* Only one Pact changes, and it does not forget.
LEMMA OneLasts ==
    ASSUME Sound, NEW p \in PactIds, NEW r, pacts' = [pacts EXCEPT ![p] = r],
           pacts[p].status # "none" =>
              r.status # "none" /\ r.proposal = pacts[p].proposal,
           pacts[p].openedAt # Never =>
              /\ r.openedAt = pacts[p].openedAt /\ r.paycard = pacts[p].paycard
              /\ pacts[p].receipts \subseteq r.receipts,
           pacts[p].status = "settled" /\ "afterlife" \notin Hazards => r.status = "settled"
    PROVE  Lasting
<1>1. pacts \in [PactIds -> PactState]
  BY DEF Sound
<1>2. pacts'[p] = r /\ \A q \in PactIds \ {p} : pacts'[q] = pacts[q]
  BY <1>1
<1> QED
  BY <1>2 DEF Lasting

\* None changes.
LEMMA SameLasts ==
    ASSUME UNCHANGED pacts
    PROVE  Lasting
BY DEF Lasting

\* The steps of the runtime on a Pact keep its opening, its receipts and its end.
LEMMA PactStepLasts ==
    ASSUME Sound, Untouched, NEW p \in PactIds, PactNext(p)
    PROVE  Lasting
<1>1. PICK old \in PactState : old = pacts[p] /\ PactGood(old)
  BY DEF Sound
<1>2. ASSUME NEW prop \in Proposals, NEW cs \in BOOLEAN, CreatePact(p, prop, cs)
      PROVE  Lasting
  <2>1. old.status = "none" /\ old.openedAt = Never
    BY <1>1, <1>2 DEF CreatePact, Exists, PactGood
  <2>2. PICK r : pacts' = [pacts EXCEPT ![p] = r]
    BY <1>2 DEF CreatePact, Become
  <2> QED
    BY <1>1, <2>1, <2>2, OneLasts
<1>3. ASSUME NEW signer, SignPact(p, signer)
      PROVE  Lasting
  <2>1. old.status = "awaiting_signatures" /\ old.openedAt = Never
    BY <1>1, <1>3 DEF SignPact, PactGood
  <2>2. PICK signed, status : /\ status \in {"accepted", old.status}
                              /\ pacts' = [pacts EXCEPT ![p] =
                                    [old EXCEPT !.signed = signed, !.status = status]]
    BY <1>1, <1>3 DEF SignPact, Become
  <2>3. PICK r : r = [old EXCEPT !.signed = signed, !.status = status]
    OBVIOUS
  <2>4. r.status = status /\ r.proposal = old.proposal
    BY <2>3 DEF PactState
  <2> QED
    BY <1>1, <2>1, <2>2, <2>3, <2>4, OneLasts
<1>4. ASSUME NEW c \in Paycards, PreparePayment(p, c)
      PROVE  Lasting
  <2>1. old.status \in {"accepted", "payment_prepared"} /\ old.openedAt = Never
    BY <1>1, <1>4 DEF PreparePayment, Preparable, PactGood
  <2>2. PICK r : r = [old EXCEPT !.status = "payment_prepared", !.paycard = c, !.receipts = {}]
    OBVIOUS
  <2>3. r.status = "payment_prepared" /\ r.proposal = old.proposal
    BY <2>2 DEF PactState
  <2>4. pacts' = [pacts EXCEPT ![p] = r]
    BY <1>1, <1>4, <2>2 DEF PreparePayment, Become
  <2> QED
    BY <1>1, <2>1, <2>3, <2>4, OneLasts
<1>5. CASE VerifyOpening(p) \/ \E i : VerifySettlement(p, i)
  BY <1>5, SameLasts DEF VerifyOpening, VerifySettlement, Observe, work
<1>6. ASSUME NEW type, SubmitCheckpoint(p, type)
      PROVE  Lasting
  <2>1. PICK status : status = IF old.status = "active" THEN "performing" ELSE old.status
    OBVIOUS
  <2>2. /\ pacts' = [pacts EXCEPT ![p] = [old EXCEPT !.status = status]]
        /\ old.status \in {"active", "performing", "disputed"}
        /\ status # "none" /\ old.status # "settled"
    BY <1>1, <1>6, <2>1 DEF SubmitCheckpoint, Become
  <2>3. PICK r : r = [old EXCEPT !.status = status]
    OBVIOUS
  <2>4. /\ r.status = status /\ r.proposal = old.proposal /\ r.openedAt = old.openedAt
        /\ r.paycard = old.paycard /\ r.receipts = old.receipts
    BY <2>3 DEF PactState
  <2> QED
    BY <1>1, <2>1, <2>2, <2>3, <2>4, OneLasts
<1>7. ASSUME NEW i \in 1..Len(checkpoints[p]), NEW verdict, VerifyCheckpoint(p, i, verdict)
      PROVE  Lasting
  <2>1. PICK status : status = StatusAfter(old.status, checkpoints[p][i], verdict)
    OBVIOUS
  <2>2. /\ pacts' = [pacts EXCEPT ![p] = [old EXCEPT !.status = status]]
        /\ old.status = "settled" => "afterlife" \in Hazards
    BY <1>1, <1>7, <2>1 DEF VerifyCheckpoint, Become, Undisturbed, Settled
  <2>3. old.status # "none" => status # "none"
    BY <2>1 DEF StatusAfter
  <2>4. PICK r : r = [old EXCEPT !.status = status]
    OBVIOUS
  <2>5. /\ r.status = status /\ r.proposal = old.proposal /\ r.openedAt = old.openedAt
        /\ r.paycard = old.paycard /\ r.receipts = old.receipts
    BY <2>4 DEF PactState
  <2> QED
    BY <1>1, <2>2, <2>3, <2>4, <2>5, OneLasts
<1>8. ASSUME NEW k \in Cases, OpenGaiaCase(k, p)
      PROVE  Lasting
  <2>1. PICK r : r = [old EXCEPT !.status = "disputed"]
    OBVIOUS
  <2>2. /\ pacts' = [pacts EXCEPT ![p] = r]
        /\ old.status = "settled" => "afterlife" \in Hazards
    BY <1>1, <1>8, <2>1 DEF OpenGaiaCase, Become, Undisturbed, Settled
  <2>3. /\ r.status = "disputed" /\ r.proposal = old.proposal /\ r.openedAt = old.openedAt
        /\ r.paycard = old.paycard /\ r.receipts = old.receipts
    BY <2>1 DEF PactState
  <2> QED
    BY <1>1, <2>2, <2>3, OneLasts
<1> QED
  BY <1>2, <1>3, <1>4, <1>5, <1>6, <1>7, <1>8 DEF PactNext

\* So does the resolution of a case,
LEMMA ResolveLasts ==
    ASSUME Sound, NEW cmd \in Commands, ResolveGaiaCase(cmd)
    PROVE  Lasting
<1>1. PICK p : p = cases[cmd.target].pact
  OBVIOUS
<1>2. PICK status : /\ status \in {"rectification_required", pacts[p].status}
                    /\ pacts' = [pacts EXCEPT ![p] = [pacts[p] EXCEPT !.status = status]]
                    /\ pacts[p].status = "settled" => "afterlife" \in Hazards
  BY <1>1 DEF ResolveGaiaCase, Undisturbed, Settled
<1>3. pacts \in [PactIds -> PactState]
  BY DEF Sound
<1>4. CASE p \in PactIds
  <2>1. PICK old \in PactState : old = pacts[p]
    BY <1>3, <1>4
  <2>2. PICK r : r = [old EXCEPT !.status = status]
    OBVIOUS
  <2>3. pacts' = [pacts EXCEPT ![p] = r]
    BY <1>2, <2>1, <2>2
  <2>4. /\ r.status = status /\ r.proposal = old.proposal /\ r.openedAt = old.openedAt
        /\ r.paycard = old.paycard /\ r.receipts = old.receipts
    BY <2>2 DEF PactState
  <2> QED
    <3>1. old.status # "none" => r.status # "none"
      BY <1>2, <2>1, <2>4
    <3>2. old.status = "settled" /\ "afterlife" \notin Hazards => r.status = "settled"
      BY <1>2, <2>1, <2>4
    <3> QED
      BY <1>4, <2>1, <2>3, <2>4, <3>1, <3>2, OneLasts
<1>5. CASE p \notin PactIds
  <2>1. pacts' = pacts
    BY <1>2, <1>3, <1>5
  <2> QED
    BY <2>1, SameLasts
<1> QED
  BY <1>4, <1>5

\* and what the verifier found on the chain when it is recorded.
LEMMA RecordLasts ==
    ASSUME Sound, NEW o \in inFlight, RecordOpening(o) \/ RecordSettlement(o) \/ Abandon(o)
    PROVE  Lasting
<1>1. PICK p \in PactIds : p = o.pact
  BY DEF Sound, StillTrue, Observation
<1>2. PICK old \in PactState : old = pacts[p] /\ PactGood(old)
  BY DEF Sound
<1>3. CASE RecordOpening(o)
  <2>1. old.status = "payment_prepared" /\ old.openedAt = Never
    BY <1>1, <1>2, <1>3 DEF RecordOpening, Bindable, PactGood
  <2>2. PICK r : r = [old EXCEPT !.status = "active", !.openedAt = clock]
    OBVIOUS
  <2>3. r.status = "active" /\ r.proposal = old.proposal
    BY <2>2 DEF PactState
  <2>4. pacts' = [pacts EXCEPT ![p] = r]
    BY <1>1, <1>2, <1>3, <2>2 DEF RecordOpening, Become
  <2> QED
    BY <1>2, <2>1, <2>3, <2>4, OneLasts
<1>4. CASE RecordSettlement(o)
  <2>1. PICK receipts, status : /\ receipts = old.receipts \cup {o.tx}
                                /\ status = IF o.final THEN "settled" ELSE old.status
    OBVIOUS
  <2>2. PICK r : r = [old EXCEPT !.receipts = receipts, !.status = status]
    OBVIOUS
  <2>3. pacts' = [pacts EXCEPT ![p] = r]
    BY <1>1, <1>2, <1>4, <2>1, <2>2 DEF RecordSettlement, Become
  <2>4. /\ r.status = status /\ r.proposal = old.proposal /\ r.openedAt = old.openedAt
        /\ r.paycard = old.paycard /\ r.receipts = receipts
    BY <2>2 DEF PactState
  <2> QED
    BY <1>2, <2>1, <2>3, <2>4, OneLasts
<1>5. CASE Abandon(o)
  BY <1>5, SameLasts DEF Abandon, work
<1> QED
  BY <1>3, <1>4, <1>5

\* Every step leaves what was agreed, opened and settled.
LEMMA NextLasts ==
    ASSUME Sound, Untouched, [Next]_vars
    PROVE  Lasting
<1>1. CASE ClockTick \/ VaultNext \/ UNCHANGED vars
  BY <1>1, SameLasts DEF ClockTick, VaultNext, WalletOpens, VaultPays, VaultCloses, work, vars
<1>2. CASE GovernanceNext
  BY <1>2, SameLasts, ResolveLasts
     DEF GovernanceNext, RegisterAgent, ActivatePath, SetAgentStatus, InstallPlugin, work
<1>3. ASSUME NEW prop \in Proposals, SubmitProposal(prop) \/ RunNextJob(prop)
      PROVE  Lasting
  BY <1>3, SameLasts DEF SubmitProposal, RunNextJob
<1>4. ASSUME NEW p \in PactIds, PactNext(p)
      PROVE  Lasting
  BY <1>4, PactStepLasts
<1>5. ASSUME NEW o \in inFlight, RecordOpening(o) \/ RecordSettlement(o) \/ Abandon(o)
      PROVE  Lasting
  BY <1>5, RecordLasts
<1> QED
  BY <1>1, <1>2, <1>3, <1>4, <1>5 DEF Next

-----------------------------------------------------------------------------
(* The invariant and the theorems.                                         *)

\* Nothing has happened yet.
LEMMA InitSound ==
    ASSUME Init
    PROVE  Sound /\ Untouched
<1>1. PICK r : r = NoPact
  OBVIOUS
<1>2. PactGood(r) /\ r \in PactState
  BY <1>1 DEF NoPact, PactGood, PactState
<1>3. PICK card : card = NoCard
  OBVIOUS
<1>4. card \in CardState /\ CardGood(card)
  BY <1>3 DEF NoCard, CardState, CardGood, Parties
<1>5. PICK case : case = NoCase
  OBVIOUS
<1>6. case \in CaseState /\ case.status = "none"
  BY <1>5 DEF NoCase, CaseState
<1>7. CommandsOnce
  <2>1. 0..(0 - 1) = {}
    OBVIOUS
  <2> QED
    BY <2>1 DEF Init, CommandsOnce
<1>8. Governed
  BY <1>7 DEF Init, Governed
<1> QED
  BY <1>1, <1>2, <1>3, <1>4, <1>5, <1>6, <1>8 DEF Init, Sound, CaseGood, Untouched

\* Every step keeps the invariant,
LEMMA NextSound ==
    ASSUME Sound, Untouched, [Next]_vars
    PROVE  Sound'
<1>1. CASE VaultNext
  BY <1>1, VaultSound
<1>2. CASE UNCHANGED vars
  BY <1>2, AsideSound DEF vars, Sound, Governed, CommandsOnce
<1>3. CASE GovernanceNext
  BY <1>3, RestSound, ResolveSound DEF GovernanceNext
<1>4. CASE ClockTick \/ \E prop \in Proposals : SubmitProposal(prop) \/ RunNextJob(prop)
  BY <1>4, RestSound
<1>5. ASSUME NEW p \in PactIds, PactNext(p)
      PROVE  Sound'
  <2>1. ASSUME NEW i \in 1..Len(checkpoints[p]), NEW verdict, VerifyCheckpoint(p, i, verdict)
        PROVE  pacts[p].status # "none"
    BY <2>1 DEF Untouched
  <2> QED
    BY <1>5, <2>1, CreateSound, SignSound, PrepareSound, VerifySound, CheckpointSound,
       OpenCaseSound DEF PactNext
<1>6. ASSUME NEW o \in inFlight, RecordOpening(o) \/ RecordSettlement(o) \/ Abandon(o)
      PROVE  Sound'
  BY <1>6, RecordSound
<1> QED
  BY <1>1, <1>2, <1>3, <1>4, <1>5, <1>6 DEF Next

\* and leaves no work under a Pact that does not exist.
LEMMA NextUntouched ==
    ASSUME Sound, Untouched, [Next]_vars
    PROVE  Untouched'
<1>1. Lasting
  BY NextLasts
<1>2. ASSUME NEW p \in PactIds, pacts'[p].status = "none"
      PROVE  checkpoints'[p] = <<>>
  <2>1. pacts[p].status = "none" /\ checkpoints[p] = <<>>
    BY <1>1, <1>2 DEF Lasting, Untouched
  <2>2. CASE UNCHANGED checkpoints
    BY <2>1, <2>2
  <2>3. CASE \E q \in PactIds : \E type : SubmitCheckpoint(q, type)
    <3>1. PICK q \in PactIds : \E type : SubmitCheckpoint(q, type)
      BY <2>3
    <3>2. q # p /\ \E e : checkpoints' = [checkpoints EXCEPT ![q] = e]
      BY <2>1, <3>1 DEF SubmitCheckpoint
    <3> QED
      BY <2>1, <3>2
  <2>4. UNCHANGED checkpoints \/ \E q \in PactIds : \E type : SubmitCheckpoint(q, type)
    BY DEF Next, vars, ClockTick, VaultNext, WalletOpens, VaultPays, VaultCloses,
           GovernanceNext, RegisterAgent, ActivatePath, SetAgentStatus, InstallPlugin,
           ResolveGaiaCase, SubmitProposal, RunNextJob, PactNext, CreatePact, SignPact,
           PreparePayment, VerifyOpening, VerifySettlement, Observe, VerifyCheckpoint,
           OpenGaiaCase, RecordOpening, RecordSettlement, Abandon, work
  <2> QED
    BY <2>2, <2>3, <2>4
<1> QED
  BY <1>2 DEF Untouched

\* The invariant: signatures, Paths, bindings and observations fit together.
THEOREM SoundAlways == Spec => [](Sound /\ Untouched)
<1>1. Init => Sound /\ Untouched
  BY InitSound
<1>2. Sound /\ Untouched /\ [Next]_vars => (Sound /\ Untouched)'
  BY NextSound, NextUntouched
<1> QED
  BY <1>1, <1>2, PTL DEF Spec

\* A Pact that reads active, performing or settled is backed by a Paycard of the
\* vault, and a settled one by a Paycard that is closed and empty.
THEOREM FundedOnChainAlways == Spec => []FundedOnChain
<1>1. Sound => FundedOnChain
  <2>1. SUFFICES ASSUME Sound, NEW p \in PactIds
                 PROVE  LET card == chain[pacts[p].paycard] IN
                        /\ pacts[p].status \in {"active", "performing", "settled"} => OpenedPact(p)
                        /\ OpenedPact(p) =>
                              /\ card.status # "none"
                              /\ card.amount = Amount(p)
                              /\ card.recipient = pacts[p].proposal.counterparty
                              /\ pacts[p].receipts \subseteq 1..Len(card.payouts)
                        /\ Settled(p) => card.status = "Terminated" /\ card.left = 0
    BY DEF FundedOnChain
  <2>2. PactGood(pacts[p])
    BY <2>1 DEF Sound
  <2>3. OpenedPact(p) => CardGood(chain[pacts[p].paycard])
    BY <2>1, <2>2 DEF Sound, PactGood, OpenedPact
  <2> QED
    BY <2>1, <2>2, <2>3 DEF PactGood, OpenedPact, Backed, Amount, Settled, CardGood
<1> QED
  BY <1>1, SoundAlways, PTL

\* No Pact is opened without the signatures it calls for.
THEOREM FundedWasSignedAlways == Spec => []FundedWasSigned
<1>1. Sound => FundedWasSigned
  BY DEF Sound, PactGood, FundedWasSigned, OpenedPact, SignedBy
<1> QED
  BY <1>1, SoundAlways, PTL

\* createPactFromProposal forms a Pact under a revision that permits it.
THEOREM FormedUnderItsPathAlways == Spec => []FormedUnderItsPath
<1>1. Sound => FormedUnderItsPath
  BY DEF Sound, PactGood, FormedUnderItsPath, Exists
<1> QED
  BY <1>1, SoundAlways, PTL

\* Workspace commands take effect in order and once, whatever is signed.
THEOREM CommandsOnceAlways == Spec => []CommandsOnce
<1>1. Sound => CommandsOnce
  BY DEF Sound, Governed
<1> QED
  BY <1>1, SoundAlways, PTL

\* Neither terms, Paycard nor time of an opening ever change, and no receipt is lost.
THEOREM OpeningIsLastingAlways == Spec => OpeningIsLasting
<1>1. ASSUME Sound, Untouched, [Next]_vars
      PROVE  \A p \in PactIds : OpenedPact(p) =>
                /\ pacts'[p].paycard = pacts[p].paycard
                /\ pacts'[p].openedAt = pacts[p].openedAt
                /\ pacts'[p].proposal = pacts[p].proposal
                /\ pacts[p].receipts \subseteq pacts'[p].receipts
  <2>1. \A p \in PactIds : OpenedPact(p) => pacts[p].status # "none"
    BY <1>1 DEF Sound, PactGood, OpenedPact
  <2> QED
    BY <1>1, <2>1, NextLasts DEF Lasting, OpenedPact
<1> QED
  BY <1>1, SoundAlways, PTL DEF Spec, OpeningIsLasting

\* An opening is recorded only under the authority in force at that moment, also
\* when it was asked for under another.
THEOREM OpeningAuthorizedAlways == Spec => OpeningAuthorized
<1>1. ASSUME Sound, Untouched, [Next]_vars
      PROVE  \A p \in PactIds : ~OpenedPact(p) /\ OpenedPact(p)' =>
                agent = "active" /\ path = pacts[p].path /\ InForce
  <2>1. SUFFICES ASSUME NEW p \in PactIds, ~OpenedPact(p), OpenedPact(p)'
                 PROVE  agent = "active" /\ path = pacts[p].path /\ InForce
    OBVIOUS
  <2>2. pacts[p].openedAt = Never /\ pacts'[p].openedAt # Never
    BY <2>1 DEF OpenedPact
  <2>3. pacts \in [PactIds -> PactState]
    BY <1>1 DEF Sound
  <2>4. ASSUME NEW o \in inFlight, RecordOpening(o)
        PROVE  agent = "active" /\ path = pacts[p].path /\ InForce
    <3>1. CASE o.pact = p
      BY <2>4, <3>1 DEF RecordOpening, Bindable, Eligible
    <3>2. CASE o.pact # p
      <4>1. \E e : pacts' = [pacts EXCEPT ![o.pact] = e]
        BY <2>4 DEF RecordOpening, Become
      <4> QED
        BY <2>2, <2>3, <3>2, <4>1
    <3> QED
      BY <3>1, <3>2
  <2>6. ASSUME NEW q \in PactIds, PactNext(q)
        PROVE  FALSE
    <3>1. PICK old \in PactState : old = pacts[q]
      BY <2>3
    <3>2. ASSUME NEW prop, NEW cs, CreatePact(q, prop, cs)
          PROVE  FALSE
      <4>1. PICK e : e = [NoPact EXCEPT !.status = "awaiting_signatures", !.proposal = prop,
                                       !.path = path, !.countersigned = cs]
        OBVIOUS
      <4>2. e.openedAt = Never
        BY <4>1 DEF NoPact
      <4> QED
        <5>1. pacts' = [pacts EXCEPT ![q] = e]
          BY <3>2, <4>1 DEF CreatePact, Become
        <5> QED
          BY <2>2, <2>3, <4>2, <5>1
    <3>3. ASSUME NEW signed, NEW status, NEW paycard, NEW receipts,
                 \/ pacts' = [pacts EXCEPT ![q] = [old EXCEPT !.signed = signed, !.status = status]]
                 \/ pacts' = [pacts EXCEPT ![q] = [old EXCEPT !.status = status]]
                 \/ pacts' = [pacts EXCEPT ![q] = [old EXCEPT !.status = status,
                                         !.paycard = paycard, !.receipts = receipts]]
          PROVE  FALSE
      <4>1. PICK e : /\ e \in {[old EXCEPT !.signed = signed, !.status = status],
                               [old EXCEPT !.status = status],
                               [old EXCEPT !.status = status, !.paycard = paycard,
                                           !.receipts = receipts]}
                     /\ pacts' = [pacts EXCEPT ![q] = e]
        BY <3>3
      <4>2. e.openedAt = old.openedAt
        BY <4>1 DEF PactState
      <4> QED
        BY <2>2, <2>3, <3>1, <4>1, <4>2
    <3>4. ASSUME NEW signer, SignPact(q, signer)
          PROVE  FALSE
      BY <3>1, <3>3, <3>4 DEF SignPact, Become
    <3>5. ASSUME NEW c, PreparePayment(q, c)
          PROVE  FALSE
      BY <3>1, <3>3, <3>5 DEF PreparePayment, Become
    <3>6. CASE VerifyOpening(q) \/ \E i : VerifySettlement(q, i)
      BY <2>2, <3>6 DEF VerifyOpening, VerifySettlement, Observe, work
    <3>7. ASSUME NEW type, SubmitCheckpoint(q, type)
          PROVE  FALSE
      BY <3>1, <3>3, <3>7 DEF SubmitCheckpoint, Become
    <3>8. ASSUME NEW i, NEW verdict, VerifyCheckpoint(q, i, verdict)
          PROVE  FALSE
      BY <3>1, <3>3, <3>8 DEF VerifyCheckpoint, Become
    <3>9. ASSUME NEW k, OpenGaiaCase(k, q)
          PROVE  FALSE
      BY <3>1, <3>3, <3>9 DEF OpenGaiaCase, Become
    <3> QED
      BY <2>6, <3>2, <3>4, <3>5, <3>6, <3>7, <3>8, <3>9 DEF PactNext
  <2>7. ASSUME NEW o \in inFlight, RecordSettlement(o)
        PROVE  FALSE
    <3>1. PICK q \in PactIds : q = o.pact /\ pacts[q].openedAt # Never
      BY <1>1, <2>7 DEF Sound, StillTrue, Observation, RecordSettlement, OpenedPact
    <3>2. \E e : pacts' = [pacts EXCEPT ![q] = e]
      BY <2>7, <3>1 DEF RecordSettlement, Become
    <3> QED
      BY <2>2, <2>3, <3>1, <3>2
  <2>8. ASSUME NEW cmd \in Commands, ResolveGaiaCase(cmd)
        PROVE  FALSE
    <3>1. PICK q, status : pacts' = [pacts EXCEPT ![q].status = status]
      BY <2>8 DEF ResolveGaiaCase
    <3>2. \A r \in PactState : [r EXCEPT !.status = status].openedAt = r.openedAt
      BY DEF PactState
    <3> QED
      BY <2>2, <2>3, <3>1, <3>2
  <2>9. CASE UNCHANGED pacts
    BY <2>2, <2>9
  <2>10. UNCHANGED pacts \/ (\E q \in PactIds : PactNext(q))
         \/ (\E o \in inFlight : RecordOpening(o) \/ RecordSettlement(o))
         \/ (\E cmd \in Commands : ResolveGaiaCase(cmd))
    BY <1>1 DEF Next, vars, ClockTick, VaultNext, WalletOpens, VaultPays, VaultCloses,
           GovernanceNext, RegisterAgent, ActivatePath, SetAgentStatus, InstallPlugin,
           SubmitProposal, RunNextJob, Abandon, work
  <2> QED
    BY <2>4, <2>6, <2>7, <2>8, <2>9, <2>10
<1> QED
  BY <1>1, SoundAlways, PTL DEF Spec, OpeningAuthorized

\* As long as nobody verifies, disputes or rectifies a settled Pact, it stays
\* settled, whatever settlements are recorded again.
THEOREM SettledIsFinalAlways ==
    ASSUME "afterlife" \notin Hazards
    PROVE  Spec => SettledIsFinal
<1>1. ASSUME Sound, Untouched, [Next]_vars
      PROVE  \A p \in PactIds : Settled(p) => Settled(p)'
  BY <1>1, NextLasts DEF Lasting, Settled
<1> QED
  BY <1>1, SoundAlways, PTL DEF Spec, SettledIsFinal

-----------------------------------------------------------------------------
(* Sums, counted unit by unit.                                             *)

\* The units of one term are as many as the term says.
LEMMA UnitsOfTerm ==
    ASSUME NEW x, NEW n \in Nat
    PROVE  IsFiniteSet({x} \X (1..n)) /\ Cardinality({x} \X (1..n)) = n
<1>1. IsFiniteSet({x}) /\ Cardinality({x}) = 1
  BY FS_Singleton
<1>2. IsFiniteSet(1..n) /\ Cardinality(1..n) = n
  <2>1. 1 \in Int /\ n \in Int
    OBVIOUS
  <2> QED
    BY <2>1, FS_Interval
<1>3. /\ IsFiniteSet({x} \X (1..n))
      /\ Cardinality({x} \X (1..n)) = Cardinality({x}) * Cardinality(1..n)
  BY <1>1, <1>2, FS_Product
<1> QED
  BY <1>1, <1>2, <1>3

\* Fewer terms, fewer units: a sum over a part is at most the sum over the whole.
LEMMA TotalWithin ==
    ASSUME NEW f, NEW g, DOMAIN f \subseteq DOMAIN g, \A x \in DOMAIN f : f[x] = g[x],
           IsFiniteSet(Units(g))
    PROVE  /\ IsFiniteSet(Units(f))
           /\ Total(f) \in Nat /\ Total(g) \in Nat /\ Total(f) <= Total(g)
<1>1. Units(f) \subseteq Units(g)
  BY DEF Units
<1>2. IsFiniteSet(Units(f)) /\ Cardinality(Units(f)) <= Cardinality(Units(g))
  BY <1>1, FS_Subset
<1>3. Cardinality(Units(f)) \in Nat /\ Cardinality(Units(g)) \in Nat
  BY <1>2, FS_CardinalityType
<1> QED
  BY <1>2, <1>3 DEF Total

\* A sum without terms is 0.
LEMMA TotalOfNone ==
    ASSUME NEW f, DOMAIN f = {}
    PROVE  IsFiniteSet(Units(f)) /\ Total(f) = 0
<1>1. Units(f) = {}
  BY DEF Units
<1> QED
  BY <1>1, FS_EmptySet DEF Total

\* One term more adds what it says.
LEMMA TotalWith ==
    ASSUME NEW f, NEW g, NEW x, x \notin DOMAIN f, DOMAIN g = DOMAIN f \cup {x},
           \A y \in DOMAIN f : g[y] = f[y], g[x] \in Nat, IsFiniteSet(Units(f))
    PROVE  IsFiniteSet(Units(g)) /\ Total(g) = Total(f) + g[x] /\ Total(f) \in Nat
<1>1. PICK n \in Nat : n = g[x]
  OBVIOUS
<1>2. PICK new : new = {x} \X (1..n)
  OBVIOUS
<1>3. IsFiniteSet(new) /\ Cardinality(new) = n
  BY <1>2, UnitsOfTerm
<1>4. Units(g) = Units(f) \cup new
  BY <1>1, <1>2 DEF Units
<1>5. Units(f) \cap new = {}
  BY <1>2 DEF Units
<1>6. /\ IsFiniteSet(Units(f) \cup new)
      /\ Cardinality(Units(f) \cup new)
            = Cardinality(Units(f)) + Cardinality(new) - Cardinality(Units(f) \cap new)
  BY <1>3, FS_Union
<1>7. Cardinality({}) = 0
  BY FS_EmptySet
<1>8. Cardinality(Units(f)) \in Nat
  BY FS_CardinalityType
<1>9. Cardinality(Units(f) \cap new) = 0
  BY <1>5, <1>7
<1>10. PICK a \in Nat : a = Cardinality(Units(f))
  BY <1>8
<1>11. Cardinality(Units(g)) = a + n - 0
  BY <1>3, <1>4, <1>6, <1>9, <1>10
<1>12. Cardinality(Units(g)) = a + n
  BY <1>11
<1> QED
  BY <1>1, <1>4, <1>6, <1>10, <1>12 DEF Total

-----------------------------------------------------------------------------
(* What brings a Pact to exist, to be opened, to have receipts, to settle.  *)

\* The Pact comes neither to exist nor to be opened, gets no receipt and does not
\* settle.
Calm(old, new) ==
    /\ old.status = "none" => new.status = "none"
    /\ new.status = "settled" => old.status = "settled"
    /\ old.openedAt = Never => new.openedAt = Never
    /\ old.openedAt # Never => new.receipts = old.receipts

CalmBut(p) == \A q \in PactIds \ {p} : Calm(pacts[q], pacts'[q])

\* A step that changes one Pact is calm for the others.
LEMMA OthersCalm ==
    ASSUME Sound, NEW p \in PactIds, NEW r, pacts' = [pacts EXCEPT ![p] = r]
    PROVE  CalmBut(p) /\ pacts'[p] = r
<1>1. pacts \in [PactIds -> PactState]
  BY DEF Sound
<1>2. pacts'[p] = r /\ \A q \in PactIds \ {p} : pacts'[q] = pacts[q]
  BY <1>1
<1> QED
  BY <1>2 DEF CalmBut, Calm

\* A change of status alone, of a Pact that exists and does not settle by it.
LEMMA StatusCalm ==
    ASSUME Sound, NEW p \in PactIds, NEW status, pacts[p].status # "none",
           status = "settled" => pacts[p].status = "settled",
           pacts' = [pacts EXCEPT ![p] = [pacts[p] EXCEPT !.status = status]]
    PROVE  \A q \in PactIds : Calm(pacts[q], pacts'[q])
<1>1. PICK old \in PactState : old = pacts[p]
  BY DEF Sound
<1>2. PICK r : r = [old EXCEPT !.status = status]
  OBVIOUS
<1>3. pacts' = [pacts EXCEPT ![p] = r]
  BY <1>1, <1>2
<1>4. r.status = status /\ r.openedAt = old.openedAt /\ r.receipts = old.receipts
  BY <1>2 DEF PactState
<1>5. CalmBut(p) /\ pacts'[p] = r
  BY <1>3, OthersCalm
<1>6. Calm(old, r)
  BY <1>1, <1>4 DEF Calm
<1> QED
  BY <1>1, <1>5, <1>6 DEF CalmBut

\* Signatures, bindings, checkpoints and disputes are calm.
LEMMA PactStepCalm ==
    ASSUME Sound, Untouched, NEW p \in PactIds, PactNext(p)
    PROVE  \/ \A q \in PactIds : Calm(pacts[q], pacts'[q])
           \/ \E prop \in Proposals, cs \in BOOLEAN : CreatePact(p, prop, cs)
<1>1. PICK old \in PactState : old = pacts[p] /\ PactGood(old)
  BY DEF Sound
<1>2. ASSUME NEW signer, SignPact(p, signer)
      PROVE  \A q \in PactIds : Calm(pacts[q], pacts'[q])
  <2>1. old.status = "awaiting_signatures" /\ old.openedAt = Never
    BY <1>1, <1>2 DEF SignPact, PactGood
  <2>2. PICK signed, status : /\ status \in {"accepted", old.status}
                              /\ pacts' = [pacts EXCEPT ![p] =
                                    [old EXCEPT !.signed = signed, !.status = status]]
    BY <1>1, <1>2 DEF SignPact, Become
  <2>3. PICK r : r = [old EXCEPT !.signed = signed, !.status = status]
    OBVIOUS
  <2>4. r.status = status /\ r.openedAt = old.openedAt
    BY <2>3 DEF PactState
  <2>5. CalmBut(p) /\ pacts'[p] = r
    BY <2>2, <2>3, OthersCalm
  <2>6. Calm(old, r)
    BY <2>1, <2>2, <2>4 DEF Calm
  <2> QED
    BY <1>1, <2>5, <2>6 DEF CalmBut
<1>3. ASSUME NEW c \in Paycards, PreparePayment(p, c)
      PROVE  \A q \in PactIds : Calm(pacts[q], pacts'[q])
  <2>1. old.status \in {"accepted", "payment_prepared"} /\ old.openedAt = Never
    BY <1>1, <1>3 DEF PreparePayment, Preparable, PactGood
  <2>2. PICK r : r = [old EXCEPT !.status = "payment_prepared", !.paycard = c, !.receipts = {}]
    OBVIOUS
  <2>3. r.status = "payment_prepared" /\ r.openedAt = old.openedAt
    BY <2>2 DEF PactState
  <2>4. pacts' = [pacts EXCEPT ![p] = r]
    BY <1>1, <1>3, <2>2 DEF PreparePayment, Become
  <2>5. CalmBut(p) /\ pacts'[p] = r
    BY <2>4, OthersCalm
  <2>6. Calm(old, r)
    BY <2>1, <2>3 DEF Calm
  <2> QED
    BY <1>1, <2>5, <2>6 DEF CalmBut
<1>4. CASE UNCHANGED pacts
  BY <1>4 DEF Calm
<1>5. CASE VerifyOpening(p) \/ \E i : VerifySettlement(p, i)
  BY <1>4, <1>5 DEF VerifyOpening, VerifySettlement, Observe, work
<1>6. ASSUME NEW type, SubmitCheckpoint(p, type)
      PROVE  \A q \in PactIds : Calm(pacts[q], pacts'[q])
  <2>1. PICK status : status = IF old.status = "active" THEN "performing" ELSE old.status
    OBVIOUS
  <2>2. /\ pacts' = [pacts EXCEPT ![p] = [pacts[p] EXCEPT !.status = status]]
        /\ old.status # "none" /\ status # "settled"
    BY <1>1, <1>6, <2>1 DEF SubmitCheckpoint, Become
  <2> QED
    BY <1>1, <2>2, StatusCalm
<1>7. ASSUME NEW i \in 1..Len(checkpoints[p]), NEW verdict, VerifyCheckpoint(p, i, verdict)
      PROVE  \A q \in PactIds : Calm(pacts[q], pacts'[q])
  <2>1. PICK status : status = StatusAfter(old.status, checkpoints[p][i], verdict)
    OBVIOUS
  <2>2. pacts' = [pacts EXCEPT ![p] = [pacts[p] EXCEPT !.status = status]]
    BY <1>1, <1>7, <2>1 DEF VerifyCheckpoint, Become
  <2>3. old.status # "none"
    BY <1>1, <1>7 DEF Untouched
  <2>4. status = "settled" => old.status = "settled"
    BY <2>1 DEF StatusAfter
  <2> QED
    BY <1>1, <2>2, <2>3, <2>4, StatusCalm
<1>8. ASSUME NEW k \in Cases, OpenGaiaCase(k, p)
      PROVE  \A q \in PactIds : Calm(pacts[q], pacts'[q])
  <2>1. PICK status : status = "disputed"
    OBVIOUS
  <2>2. /\ pacts' = [pacts EXCEPT ![p] = [pacts[p] EXCEPT !.status = status]]
        /\ pacts[p].status # "none"
    BY <1>8, <2>1 DEF OpenGaiaCase, Become, Exists
  <2> QED
    BY <2>1, <2>2, StatusCalm
<1> QED
  BY <1>2, <1>3, <1>5, <1>6, <1>7, <1>8 DEF PactNext

\* So is the resolution of a case: the Pact it names exists.
LEMMA ResolveCalm ==
    ASSUME Sound, NEW cmd \in Commands, ResolveGaiaCase(cmd)
    PROVE  \A q \in PactIds : Calm(pacts[q], pacts'[q])
<1>1. PICK k \in Cases : k = cmd.target
  <2>1. cmd.op = "resolve_gaia"
    BY DEF ResolveGaiaCase, Authorize
  <2>2. cmd.target \in Cases
    BY <2>1
  <2> QED
    BY <2>2
<1>2. PICK p \in PactIds : p = cases[k].pact /\ pacts[p].status # "none"
  BY <1>1 DEF Sound, CaseGood, ResolveGaiaCase
<1>3. PICK status : status = IF cmd.arg \in Remedies THEN "rectification_required"
                             ELSE pacts[p].status
  OBVIOUS
<1>4. pacts' = [pacts EXCEPT ![p] = [pacts[p] EXCEPT !.status = status]]
  BY <1>1, <1>2, <1>3 DEF ResolveGaiaCase
<1>5. status = "settled" => pacts[p].status = "settled"
  BY <1>3
<1> QED
  BY <1>2, <1>4, <1>5, StatusCalm

\* Only a creation and the recording of what the chain shows are not.
LEMMA NextCalm ==
    ASSUME Sound, Untouched, [Next]_vars
    PROVE  \/ \A q \in PactIds : Calm(pacts[q], pacts'[q])
           \/ \E p \in PactIds, prop \in Proposals, cs \in BOOLEAN : CreatePact(p, prop, cs)
           \/ \E o \in inFlight : RecordOpening(o) \/ RecordSettlement(o)
<1>1. CASE UNCHANGED pacts
  BY <1>1 DEF Calm
<1>2. ASSUME NEW p \in PactIds, PactNext(p)
      PROVE  \/ \A q \in PactIds : Calm(pacts[q], pacts'[q])
             \/ \E prop \in Proposals, cs \in BOOLEAN : CreatePact(p, prop, cs)
  BY <1>2, PactStepCalm
<1>3. UNCHANGED pacts \/ (\E q \in PactIds : PactNext(q))
      \/ (\E o \in inFlight : RecordOpening(o) \/ RecordSettlement(o))
      \/ (\E cmd \in Commands : ResolveGaiaCase(cmd))
  BY DEF Next, vars, ClockTick, VaultNext, WalletOpens, VaultPays, VaultCloses,
         GovernanceNext, RegisterAgent, ActivatePath, SetAgentStatus, InstallPlugin,
         SubmitProposal, RunNextJob, Abandon, work
<1> QED
  BY <1>1, <1>2, <1>3, ResolveCalm

-----------------------------------------------------------------------------
(* The ceiling of the Path.                                                *)

\* Pacts that are formed and not settled, signed or not.
Standing == {p \in PactIds : pacts[p].status \notin {"none", "settled"}}

\* A later revision of the Path is never tighter.
NeverTighter ==
    \A p, q \in Paths : p.revision <= q.revision =>
        p.maxExposure <= q.maxExposure /\ p.maxConcurrent <= q.maxConcurrent

\* What stands, signed or not, is within the ceiling.
WithinCeiling ==
    /\ IsFiniteSet(Standing) /\ IsFiniteSet(Units(Amounts(Standing)))
    /\ Standing # {} => path # None
    /\ path # None => /\ Total(Amounts(Standing)) <= path.maxExposure
                      /\ Cardinality(Standing) <= path.maxConcurrent

\* The Path only widens.
PathWidens ==
    /\ path' \in Paths \cup {None}
    /\ path # None => /\ path' # None
                      /\ path.maxExposure <= path'.maxExposure
                      /\ path.maxConcurrent <= path'.maxConcurrent

\* A step under which no Pact comes to stand, and the Path does not narrow.
LEMMA CeilingHolds ==
    ASSUME Sound, Lasting, WithinCeiling, Standing' \subseteq Standing, PathWidens
    PROVE  WithinCeiling'
<1> DEFINE f == Amounts(Standing)
           g == Amounts(Standing)'
<1>1. DOMAIN f = Standing /\ DOMAIN g = Standing'
  BY DEF Amounts
<1>2. \A p \in Standing' : g[p] = f[p]
  BY DEF Amounts, Amount, Standing, Lasting
<1>3. IsFiniteSet(Units(f))
  BY DEF WithinCeiling
<1> HIDE DEF f, g
<1>4. IsFiniteSet(Units(g)) /\ Total(g) \in Nat /\ Total(f) \in Nat /\ Total(g) <= Total(f)
  BY <1>1, <1>2, <1>3, TotalWithin
<1>5. IsFiniteSet(Standing') /\ Cardinality(Standing') <= Cardinality(Standing)
  BY FS_Subset DEF WithinCeiling
<1>6. Cardinality(Standing') \in Nat /\ Cardinality(Standing) \in Nat
  BY <1>5, FS_CardinalityType DEF WithinCeiling
<1>7. ASSUME path' # None
      PROVE  Total(g) <= path'.maxExposure /\ Cardinality(Standing') <= path'.maxConcurrent
  <2>1. path'.maxExposure \in Nat /\ path'.maxConcurrent \in Nat
    BY <1>7 DEF PathWidens
  <2>2. CASE path = None
    <3>1. Standing' = {}
      BY <2>2 DEF WithinCeiling
    <3>2. Total(g) = 0
      BY <1>1, <3>1, TotalOfNone
    <3>3. Cardinality(Standing') = 0
      BY <3>1, FS_EmptySet
    <3> QED
      BY <2>1, <3>2, <3>3
  <2>3. CASE path # None
    <3>1. path.maxExposure \in Nat /\ path.maxConcurrent \in Nat
      BY <2>3 DEF Sound, Governed
    <3>2. Total(f) <= path.maxExposure /\ Cardinality(Standing) <= path.maxConcurrent
      BY <2>3 DEF WithinCeiling, f
    <3>3. path.maxExposure <= path'.maxExposure /\ path.maxConcurrent <= path'.maxConcurrent
      BY <2>3 DEF PathWidens
    <3> QED
      BY <1>4, <1>5, <1>6, <2>1, <3>1, <3>2, <3>3
  <2> QED
    BY <2>2, <2>3
<1>8. Standing' # {} => path' # None
  BY DEF WithinCeiling, PathWidens
<1>9. IsFiniteSet(Units(Amounts(Standing)))' /\ Total(Amounts(Standing))' = Total(g)
  BY <1>4 DEF g
<1> QED
  BY <1>5, <1>7, <1>8, <1>9 DEF WithinCeiling

\* createPactFromProposal looks at every Pact that stands, and adds one.
LEMMA CreateWithinCeiling ==
    ASSUME Sound, Lasting, WithinCeiling, "hasty" \notin Hazards,
           NEW p \in PactIds, NEW prop \in Proposals, NEW cs \in BOOLEAN,
           CreatePact(p, prop, cs)
    PROVE  WithinCeiling'
<1>1. PICK pa \in Paths : pa = path /\ path # None
  BY DEF CreatePact, Permitted, Allowed, Sound, Governed
<1>2. /\ Exposure + prop.amount <= pa.maxExposure
      /\ Cardinality(ActivePacts) < pa.maxConcurrent
      /\ path' = pa
  BY <1>1 DEF CreatePact, Permitted, Allowed, WithinLimits, Become, governance
<1>3. ActivePacts = Standing
  <2>1. \A q \in PactIds : pacts[q].status # "awaiting_signatures"
    BY DEF CreatePact
  <2>2. \A q \in PactIds : pacts[q].status \in PactStatus
    BY DEF Sound, PactState
  <2> QED
    BY <2>1, <2>2 DEF ActivePacts, Standing
<1>4. PICK r : r = [NoPact EXCEPT !.status = "awaiting_signatures", !.proposal = prop,
                                 !.path = path, !.countersigned = cs]
  OBVIOUS
<1>5. r.status = "awaiting_signatures" /\ r.proposal = prop
  BY <1>4 DEF NoPact
<1>6. pacts' = [pacts EXCEPT ![p] = r] /\ pacts[p].status = "none"
  BY <1>4 DEF CreatePact, Become, Exists
<1>7. pacts'[p] = r /\ \A q \in PactIds \ {p} : pacts'[q] = pacts[q]
  BY <1>6 DEF Sound
<1>8. Standing' = Standing \cup {p} /\ p \notin Standing
  BY <1>5, <1>6, <1>7 DEF Standing
<1> DEFINE f == Amounts(Standing)
           g == Amounts(Standing)'
<1>9. DOMAIN f = Standing /\ DOMAIN g = Standing'
  BY DEF Amounts
<1>10. ASSUME NEW q \in Standing PROVE g[q] = f[q]
  <2>1. q \in PactIds \ {p} /\ q \in Standing'
    BY <1>8 DEF Standing
  <2>2. pacts'[q] = pacts[q]
    BY <1>7, <2>1
  <2> QED
    BY <2>1, <2>2 DEF Amounts, Amount
<1>11. g[p] = prop.amount /\ prop.amount \in Nat
  BY <1>5, <1>7, <1>8 DEF Amounts, Amount
<1>12. IsFiniteSet(Units(f)) /\ Exposure = Total(f)
  BY <1>3 DEF WithinCeiling, Exposure
<1> HIDE DEF f, g
<1>13. IsFiniteSet(Units(g)) /\ Total(g) = Total(f) + prop.amount
  BY <1>8, <1>9, <1>10, <1>11, <1>12, TotalWith
<1>14. IsFiniteSet(Standing') /\ Cardinality(Standing') = Cardinality(Standing) + 1
  BY <1>8, FS_AddElement DEF WithinCeiling
<1>15. Cardinality(Standing) \in Nat /\ pa.maxConcurrent \in Nat
  BY FS_CardinalityType DEF WithinCeiling
<1>16. Total(g) <= pa.maxExposure
  BY <1>2, <1>12, <1>13
<1>17. Cardinality(Standing') <= pa.maxConcurrent
  BY <1>2, <1>3, <1>14, <1>15
<1>18. IsFiniteSet(Units(Amounts(Standing)))' /\ Total(Amounts(Standing))' = Total(g)
  BY <1>13 DEF g
<1> QED
  BY <1>1, <1>2, <1>14, <1>16, <1>17, <1>18 DEF WithinCeiling

\* Only ActivatePath changes the Path, to the next revision.
LEMMA NextWidens ==
    ASSUME Sound, NeverTighter, [Next]_vars
    PROVE  PathWidens
<1>1. path \in Paths \cup {None}
  BY DEF Sound, Governed
<1>2. CASE path' = path
  <2>1. ASSUME path # None
        PROVE  path.maxExposure \in Nat /\ path.maxConcurrent \in Nat
    BY <1>1, <2>1
  <2> QED
    BY <1>1, <1>2, <2>1 DEF PathWidens
<1>3. ASSUME NEW pa \in Paths, ActivatePath(pa)
      PROVE  PathWidens
  <2>1. path' = pa /\ pa # None
    BY <1>3 DEF ActivatePath
  <2>2. CASE path = None
    BY <2>1, <2>2 DEF PathWidens
  <2>3. CASE path # None
    <3>1. pa.revision = path.revision + 1 /\ path \in Paths
      BY <1>1, <1>3, <2>3 DEF ActivatePath
    <3>2. path.revision \in Nat
      BY <3>1
    <3>3. path.revision <= pa.revision
      BY <3>1, <3>2
    <3> QED
      BY <2>1, <3>1, <3>3 DEF PathWidens, NeverTighter
  <2> QED
    BY <2>2, <2>3
<1>4. path' = path \/ \E pa \in Paths : ActivatePath(pa)
  BY DEF Next, vars, ClockTick, VaultNext, WalletOpens, VaultPays, VaultCloses,
         GovernanceNext, RegisterAgent, SetAgentStatus, InstallPlugin, ResolveGaiaCase,
         SubmitProposal, RunNextJob, PactNext, CreatePact, SignPact, PreparePayment,
         VerifyOpening, VerifySettlement, Observe, SubmitCheckpoint, VerifyCheckpoint,
         OpenGaiaCase, RecordOpening, RecordSettlement, Abandon, Become, governance
<1> QED
  BY <1>2, <1>3, <1>4

\* No step but a creation makes a Pact stand that did not, as long as nobody
\* disturbs a settled one.
LEMMA NextStands ==
    ASSUME Sound, Untouched, [Next]_vars, "afterlife" \notin Hazards
    PROVE  \/ Standing' \subseteq Standing
           \/ \E p \in PactIds, prop \in Proposals, cs \in BOOLEAN : CreatePact(p, prop, cs)
<1>1. Lasting
  BY NextLasts
<1>2. ASSUME \A p \in PactIds : pacts[p].status = "none" => pacts'[p].status = "none"
      PROVE  Standing' \subseteq Standing
  BY <1>1, <1>2 DEF Standing, Lasting
<1>3. CASE \A p \in PactIds : Calm(pacts[p], pacts'[p])
  BY <1>2, <1>3 DEF Calm
<1>4. ASSUME NEW o \in inFlight, RecordOpening(o) \/ RecordSettlement(o)
      PROVE  Standing' \subseteq Standing
  <2>1. PICK p \in PactIds : p = o.pact /\ pacts[p].status # "none"
    BY DEF Sound, StillTrue, Observation
  <2>2. PICK r : pacts' = [pacts EXCEPT ![p] = r]
    BY <1>4, <2>1 DEF RecordOpening, RecordSettlement, Become
  <2>3. CalmBut(p)
    BY <2>2, OthersCalm
  <2> QED
    BY <1>2, <2>1, <2>3 DEF CalmBut, Calm
<1> QED
  BY <1>3, <1>4, NextCalm

\* What stands stays within the ceiling, counting Pacts that await signatures.
THEOREM WithinCeilingAlways ==
    ASSUME "hasty" \notin Hazards, "afterlife" \notin Hazards, NeverTighter
    PROVE  Spec => []WithinCeiling
<1>1. Init => WithinCeiling
  <2>1. SUFFICES ASSUME Init PROVE WithinCeiling
    OBVIOUS
  <2>2. Standing = {}
    BY <2>1 DEF Init, Standing, NoPact
  <2>3. DOMAIN Amounts(Standing) = {}
    BY <2>2 DEF Amounts
  <2> QED
    BY <2>1, <2>2, <2>3, TotalOfNone, FS_EmptySet DEF Init, WithinCeiling
<1>2. Sound /\ Untouched /\ WithinCeiling /\ [Next]_vars => WithinCeiling'
  <2>1. SUFFICES ASSUME Sound, Untouched, WithinCeiling, [Next]_vars PROVE WithinCeiling'
    OBVIOUS
  <2>2. Lasting /\ PathWidens
    BY <2>1, NextLasts, NextWidens
  <2> QED
    BY <2>1, <2>2, NextStands, CeilingHolds, CreateWithinCeiling
<1> QED
  BY <1>1, <1>2, SoundAlways, PTL DEF Spec

\* What accepted and unsettled Pacts commit stays within the Path's ceiling, as
\* long as no Pact is created while another awaits its signatures, nobody disturbs
\* a settled Pact, and no revision is tighter than the one before it.
THEOREM ExposureRespectedAlways ==
    ASSUME "hasty" \notin Hazards, "afterlife" \notin Hazards, NeverTighter
    PROVE  Spec => []ExposureRespected
<1>1. Sound /\ WithinCeiling => ExposureRespected
  <2>1. SUFFICES ASSUME Sound, WithinCeiling, path # None
                 PROVE  /\ Total(Amounts(AtStake)) <= path.maxExposure
                        /\ Cardinality(AtStake) <= path.maxConcurrent
    BY DEF ExposureRespected
  <2>2. AtStake \subseteq Standing
    BY DEF AtStake, Standing
  <2> DEFINE f == Amounts(AtStake)
             g == Amounts(Standing)
  <2>3. DOMAIN f = AtStake /\ DOMAIN g = Standing /\ \A p \in AtStake : f[p] = g[p]
    BY <2>2 DEF Amounts
  <2>4. IsFiniteSet(Units(g)) /\ Total(g) <= path.maxExposure
    BY <2>1 DEF WithinCeiling
  <2> HIDE DEF f, g
  <2>5. Total(f) \in Nat /\ Total(g) \in Nat /\ Total(f) <= Total(g)
    BY <2>2, <2>3, <2>4, TotalWithin
  <2>6. path.maxExposure \in Nat /\ path.maxConcurrent \in Nat
    BY <2>1 DEF Sound, Governed
  <2>7. /\ Cardinality(AtStake) <= Cardinality(Standing)
        /\ Cardinality(AtStake) \in Nat /\ Cardinality(Standing) \in Nat
    BY <2>1, <2>2, FS_Subset, FS_CardinalityType DEF WithinCeiling
  <2>8. Cardinality(Standing) <= path.maxConcurrent
    BY <2>1 DEF WithinCeiling
  <2>9. Total(f) <= path.maxExposure /\ Cardinality(AtStake) <= path.maxConcurrent
    BY <2>4, <2>5, <2>6, <2>7, <2>8
  <2> QED
    BY <2>9 DEF f
<1> QED
  BY <1>1, SoundAlways, WithinCeilingAlways, PTL

-----------------------------------------------------------------------------
(* What receipts are worth.                                                *)

\* The payouts, by index, that the receipts show.
Shown(payouts, receipts) == [i \in receipts |-> payouts[i]]
Payouts(c) == chain[c].payouts

\* The receipts of an open Pact can be summed, and cover the allocation of a settled
\* one.
Covered(p) ==
    pacts[p].openedAt # Never =>
        /\ IsFiniteSet(Units(Shown(Payouts(pacts[p].paycard), pacts[p].receipts)))
        /\ Settled(p) => Total(Shown(Payouts(pacts[p].paycard), pacts[p].receipts)) >= Amount(p)

\* With the receipt on its way they will, when it was found final.
Covering(o) ==
    o.kind = "settlement" =>
        /\ pacts[o.pact].openedAt # Never /\ pacts[o.pact].paycard = o.paycard
        /\ o.final =>
              Total(Shown(Payouts(o.paycard), pacts[o.pact].receipts \cup {o.tx})) >= Amount(o.pact)

PaidUp == (\A p \in PactIds : Covered(p)) /\ (\A o \in inFlight : Covering(o))

PayoutsStay ==
    \A c \in Paycards : \A i \in 1..Len(chain[c].payouts) :
        chain'[c].payouts[i] = chain[c].payouts[i]

\* The vault only appends payouts.
LEMMA NextPayoutsStay ==
    ASSUME Sound, [Next]_vars
    PROVE  PayoutsStay
<1>1. chain \in [Paycards -> CardState]
  BY DEF Sound
<1>2. CASE chain' = chain
  BY <1>2 DEF PayoutsStay
<1>3. ASSUME NEW c \in Paycards, NEW card, chain' = [chain EXCEPT ![c] = card],
             \A i \in 1..Len(chain[c].payouts) : card.payouts[i] = chain[c].payouts[i]
      PROVE  PayoutsStay
  <2>1. chain'[c] = card /\ \A d \in Paycards \ {c} : chain'[d] = chain[d]
    BY <1>1, <1>3
  <2> QED
    BY <1>3, <2>1 DEF PayoutsStay
<1>4. ASSUME NEW c \in Paycards, NEW prop, WalletOpens(c, prop)
      PROVE  PayoutsStay
  <2>1. PICK card : chain' = [chain EXCEPT ![c] = card]
    BY <1>4 DEF WalletOpens
  <2>2. 1..Len(chain[c].payouts) = {}
    BY <1>4 DEF WalletOpens, NoCard
  <2> QED
    BY <1>3, <2>1, <2>2
<1>5. ASSUME NEW c \in Paycards, NEW amount \in Nat, VaultPays(c, amount)
      PROVE  PayoutsStay
  <2>1. PICK old \in CardState : old = chain[c]
    BY <1>1
  <2>2. PICK left, payouts, status :
           /\ left = old.left - amount /\ payouts = Append(old.payouts, amount)
           /\ status = IF amount = old.left THEN "Terminated" ELSE "Active"
    OBVIOUS
  <2>3. PICK card : card = [old EXCEPT !.left = left, !.payouts = payouts, !.status = status]
    OBVIOUS
  <2>4. chain' = [chain EXCEPT ![c] = card]
    BY <1>5, <2>1, <2>2, <2>3 DEF VaultPays
  <2>5. card.payouts = payouts /\ old.payouts \in Seq(Nat)
    BY <2>3 DEF CardState
  <2>6. \A i \in 1..Len(old.payouts) : payouts[i] = old.payouts[i]
    BY <2>2, <2>5
  <2> QED
    BY <1>3, <2>1, <2>4, <2>5, <2>6
<1>6. ASSUME NEW c \in Paycards, VaultCloses(c)
      PROVE  PayoutsStay
  <2>1. PICK old \in CardState : old = chain[c]
    BY <1>1
  <2>2. PICK zero : zero = 0
    OBVIOUS
  <2>3. PICK card : card = [old EXCEPT !.left = zero, !.status = "Terminated"]
    OBVIOUS
  <2>4. chain' = [chain EXCEPT ![c] = card]
    BY <1>6, <2>1, <2>2, <2>3 DEF VaultCloses
  <2>5. card.payouts = old.payouts
    BY <2>3 DEF CardState
  <2> QED
    BY <1>3, <2>1, <2>4, <2>5
<1>7. CASE VaultNext
  <2>1. \A prop \in Proposals : \A amount \in 1..prop.amount : amount \in Nat
    OBVIOUS
  <2> QED
    BY <1>4, <1>5, <1>6, <1>7, <2>1 DEF VaultNext
<1>8. chain' = chain \/ VaultNext
  BY DEF Next, vars, ClockTick, GovernanceNext, RegisterAgent, ActivatePath, SetAgentStatus,
         InstallPlugin, ResolveGaiaCase, SubmitProposal, RunNextJob, PactNext, CreatePact,
         SignPact, PreparePayment, VerifyOpening, VerifySettlement, Observe,
         SubmitCheckpoint, VerifyCheckpoint, OpenGaiaCase, RecordOpening,
         RecordSettlement, Abandon, Become
<1> QED
  BY <1>2, <1>7, <1>8

\* What receipts show, they show for good.
LEMMA ShownStays ==
    ASSUME PayoutsStay, NEW c \in Paycards, NEW R, R \subseteq 1..Len(chain[c].payouts)
    PROVE  Shown(Payouts(c)', R) = Shown(Payouts(c), R)
BY DEF PayoutsStay, Shown, Payouts

\* One receipt more shows its payout more, unless it was there.
LEMMA ShownWith ==
    ASSUME NEW s \in Seq(Nat), NEW R, NEW i \in 1..Len(s), IsFiniteSet(Units(Shown(s, R)))
    PROVE  /\ IsFiniteSet(Units(Shown(s, R \cup {i})))
           /\ i \notin R => Total(Shown(s, R \cup {i})) = Total(Shown(s, R)) + s[i]
<1>1. CASE i \in R
  <2>1. R \cup {i} = R
    BY <1>1
  <2> QED
    BY <1>1, <2>1
<1>2. CASE i \notin R
  <2> DEFINE f == Shown(s, R)
             g == Shown(s, R \cup {i})
  <2>1. DOMAIN f = R /\ DOMAIN g = R \cup {i}
    BY DEF Shown
  <2>2. (\A j \in R : g[j] = f[j]) /\ g[i] = s[i] /\ s[i] \in Nat
    BY DEF Shown
  <2>3. IsFiniteSet(Units(f))
    OBVIOUS
  <2> HIDE DEF f, g
  <2>4. i \notin DOMAIN f /\ DOMAIN g = DOMAIN f \cup {i}
    BY <1>2, <2>1
  <2>5. (\A j \in DOMAIN f : g[j] = f[j]) /\ g[i] \in Nat
    BY <2>1, <2>2
  <2>6. \A x : /\ x \notin DOMAIN f /\ DOMAIN g = DOMAIN f \cup {x}
               /\ \A j \in DOMAIN f : g[j] = f[j]
               /\ g[x] \in Nat /\ IsFiniteSet(Units(f))
               => IsFiniteSet(Units(g)) /\ Total(g) = Total(f) + g[x]
    BY TotalWith
  <2>7. IsFiniteSet(Units(g)) /\ Total(g) = Total(f) + g[i]
    BY <2>3, <2>4, <2>5, <2>6
  <2> QED
    BY <2>2, <2>7 DEF f, g
<1> QED
  BY <1>1, <1>2

\* More receipts show at least as much.
LEMMA ShownMore ==
    ASSUME NEW s, NEW R, NEW S, R \subseteq S, IsFiniteSet(Units(Shown(s, S)))
    PROVE  /\ Total(Shown(s, R)) \in Nat /\ Total(Shown(s, S)) \in Nat
           /\ Total(Shown(s, R)) <= Total(Shown(s, S))
<1> DEFINE f == Shown(s, R)
           g == Shown(s, S)
<1>1. DOMAIN f = R /\ DOMAIN g = S /\ \A j \in R : g[j] = f[j]
  BY DEF Shown
<1>2. IsFiniteSet(Units(g))
  OBVIOUS
<1> HIDE DEF f, g
<1>3. Total(f) \in Nat /\ Total(g) \in Nat /\ Total(f) <= Total(g)
  BY <1>1, <1>2, TotalWithin
<1> QED
  BY <1>3 DEF f, g

\* A calm step leaves a Pact as well covered as it was.
LEMMA CalmCovered ==
    ASSUME Sound, Lasting, PayoutsStay, NEW p \in PactIds, Covered(p),
           Calm(pacts[p], pacts'[p])
    PROVE  Covered(p)'
<1>1. SUFFICES ASSUME pacts'[p].openedAt # Never PROVE Covered(p)'
  BY DEF Covered
<1>2. pacts[p].openedAt # Never
  BY <1>1 DEF Calm
<1>3. PICK c \in Paycards : c = pacts[p].paycard
  BY <1>2 DEF Sound, PactGood
<1>4. PICK R : R = pacts[p].receipts /\ R \subseteq 1..Len(chain[c].payouts)
  BY <1>2, <1>3 DEF Sound, PactGood
<1>5. /\ pacts[p].status # "none" /\ pacts'[p].proposal = pacts[p].proposal
      /\ pacts'[p].paycard = c /\ pacts'[p].receipts = R
  BY <1>2, <1>3, <1>4 DEF Sound, PactGood, Lasting, Calm
<1>6. Shown(Payouts(c)', R) = Shown(Payouts(c), R)
  BY <1>4, ShownStays
<1>7. Payouts(pacts[p].paycard)' = Payouts(c)'
  BY <1>5 DEF Payouts
<1>8. Amount(p)' = Amount(p) /\ (Settled(p)' => Settled(p))
  BY <1>5 DEF Amount, Settled, Calm
<1> QED
  BY <1>2, <1>3, <1>4, <1>5, <1>6, <1>7, <1>8 DEF Covered

\* What was found final when it was asked for is so when it is recorded: payouts
\* and receipts are only added.
LEMMA StillCovering ==
    ASSUME Sound, Sound', Lasting, PayoutsStay, NEW o \in inFlight, Covering(o),
           o \in inFlight', \A p \in PactIds : Covered(p)'
    PROVE  Covering(o)'
<1>1. SUFFICES ASSUME o.kind = "settlement" PROVE Covering(o)'
  BY DEF Covering
<1>2. PICK p \in PactIds : p = o.pact
  BY DEF Sound, StillTrue, Observation
<1>3. PICK c \in Paycards : c = o.paycard /\ o.tx \in 1..Len(chain[c].payouts)
  BY <1>1 DEF Sound, StillTrue, Observation
<1>4. pacts[p].openedAt # Never /\ pacts[p].paycard = c
  BY <1>1, <1>2, <1>3 DEF Covering
<1>5. PICK R : R = pacts[p].receipts /\ R \subseteq 1..Len(chain[c].payouts)
  BY <1>4 DEF Sound, PactGood
<1>6. /\ pacts[p].status # "none" /\ pacts'[p].proposal = pacts[p].proposal
      /\ pacts'[p].openedAt # Never /\ pacts'[p].paycard = c
  BY <1>4 DEF Sound, PactGood, Lasting
<1>7. PICK S : S = pacts'[p].receipts /\ R \subseteq S
  BY <1>4, <1>5 DEF Lasting
<1>8. PICK s : s = Payouts(c)'
  OBVIOUS
<1>9. s \in Seq(Nat) /\ o.tx \in 1..Len(s)
  <2>1. o.tx \in 1..Len(chain'[c].payouts)
    BY <1>1, <1>3 DEF Sound, StillTrue
  <2>2. chain'[c].payouts \in Seq(Nat)
    BY DEF Sound, CardState
  <2> QED
    BY <1>8, <2>1, <2>2 DEF Payouts
<1>10. ASSUME o.final
       PROVE  Total(Shown(s, S \cup {o.tx})) >= Amount(p)'
  <2>1. PICK T : T = R \cup {o.tx}
    OBVIOUS
  <2>2. T \subseteq 1..Len(chain[c].payouts)
    BY <1>3, <1>5, <2>1
  <2>3. Total(Shown(Payouts(c), T)) >= Amount(p)
    BY <1>1, <1>2, <1>3, <1>5, <1>10, <2>1 DEF Covering
  <2>4. Shown(s, T) = Shown(Payouts(c), T)
    BY <1>8, <2>2, ShownStays
  <2>5. IsFiniteSet(Units(Shown(s, S)))
    <3>1. Payouts(pacts[p].paycard)' = s /\ Covered(p)'
      BY <1>6, <1>8 DEF Payouts
    <3> QED
      BY <1>6, <1>7, <3>1 DEF Covered
  <2>6. IsFiniteSet(Units(Shown(s, S \cup {o.tx})))
    BY <1>9, <2>5, ShownWith
  <2>7. T \subseteq S \cup {o.tx}
    BY <1>7, <2>1
  <2>8. /\ Total(Shown(s, T)) \in Nat /\ Total(Shown(s, S \cup {o.tx})) \in Nat
        /\ Total(Shown(s, T)) <= Total(Shown(s, S \cup {o.tx}))
    BY <2>6, <2>7, ShownMore
  <2>9. Amount(p)' = Amount(p) /\ Amount(p) \in Nat
    BY <1>6 DEF Amount, Sound, PactGood
  <2> QED
    BY <2>3, <2>4, <2>8, <2>9
<1> QED
  BY <1>2, <1>3, <1>6, <1>7, <1>8, <1>10 DEF Covering

\* What is recorded covers what it settles.
LEMMA RecordCovered ==
    ASSUME Sound, Lasting, PaidUp, PayoutsStay, NEW o \in inFlight,
           RecordOpening(o) \/ RecordSettlement(o)
    PROVE  \A p \in PactIds : Covered(p)'
<1>1. PICK p \in PactIds : p = o.pact
  BY DEF Sound, StillTrue, Observation
<1>2. PICK old \in PactState : old = pacts[p] /\ PactGood(old)
  BY DEF Sound
<1>3. ASSUME NEW r, pacts' = [pacts EXCEPT ![p] = r], Covered(p)'
      PROVE  \A q \in PactIds : Covered(q)'
  <2>1. CalmBut(p)
    BY <1>3, OthersCalm
  <2> QED
    BY <1>3, <2>1, CalmCovered DEF CalmBut, PaidUp
<1>4. CASE RecordOpening(o)
  <2>1. old.status = "payment_prepared" /\ old.receipts = {}
    BY <1>1, <1>2, <1>4 DEF RecordOpening, Bindable, PactGood
  <2>2. PICK r : r = [old EXCEPT !.status = "active", !.openedAt = clock]
    OBVIOUS
  <2>3. r.status = "active" /\ r.receipts = {}
    BY <2>1, <2>2 DEF PactState
  <2>4. pacts' = [pacts EXCEPT ![p] = r] /\ pacts'[p] = r
    BY <1>1, <1>2, <1>4, <2>2 DEF RecordOpening, Become, Sound
  <2>5. PICK s : s = Payouts(pacts[p].paycard)'
    OBVIOUS
  <2>6. IsFiniteSet(Units(Shown(s, {})))
    <3>1. DOMAIN Shown(s, {}) = {}
      BY DEF Shown
    <3> QED
      BY <3>1, TotalOfNone
  <2>7. Covered(p)'
    BY <2>3, <2>4, <2>5, <2>6 DEF Covered, Settled
  <2> QED
    BY <1>3, <2>4, <2>7
<1>5. CASE RecordSettlement(o)
  <2>1. o.kind = "settlement" /\ old.openedAt # Never /\ old.paycard = o.paycard
        /\ UNCHANGED chain
    BY <1>1, <1>2, <1>5 DEF RecordSettlement, Become, OpenedPact
  <2>2. PICK receipts, status : /\ receipts = old.receipts \cup {o.tx}
                                /\ status = IF o.final THEN "settled" ELSE old.status
    OBVIOUS
  <2>3. PICK r : r = [old EXCEPT !.receipts = receipts, !.status = status]
    OBVIOUS
  <2>4. pacts' = [pacts EXCEPT ![p] = r] /\ pacts'[p] = r
    BY <1>1, <1>2, <1>5, <2>2, <2>3 DEF RecordSettlement, Become, Sound
  <2>5. /\ r.status = status /\ r.proposal = old.proposal /\ r.receipts = receipts
        /\ r.paycard = o.paycard
    BY <2>1, <2>3 DEF PactState
  <2>6. PICK c \in Paycards : c = o.paycard /\ o.tx \in 1..Len(chain[c].payouts)
    BY <2>1 DEF Sound, StillTrue, Observation
  <2>7. PICK s \in Seq(Nat) : s = Payouts(c) /\ o.tx \in 1..Len(s)
    BY <2>6 DEF Sound, CardState, Payouts
  <2>8. IsFiniteSet(Units(Shown(s, old.receipts)))
    BY <1>2, <2>1, <2>6, <2>7 DEF PaidUp, Covered
  <2>9. IsFiniteSet(Units(Shown(s, receipts)))
    BY <2>2, <2>7, <2>8, ShownWith
  <2>10. status = "settled" => Total(Shown(s, receipts)) >= old.proposal.amount
    <3>1. CASE o.final
      BY <1>1, <1>2, <2>1, <2>2, <2>6, <2>7, <3>1 DEF PaidUp, Covering, Amount
    <3>2. CASE status = "settled" /\ ~o.final
      <4>1. Total(Shown(s, old.receipts)) >= old.proposal.amount
        BY <1>2, <2>1, <2>2, <2>6, <2>7, <3>2 DEF PaidUp, Covered, Settled, Amount
      <4>2. /\ Total(Shown(s, old.receipts)) \in Nat /\ Total(Shown(s, receipts)) \in Nat
            /\ Total(Shown(s, old.receipts)) <= Total(Shown(s, receipts))
        BY <2>2, <2>9, ShownMore
      <4>3. old.proposal.amount \in Nat
        BY <1>2, <2>1 DEF PactGood
      <4> QED
        BY <4>1, <4>2, <4>3
    <3> QED
      BY <3>1, <3>2
  <2>11. Payouts(pacts[p].paycard)' = s
    BY <2>1, <2>4, <2>5, <2>6, <2>7 DEF Payouts
  <2>12. Covered(p)'
    BY <2>4, <2>5, <2>9, <2>10, <2>11 DEF Covered, Settled, Amount
  <2> QED
    BY <1>3, <2>4, <2>12
<1> QED
  BY <1>4, <1>5

\* So every Pact is covered after every step.
LEMMA NextCovered ==
    ASSUME Sound, Untouched, PaidUp, [Next]_vars
    PROVE  \A p \in PactIds : Covered(p)'
<1>1. Lasting /\ PayoutsStay
  BY NextLasts, NextPayoutsStay
<1>2. CASE \A p \in PactIds : Calm(pacts[p], pacts'[p])
  BY <1>1, <1>2, CalmCovered DEF PaidUp
<1>3. ASSUME NEW p \in PactIds, NEW prop, NEW cs, CreatePact(p, prop, cs)
      PROVE  \A q \in PactIds : Covered(q)'
  <2>1. PICK r : r = [NoPact EXCEPT !.status = "awaiting_signatures", !.proposal = prop,
                                   !.path = path, !.countersigned = cs]
    OBVIOUS
  <2>2. r.openedAt = Never
    BY <2>1 DEF NoPact
  <2>3. pacts' = [pacts EXCEPT ![p] = r]
    BY <1>3, <2>1 DEF CreatePact, Become
  <2>4. CalmBut(p) /\ pacts'[p] = r
    BY <2>3, OthersCalm
  <2> QED
    BY <1>1, <2>2, <2>4, CalmCovered DEF CalmBut, PaidUp, Covered
<1> QED
  BY <1>1, <1>2, <1>3, NextCalm, RecordCovered

\* The verifier counts the receipt it is asked about on top of those on record, and
\* nobody asks about one of those.
LEMMA AskedCovering ==
    ASSUME Sound, PaidUp, "rerecord" \notin Hazards, NEW p \in PactIds, NEW i,
           OpenedPact(p), VerifySettlement(p, i), NEW o \in inFlight' \ inFlight
    PROVE  Covering(o)'
<1>1. PICK old \in PactState : old = pacts[p] /\ PactGood(old) /\ old.openedAt # Never
  BY DEF Sound, OpenedPact
<1>2. PICK c \in Paycards : c = old.paycard
  BY <1>1 DEF PactGood
<1>3. PICK final \in BOOLEAN : final = Final(p, i)
  <2>1. Final(p, i) \in BOOLEAN
    BY DEF Final
  <2> QED
    BY <2>1
<1>4. /\ o = [kind |-> "settlement", pact |-> p, paycard |-> c, tx |-> i, final |-> final]
      /\ i \in 1..Len(chain[c].payouts) /\ i \notin old.receipts
      /\ UNCHANGED <<pacts, chain>>
  BY <1>1, <1>2, <1>3 DEF VerifySettlement, Observe, work
<1>5. o.pact = p /\ o.paycard = c /\ o.tx = i /\ o.final = final
  BY <1>4
<1>6. PICK s \in Seq(Nat) : s = Payouts(c) /\ i \in 1..Len(s)
  BY <1>4 DEF Sound, CardState, Payouts
<1>7. ASSUME final
      PROVE  Total(Shown(s, old.receipts \cup {i})) >= Amount(p)
  <2>1. Total(Shown(s, old.receipts)) + s[i] >= Amount(p)
    BY <1>1, <1>2, <1>3, <1>6, <1>7 DEF Final, Paid, Payout, Shown, Payouts
  <2>2. IsFiniteSet(Units(Shown(s, old.receipts)))
    BY <1>1, <1>2, <1>6 DEF PaidUp, Covered
  <2> QED
    BY <1>4, <1>6, <2>1, <2>2, ShownWith
<1>8. /\ pacts'[o.pact] = old /\ Payouts(o.paycard)' = s /\ Amount(o.pact)' = Amount(p)
  BY <1>1, <1>4, <1>5, <1>6 DEF Payouts, Amount
<1> QED
  BY <1>1, <1>2, <1>5, <1>7, <1>8 DEF Covering

\* Receipts on record and on their way cover what is settled by them.
LEMMA NextPaidUp ==
    ASSUME Sound, Untouched, PaidUp, "rerecord" \notin Hazards, [Next]_vars
    PROVE  PaidUp'
<1>1. Lasting /\ PayoutsStay /\ Sound' /\ \A p \in PactIds : Covered(p)'
  BY NextLasts, NextPayoutsStay, NextSound, NextCovered
<1>2. ASSUME NEW o \in inFlight'
      PROVE  Covering(o)'
  <2>1. CASE o \in inFlight
    BY <1>1, <2>1, StillCovering DEF PaidUp
  <2>2. CASE o \notin inFlight
    <3>1. \/ inFlight' \subseteq inFlight
          \/ \E p \in PactIds : VerifyOpening(p)
          \/ \E p \in PactIds : OpenedPact(p) /\ \E i : VerifySettlement(p, i)
      BY DEF Next, vars, ClockTick, VaultNext, WalletOpens, VaultPays, VaultCloses,
             GovernanceNext, RegisterAgent, ActivatePath, SetAgentStatus, InstallPlugin,
             ResolveGaiaCase, SubmitProposal, RunNextJob, PactNext, CreatePact, SignPact,
             PreparePayment, SubmitCheckpoint, VerifyCheckpoint, OpenGaiaCase,
             RecordOpening, RecordSettlement, Abandon
    <3>2. ASSUME NEW p \in PactIds, VerifyOpening(p)
          PROVE  o.kind = "opening"
      BY <2>2, <3>2 DEF VerifyOpening, Observe
    <3>3. ASSUME o.kind = "opening"
          PROVE  Covering(o)'
      BY <3>3 DEF Covering
    <3> QED
      BY <2>2, <3>1, <3>2, <3>3, AskedCovering
  <2> QED
    BY <2>1, <2>2
<1> QED
  BY <1>1, <1>2 DEF PaidUp

\* A settled Pact has receipts for its whole allocation, as long as nobody asks about
\* a settlement that is on record.
THEOREM SettledIsPaidAlways ==
    ASSUME "rerecord" \notin Hazards
    PROVE  Spec => []SettledIsPaid
<1>1. Init => PaidUp
  <2>1. SUFFICES ASSUME Init PROVE PaidUp
    OBVIOUS
  <2>2. \A p \in PactIds : pacts[p].openedAt = Never
    BY <2>1 DEF Init, NoPact
  <2> QED
    BY <2>1, <2>2 DEF Init, PaidUp, Covered
<1>2. Sound /\ Untouched /\ PaidUp /\ [Next]_vars => PaidUp'
  BY NextPaidUp
<1>3. Sound /\ PaidUp => SettledIsPaid
  <2>1. SUFFICES ASSUME Sound, PaidUp, NEW p \in PactIds, Settled(p)
                 PROVE  Paid(p, pacts[p].receipts) >= Amount(p)
    BY DEF SettledIsPaid
  <2>2. pacts[p].openedAt # Never
    BY <2>1 DEF Sound, PactGood, Settled
  <2>3. Paid(p, pacts[p].receipts) = Total(Shown(Payouts(pacts[p].paycard), pacts[p].receipts))
    BY DEF Paid, Payout, Shown, Payouts
  <2> QED
    BY <2>1, <2>2, <2>3 DEF PaidUp, Covered
<1> QED
  BY <1>1, <1>2, <1>3, SoundAlways, PTL DEF Spec
=============================================================================
