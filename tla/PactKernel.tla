----------------------------- MODULE PactKernel -----------------------------
(***************************************************************************)
(* The agent kernel, agent-kernel/src/runtime.ts and evaluator.ts: one     *)
(* Workspace, one registered Agent, one Path and its revisions, and the    *)
(* Pacts formed under it, up to their canonical payment and its disputes.  *)
(*                                                                         *)
(* store.transact runs one mutation at a time and discards it when it      *)
(* throws, so a mutation is one step.  Only what the kernel reads before   *)
(* it awaits the chain verifier is stale when the mutation starts: such a  *)
(* request is an observation in flight.  The verifier is the one of        *)
(* apps/gasok-web/server/index.mjs.                                        *)
(*                                                                         *)
(* Abstractions: the checks of a proposal against a Path that depend on    *)
(* the two alone (amount, action, asset, counterparty, velocity, duration, *)
(* authority mode, plugin, identity) are the Path's set "permits"; a hash  *)
(* is the value it commits to; signatures are those of whoever acts;       *)
(* revision counters and the event log, but for openings, are left out.    *)
(***************************************************************************)
EXTENDS Integers, Sequences, FiniteSets

CONSTANTS
    PactIds, Paycards, Cases,
    Authority,     \* the Workspace authority, payer of every Pact
    Proposals,     \* proposals an Agent may submit
    Paths,         \* Path revisions the authority has signed
    Commands,      \* Workspace commands the authority has signed
    None,          \* no Path, no Paycard, no Pact
    Hazards,       \* what callers may do, a subset of AllHazards
    Period,        \* limits.periodSeconds, of every revision
    MaxClock,       \* bounds of the model: last second,
    MaxInFlight,    \* requests that await the verifier at a time,
    MaxCheckpoints  \* checkpoints of a Pact

AllHazards ==
    {"hasty",      \* a Pact is created while another awaits its signatures
     "afterlife",  \* a settled Pact is verified, disputed or rectified
     "rerecord"}   \* a settlement that is recorded is recorded again

Proposal == [name : STRING, amount : Nat \ {0}, counterparty : STRING]

Path == [name : STRING, previous : STRING \cup {None}, revision : Nat \ {0},
         active : BOOLEAN, authorizes : BOOLEAN, from : Nat, until : Nat,
         permits : SUBSET Proposals,
         maxExposure : Nat, maxConcurrent : Nat, maxPerPeriod : Nat]

Verdicts  == {"approved", "rejected", "review"}
Remedies  == {"replacement_pact", "compensating_pact", "close_and_return_residual"}
AgentStatus == {"active", "paused", "revoked"}
Operations == {"set_agent_status", "install_plugin", "resolve_gaia"}

ASSUME KernelAssumption ==
    /\ Hazards \subseteq AllHazards
    /\ Period \in Nat /\ MaxClock \in Nat
    /\ MaxInFlight \in Nat /\ MaxCheckpoints \in Nat
    /\ \A prop \in Proposals : prop.amount \in Nat \ {0}
    /\ None \notin Paths
    /\ \A p \in Paths : /\ p.revision \in Nat \ {0}
                        /\ p.permits \subseteq Proposals
                        /\ {p.maxExposure, p.maxConcurrent} \subseteq Nat
    /\ \A cmd \in Commands : /\ cmd.nonce \in Nat /\ cmd.op \in Operations
                             /\ cmd.op = "resolve_gaia" => cmd.target \in Cases

VARIABLES
    clock,
    \* governance
    agent,        \* status of the Agent, or "unregistered"
    path,         \* the Path revision in force, or None
    plugin,       \* status of the verification plugin, or "absent"
    commandNonce, \* workspaceCommandNonces
    executed,     \* history: the Workspace commands that took effect
    \* work
    jobs,         \* state of the evaluation job of every proposal
    pacts,
    checkpoints,  \* types of the checkpoints of every Pact, by index
    cases,        \* Gaia cases
    obligations,  \* rectifications, by case and decision
    inFlight,     \* observations on their way to store.transact
    \* the vault
    chain

governance == <<agent, path, plugin, commandNonce, executed>>
work == <<jobs, pacts, checkpoints, cases, obligations>>
vars == <<clock, agent, path, plugin, commandNonce, executed, jobs, pacts,
          checkpoints, cases, obligations, inFlight, chain>>

Never == -1

NoPact == [status |-> "none", proposal |-> None, path |-> None,
           countersigned |-> FALSE, signed |-> {}, paycard |-> None,
           openedAt |-> Never, receipts |-> {}]
NoCard == [status |-> "none", amount |-> 0, recipient |-> None,
           left |-> 0, payouts |-> <<>>]
NoCase == [status |-> "none", pact |-> None]

Exists(p) == pacts[p].status # "none"
OpenedPact(p) == pacts[p].openedAt # Never
Settled(p) == pacts[p].status = "settled"

-----------------------------------------------------------------------------
(* The vault, as far as the kernel's verifier reads it.                    *)

ClockTick ==
    /\ clock < MaxClock
    /\ clock' = clock + 1
    /\ UNCHANGED <<governance, work, inFlight, chain>>

\* The authority's wallet opens a Paycard, for the terms of some proposal.
WalletOpens(c, prop) ==
    /\ chain[c] = NoCard
    /\ chain' = [chain EXCEPT ![c] =
            [status |-> "Active", amount |-> prop.amount,
             recipient |-> prop.counterparty, left |-> prop.amount,
             payouts |-> <<>>]]
    /\ UNCHANGED <<clock, governance, work, inFlight>>

\* processDripSettle: the i-th SettlementFlushed is the i-th payout.
VaultPays(c, amount) ==
    LET card == chain[c] IN
    /\ card.status = "Active"
    /\ amount \in 1..card.left
    /\ chain' = [chain EXCEPT ![c].left = @ - amount,
                              ![c].payouts = Append(@, amount),
                              ![c].status = IF amount = card.left THEN "Terminated"
                                            ELSE "Active"]
    /\ UNCHANGED <<clock, governance, work, inFlight>>

\* flushResidualDelta returns the rest.
VaultCloses(c) ==
    /\ chain[c].status = "Active"
    /\ chain' = [chain EXCEPT ![c].left = 0, ![c].status = "Terminated"]
    /\ UNCHANGED <<clock, governance, work, inFlight>>

-----------------------------------------------------------------------------
(* Workspace commands, Agent and Path.                                     *)

\* Faulty: any command that is not older than the counter will do.
NonceNotPast(cmd) == cmd.nonce >= commandNonce
NonceMatches(cmd) == cmd.nonce = commandNonce

\* authorizeWorkspaceCommand.
Authorize(cmd, op) ==
    /\ cmd.op = op
    /\ NonceMatches(cmd)
    /\ clock < cmd.until
    /\ commandNonce' = cmd.nonce + 1
    /\ executed' = executed \cup {cmd}

RegisterAgent ==
    /\ agent = "unregistered"
    /\ agent' = "active"
    /\ UNCHANGED <<clock, path, plugin, commandNonce, executed, work, inFlight, chain>>

SetAgentStatus(cmd) ==
    /\ Authorize(cmd, "set_agent_status")
    /\ agent # "unregistered"
    /\ agent' = cmd.arg
    /\ UNCHANGED <<clock, path, plugin, work, inFlight, chain>>

InstallPlugin(cmd) ==
    /\ Authorize(cmd, "install_plugin")
    /\ plugin' = cmd.arg
    /\ UNCHANGED <<clock, agent, path, work, inFlight, chain>>

ActivatePath(p) ==
    /\ p.authorizes => agent = "active"
    /\ IF path = None THEN p.revision = 1
       ELSE /\ p.revision = path.revision + 1
            /\ p.previous = path.name
    /\ path' = p
    /\ UNCHANGED <<clock, agent, plugin, commandNonce, executed, work, inFlight, chain>>

-----------------------------------------------------------------------------
(* Policy: evaluateProposal.                                               *)

\* Faulty: a completed Pact no longer reserves its allocation.
ReservingUntilCompleted == {"accepted", "payment_prepared", "active", "performing",
                            "disputed", "rectification_required"}
Reserving == {"accepted", "payment_prepared", "active", "performing",
              "completed", "disputed", "rectification_required"}

ActivePacts == {p \in PactIds : pacts[p].status \in Reserving}

Amount(p) == pacts[p].proposal.amount

\* The sum of the terms of a function, counted unit by unit.
Units(term) == UNION {{x} \X (1..term[x]) : x \in DOMAIN term}
Total(term) == Cardinality(Units(term))

Amounts(S) == [p \in S |-> Amount(p)]
Exposure == Total(Amounts(ActivePacts))

\* Openings count from the moment the kernel records them.
PeriodSpent ==
    Total(Amounts(
        {p \in PactIds : OpenedPact(p) /\ pacts[p].openedAt >= clock - Period}))

InForce == path.active /\ path.from <= clock /\ clock < path.until

WithinLimits(prop) ==
    /\ Exposure + prop.amount <= path.maxExposure
    /\ PeriodSpent + prop.amount <= path.maxPerPeriod
    /\ Cardinality(ActivePacts) < path.maxConcurrent

Allowed(prop) ==
    /\ agent = "active"
    /\ path # None
    /\ InForce /\ path.authorizes
    /\ prop \in path.permits
    /\ WithinLimits(prop)

SubmitProposal(prop) ==
    /\ jobs[prop] = "none"
    /\ jobs' = [jobs EXCEPT ![prop] = "queued"]
    /\ UNCHANGED <<clock, governance, pacts, checkpoints, cases, obligations,
                   inFlight, chain>>

\* The job's decision is kept for the record; createPact takes its own.
RunNextJob(prop) ==
    /\ jobs[prop] = "queued"
    /\ jobs' = [jobs EXCEPT ![prop] = IF Allowed(prop) THEN "completed" ELSE "blocked"]
    /\ UNCHANGED <<clock, governance, pacts, checkpoints, cases, obligations,
                   inFlight, chain>>

-----------------------------------------------------------------------------
(* Pacts: terms, signatures, payment.                                      *)

Become(p, pact) ==
    /\ pacts' = [pacts EXCEPT ![p] = pact]
    /\ UNCHANGED <<clock, governance, jobs, chain>>

\* Faulty: the decision of the evaluation job stands.
PermittedByJob(prop) == jobs[prop] = "completed"
\* createPactFromProposal evaluates again.
Permitted(prop) == Allowed(prop) /\ plugin = "active"

CreatePact(p, prop, countersigned) ==
    /\ ~Exists(p)
    /\ jobs[prop] # "none"
    /\ Permitted(prop)
    /\ "hasty" \in Hazards \/ \A q \in PactIds : pacts[q].status # "awaiting_signatures"
    /\ Become(p, [NoPact EXCEPT !.status = "awaiting_signatures", !.proposal = prop,
                                !.path = path, !.countersigned = countersigned])
    /\ UNCHANGED <<checkpoints, cases, obligations, inFlight>>

\* Faulty: one signature is enough.
AnySignature(pact, signed) == signed # {}
FullySigned(pact, signed) ==
    /\ Authority \in signed
    /\ pact.countersigned => pact.proposal.counterparty \in signed

SignPact(p, signer) ==
    LET signed == pacts[p].signed \cup {signer} IN
    /\ pacts[p].status = "awaiting_signatures"
    /\ signer \in {Authority, pacts[p].proposal.counterparty} \ pacts[p].signed
    /\ Become(p, [pacts[p] EXCEPT !.signed = signed,
                     !.status = IF FullySigned(pacts[p], signed) THEN "accepted" ELSE @])
    /\ UNCHANGED <<checkpoints, cases, obligations, inFlight>>

\* assertPactExecutionEligible: same Path revision, so the same permissions.
Eligible(p) == agent = "active" /\ path = pacts[p].path /\ InForce

\* Faulty: a Pact under way may be prepared again.
PreparableUnderWay == {"accepted", "payment_prepared", "active"}
Preparable == {"accepted", "payment_prepared"}

\* bindOpenRailsPayment without a transaction: a binding that has not been
\* opened yet is replaced.
PreparePayment(p, c) ==
    /\ Exists(p) /\ Eligible(p)
    /\ pacts[p].status \in Preparable
    /\ Become(p, [pacts[p] EXCEPT !.status = "payment_prepared", !.paycard = c,
                                  !.receipts = {}])
    /\ UNCHANGED <<checkpoints, cases, obligations, inFlight>>

Observe(o) ==
    /\ Cardinality(inFlight) < MaxInFlight
    /\ inFlight' = inFlight \cup {o}
    /\ UNCHANGED <<clock, governance, work, chain>>

\* assertOpeningObservationMatchesPact: the receipt shows the Paycard as the
\* vault registered it.
OpeningMatches(p, c) ==
    /\ chain[c].status # "none"
    /\ chain[c].amount = Amount(p)
    /\ chain[c].recipient = pacts[p].proposal.counterparty

\* bindOpenRailsPayment with a transaction, up to its transact.
VerifyOpening(p) ==
    LET c == pacts[p].paycard IN
    /\ Exists(p) /\ Eligible(p)
    /\ c # None
    /\ OpeningMatches(p, c)
    /\ Observe([kind |-> "opening", pact |-> p, paycard |-> c, tx |-> 0, final |-> FALSE])

\* Faulty: of what held before the await the authority or the Paycard is not
\* looked at again.
BindableRegardless(o) ==
    pacts[o.pact].status = "payment_prepared" /\ pacts[o.pact].paycard = o.paycard
BindableAnyPaycard(o) ==
    Eligible(o.pact) /\ pacts[o.pact].status = "payment_prepared"
Bindable(o) ==
    /\ Eligible(o.pact)
    /\ pacts[o.pact].status = "payment_prepared"
    /\ pacts[o.pact].paycard = o.paycard

RecordOpening(o) ==
    /\ o.kind = "opening"
    /\ Bindable(o)
    /\ inFlight' = inFlight \ {o}
    /\ Become(o.pact, [pacts[o.pact] EXCEPT !.status = "active", !.openedAt = clock])
    /\ UNCHANGED <<checkpoints, cases, obligations>>

Payout(c, i) == chain[c].payouts[i]
Paid(p, receipts) == Total([i \in receipts |-> Payout(pacts[p].paycard, i)])

\* Faulty: any receipt is final once the Paycard is closed.
FinalWhenClosed(p, i) == chain[pacts[p].paycard].status = "Terminated"
\* verifySettlement's eventFinal, from the receipts recorded when it was asked.
Final(p, i) ==
    Paid(p, pacts[p].receipts) + Payout(pacts[p].paycard, i) >= Amount(p)

ChainFinal(c) == chain[c].status = "Terminated"

\* recordPactSettlement up to its transact.
VerifySettlement(p, i) ==
    LET c == pacts[p].paycard IN
    /\ OpenedPact(p)
    /\ i \in 1..Len(chain[c].payouts)
    /\ i \in pacts[p].receipts => "rerecord" \in Hazards
    /\ Final(p, i) => ChainFinal(c)
    /\ Observe([kind |-> "settlement", pact |-> p, paycard |-> c, tx |-> i,
                final |-> Final(p, i)])

RecordSettlement(o) ==
    /\ o.kind = "settlement"
    /\ OpenedPact(o.pact) /\ pacts[o.pact].paycard = o.paycard
    /\ inFlight' = inFlight \ {o}
    /\ Become(o.pact, [pacts[o.pact] EXCEPT !.receipts = @ \cup {o.tx},
                          !.status = IF o.final THEN "settled" ELSE @])
    /\ UNCHANGED <<checkpoints, cases, obligations>>

\* The verifier gives up, or the process ends and forgets the request.
Abandon(o) ==
    /\ inFlight' = inFlight \ {o}
    /\ UNCHANGED <<clock, governance, work, chain>>

-----------------------------------------------------------------------------
(* Proof and Gaia.                                                         *)

Undisturbed(p) == Settled(p) => "afterlife" \in Hazards

SubmitCheckpoint(p, type) ==
    /\ pacts[p].status \in {"active", "performing", "disputed"}
    /\ Len(checkpoints[p]) < MaxCheckpoints
    /\ checkpoints' = [checkpoints EXCEPT ![p] = Append(@, type)]
    /\ Become(p, [pacts[p] EXCEPT !.status = IF @ = "active" THEN "performing" ELSE @])
    /\ UNCHANGED <<cases, obligations, inFlight>>

\* The verdict decides, whatever the Pact's status.
StatusAfter(status, type, verdict) ==
    IF verdict = "rejected" THEN "disputed"
    ELSE IF verdict = "approved" /\ type = "completed" THEN "completed"
    ELSE status

VerifyCheckpoint(p, i, verdict) ==
    /\ i \in 1..Len(checkpoints[p])
    /\ plugin = "active"
    /\ Undisturbed(p)
    /\ Become(p, [pacts[p] EXCEPT !.status = StatusAfter(@, checkpoints[p][i], verdict)])
    /\ UNCHANGED <<checkpoints, cases, obligations, inFlight>>

OpenGaiaCase(k, p) ==
    /\ Exists(p)
    /\ Undisturbed(p)
    /\ cases[k].status = "none"
    /\ cases' = [cases EXCEPT ![k] = [status |-> "open", pact |-> p]]
    /\ Become(p, [pacts[p] EXCEPT !.status = "disputed"])
    /\ UNCHANGED <<checkpoints, obligations, inFlight>>

\* A remedy is owed and the Pact says so; otherwise the case alone is closed.
ResolveGaiaCase(cmd) ==
    LET k == cmd.target
        p == cases[k].pact
        remedied == cmd.arg \in Remedies
    IN
    /\ Authorize(cmd, "resolve_gaia")
    /\ cases[k].status # "none"
    /\ Undisturbed(p)
    /\ cases' = [cases EXCEPT ![k].status =
            IF remedied THEN "rectification_required"
            ELSE IF cmd.arg = "dismiss" THEN "dismissed" ELSE "resolved"]
    /\ obligations' = obligations \cup (IF remedied THEN {<<k, cmd.arg>>} ELSE {})
    /\ pacts' = [pacts EXCEPT ![p].status = IF remedied THEN "rectification_required" ELSE @]
    /\ UNCHANGED <<clock, agent, path, plugin, jobs, checkpoints, inFlight, chain>>

-----------------------------------------------------------------------------

Init ==
    /\ clock = 0
    /\ agent = "unregistered" /\ path = None /\ plugin = "absent"
    /\ commandNonce = 0 /\ executed = {}
    /\ jobs = [prop \in Proposals |-> "none"]
    /\ pacts = [p \in PactIds |-> NoPact]
    /\ checkpoints = [p \in PactIds |-> <<>>]
    /\ cases = [k \in Cases |-> NoCase]
    /\ obligations = {} /\ inFlight = {}
    /\ chain = [c \in Paycards |-> NoCard]

VaultNext ==
    \E c \in Paycards :
        \/ \E prop \in Proposals :
              WalletOpens(c, prop) \/ \E amount \in 1..prop.amount : VaultPays(c, amount)
        \/ VaultCloses(c)

GovernanceNext ==
    \/ RegisterAgent
    \/ \E p \in Paths : ActivatePath(p)
    \/ \E cmd \in Commands :
          SetAgentStatus(cmd) \/ InstallPlugin(cmd) \/ ResolveGaiaCase(cmd)

PactNext(p) ==
    \/ \E prop \in Proposals, countersigned \in BOOLEAN : CreatePact(p, prop, countersigned)
    \/ Exists(p) /\ \E signer \in {Authority, pacts[p].proposal.counterparty} : SignPact(p, signer)
    \/ \E c \in Paycards : PreparePayment(p, c)
    \/ VerifyOpening(p)
    \/ OpenedPact(p) /\ \E i \in 1..Len(chain[pacts[p].paycard].payouts) : VerifySettlement(p, i)
    \/ \E type \in {"progress", "completed"} : SubmitCheckpoint(p, type)
    \/ \E i \in 1..Len(checkpoints[p]), verdict \in Verdicts : VerifyCheckpoint(p, i, verdict)
    \/ \E k \in Cases : OpenGaiaCase(k, p)

Next ==
    \/ ClockTick
    \/ VaultNext
    \/ GovernanceNext
    \/ \E prop \in Proposals : SubmitProposal(prop) \/ RunNextJob(prop)
    \/ \E p \in PactIds : PactNext(p)
    \/ \E o \in inFlight : RecordOpening(o) \/ RecordSettlement(o) \/ Abandon(o)

Spec == Init /\ [][Next]_vars

-----------------------------------------------------------------------------
(* What must hold.                                                         *)

PactStatus == Reserving \cup {"none", "awaiting_signatures", "settled"}

\* Financial state is canonical: a Pact is active, performing or settled only
\* on a Paycard that the vault has registered on its terms, its receipts are
\* payouts of that Paycard, and no way of disputing or rectifying a Pact makes
\* it settled while the vault still holds money for it.
FundedOnChain ==
    \A p \in PactIds :
        LET card == chain[pacts[p].paycard] IN
        /\ pacts[p].status \in {"active", "performing", "settled"} => OpenedPact(p)
        /\ OpenedPact(p) =>
              /\ card.status # "none"
              /\ card.amount = Amount(p)
              /\ card.recipient = pacts[p].proposal.counterparty
              /\ pacts[p].receipts \subseteq 1..Len(card.payouts)
        /\ Settled(p) => card.status = "Terminated" /\ card.left = 0

\* No money moves under a Pact that its parties have not signed, through
\* whatever disputes and verdicts it went first.
FundedWasSigned ==
    \A p \in PactIds : OpenedPact(p) =>
        /\ Authority \in pacts[p].signed
        /\ pacts[p].countersigned => pacts[p].proposal.counterparty \in pacts[p].signed

\* A Pact is formed under the Path revision in force at its creation, not the
\* one its proposal was evaluated under: that revision permits the proposal.
FormedUnderItsPath ==
    \A p \in PactIds : Exists(p) => pacts[p].proposal \in pacts[p].path.permits

\* Signed commands take effect in the order of their nonces, each once.
CommandsOnce ==
    /\ {cmd.nonce : cmd \in executed} = 0..(commandNonce - 1)
    /\ \A a, b \in executed : a.nonce = b.nonce => a = b

\* The authority of an opening is fresh: when a Pact becomes active, after the
\* wait for the chain, its Agent is active and its Path revision still in force.
OpeningAuthorized ==
    [][\A p \in PactIds : ~OpenedPact(p) /\ OpenedPact(p)' =>
          agent = "active" /\ path = pacts[p].path /\ InForce]_vars

\* What is opened stays bound: neither the terms nor the Paycard nor the time
\* of the opening, which the period limit counts, ever change again, and no
\* receipt is lost.
OpeningIsLasting ==
    [][\A p \in PactIds : OpenedPact(p) =>
          /\ pacts'[p].paycard = pacts[p].paycard
          /\ pacts'[p].openedAt = pacts[p].openedAt
          /\ pacts'[p].proposal = pacts[p].proposal
          /\ pacts[p].receipts \subseteq pacts'[p].receipts]_vars

\* A settled Pact stays settled.
SettledIsFinal == [][\A p \in PactIds : Settled(p) => Settled(p)']_vars

\* A Pact that becomes settled has receipts for its whole allocation.
SettledIsPaid ==
    \A p \in PactIds : Settled(p) => Paid(p, pacts[p].receipts) >= Amount(p)

AtStake == {p \in PactIds : pacts[p].status \notin {"none", "awaiting_signatures", "settled"}}

\* What accepted and unsettled Pacts commit stays within the Path's ceiling and
\* their number within its limit (unless a later revision is tighter).
ExposureRespected ==
    path # None => /\ Total(Amounts(AtStake)) <= path.maxExposure
                   /\ Cardinality(AtStake) <= path.maxConcurrent

=============================================================================
