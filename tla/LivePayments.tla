---------------------------- MODULE LivePayments ----------------------------
(***************************************************************************)
(* One accepted Pact on its way to "settled" through the GASOK web app:    *)
(* the page (components/LiveVerticalSlice.tsx), the server it calls        *)
(* (server/index.mjs), the kernel behind the server (agent-kernel's        *)
(* runtime.ts) and the vault.  Pages are closed and reloaded, requests of  *)
(* a closed page are served to their end, the server restarts and forgets  *)
(* its payment drafts, transactions wait in the payer's queue, others      *)
(* settle or flush the Paycard.                                            *)
(*                                                                         *)
(* Abstractions: the payer has funds and allowance, the Agent, Path and    *)
(* sessions stay valid, signatures are given; one clock for everybody;     *)
(* a Paycard streams one unit a second; the proof plugin approves the      *)
(* receipt of an opening.  A Paycard id is the hash of a nonce and of      *)
(* metadata that differ in the expiry only: the pair of the two.           *)
(***************************************************************************)
EXTENDS Integers, SequencesExt

CONSTANTS
    Pages,        \* browser pages the payer may have open
    None,         \* no page, no Paycard
    Lead,         \* seconds from a draft's block to its genesis
    Life,         \* lifespanSeconds, and the allocation
    MaxTime,      \* bounds of the model: the last second,
    MaxPending,   \* transactions in the payer's queue,
    MaxCloses,    \* pages closed while they are busy,
    MaxFailures,  \* requests that fail and restarts of the server,
    MaxOthers     \* settlements and flushes by others

ASSUME PaymentsAssumption ==
    /\ None \notin Pages
    /\ Life \in Nat \ {0}
    /\ {Lead, MaxTime, MaxPending, MaxCloses, MaxFailures, MaxOthers} \subseteq Nat

ASSUME PagesAssumption == IsFiniteSet(Pages)

VARIABLES
    now,
    \* the vault
    cards,     \* the Paycards the payer has opened
    queue,     \* the payer's transactions, in the order of their account nonce
    \* the kernel
    pact,
    \* the server
    drafts,    \* paymentDrafts: a Map in memory, in the order of insertion
    \* the pages, and the requests that are served for them
    page,
    closes, failures, others,
    \* history, which no step depends on
    doubled,    \* how often a second Paycard has been made possible
    overlapped  \* two recordings of settlements were under way at once

chain == <<cards, queue>>
bounds == <<closes, failures, others>>
history == <<doubled, overlapped>>
vars == <<now, cards, queue, pact, drafts, page, closes, failures, others,
          doubled, overlapped>>

Card == [nonce : Nat, genesis : Nat]
Horizon(c) == c.genesis + Life
Opened(c) == c \in DOMAIN cards

NewPact == [status |-> "accepted", paycard |-> None, opened |-> FALSE,
            checkpointed |-> FALSE, approved |-> FALSE, recorded |-> {}]

Idle(phase) == [at |-> "idle", phase |-> phase, card |-> None, nonce |-> 0,
                todo |-> {}, final |-> FALSE]
Closed == [Idle("pact") EXCEPT !.at = "closed"]

\* What is being served for a page that has been closed meanwhile.
Served == {"drafting", "verifying", "observing", "observed"}

Lesser(a, b) == IF a <= b THEN a ELSE b
\* What the payouts S of c add up to, counted unit by unit.
Units(c, S) == UNION {{i} \X (1..cards[c].payouts[i]) : i \in S}
PayoutSum(c, S) == Cardinality(Units(c, S))

-----------------------------------------------------------------------------
(* The vault.                                                              *)

At(places) == {p \in Pages : page[p].at \in places}
Preparable == pact.status \in {"accepted", "payment_prepared"}

Counted(cause) == IF cause THEN 1 ELSE 0

\* A Paycard's whole life passes while a page is between its lookup, which did
\* not find the Paycard, and its request for a draft.
OutlivedOnTheWay ==
    /\ Preparable /\ At({"draft"}) # {}
    /\ \E c \in DOMAIN cards : Horizon(c) = now + 1

ClockTick ==
    /\ now < MaxTime
    /\ now' = now + 1
    /\ doubled' = doubled + Counted(OutlivedOnTheWay)
    /\ UNCHANGED <<chain, pact, drafts, page, bounds, overlapped>>

Nonce == Cardinality(DOMAIN cards)
ChainFinal(c) == cards[c].left = 0

Due(c) == Lesser(now, Horizon(c)) - cards[c].since

\* The Paycard c after a settlement; nothing is emitted when nothing is due.
SettledCard(c) ==
    IF Due(c) <= 0 THEN cards[c]
    ELSE [cards[c] EXCEPT !.left = @ - Due(c), !.since = @ + Due(c),
                          !.payouts = Append(@, Due(c))]

WithCard(c, entry) == [d \in DOMAIN cards \cup {c} |-> IF d = c THEN entry ELSE cards[d]]

\* The queue once page p does not wait for its transactions any more.
Unwatched(p) ==
    [i \in DOMAIN queue |->
        IF queue[i].page = p THEN [queue[i] EXCEPT !.page = None] ELSE queue[i]]

Provisions(tx) == tx.kind = "open" /\ tx.card.nonce = Nonce /\ now < Horizon(tx.card)
Settles(tx) == tx.kind = "settle" /\ ~ChainFinal(tx.card)

\* waitForCanonicalReceipt sees a success; a revert is polled until it gives up.
AfterReceipt(tx) ==
    IF tx.page = None THEN page
    ELSE IF Provisions(tx) THEN [page EXCEPT ![tx.page].at = "confirm"]
    ELSE IF Settles(tx) /\ Due(tx.card) > 0
         THEN [page EXCEPT ![tx.page].at = "report",
                           ![tx.page].todo = {Len(cards[tx.card].payouts) + 1}]
    ELSE page

Mine ==
    LET tx == Head(queue)
    IN  /\ queue # <<>>
        /\ cards' = IF Provisions(tx)
                    THEN WithCard(tx.card, [left |-> Life, since |-> tx.card.genesis,
                                            payouts |-> <<>>, flushed |-> FALSE])
                    ELSE IF Settles(tx) THEN WithCard(tx.card, SettledCard(tx.card))
                    ELSE cards
        /\ page' = AfterReceipt(tx)
        /\ queue' = Tail(queue)
        /\ UNCHANGED <<now, pact, drafts, bounds, history>>

\* processDripSettle by the settler cron or anybody else.
OthersSettle(c) ==
    /\ others < MaxOthers /\ ~ChainFinal(c) /\ Due(c) > 0
    /\ others' = others + 1
    /\ cards' = WithCard(c, SettledCard(c))
    /\ UNCHANGED <<now, queue, pact, drafts, page, closes, failures, history>>

\* flushResidualDelta by a party of the Paycard, outside the app.
OthersFlush(c) ==
    /\ others < MaxOthers /\ ~ChainFinal(c)
    /\ others' = others + 1
    /\ cards' = WithCard(c, [SettledCard(c) EXCEPT !.left = 0,
                                                   !.flushed = SettledCard(c).left > 0])
    /\ UNCHANGED <<now, queue, pact, drafts, page, closes, failures, history>>

-----------------------------------------------------------------------------
(* The page: what is on the screen, and when it is left.                   *)

\* phaseFromPact
PactPhase ==
    IF pact.status = "settled" THEN "settled"
    ELSE IF pact.approved \/ pact.status = "performing" THEN "proved"
    ELSE IF pact.opened THEN "opened" ELSE "pact"

Turns(p, entry) == page' = [page EXCEPT ![p] = entry]
Goes(p, at) == Turns(p, [page[p] EXCEPT !.at = at])
Shows(p, phase) == Turns(p, IF page[p].phase = "left" THEN Closed ELSE Idle(phase))
Stops(p) == Shows(p, page[p].phase)
Local(p) == UNCHANGED <<now, chain, pact, drafts, bounds, history>>

OpenPage(p) ==
    /\ page[p].at = "closed"
    /\ Turns(p, Idle(PactPhase))
    /\ Local(p)

\* restoreCanonicalRun, after a reload of a page that is not busy.
Refresh(p) ==
    /\ page[p].at = "idle" /\ page[p].phase # PactPhase
    /\ Turns(p, Idle(PactPhase))
    /\ Local(p)

\* A busy page is closed or reloaded.
ClosePage(p) ==
    /\ page[p].at \notin {"closed", "idle"} /\ page[p].phase # "left"
    /\ closes < MaxCloses
    /\ closes' = closes + 1
    /\ queue' = Unwatched(p)
    /\ Turns(p, IF page[p].at \in Served THEN [page[p] EXCEPT !.phase = "left"] ELSE Closed)
    /\ UNCHANGED <<now, cards, pact, drafts, failures, others, history>>

-----------------------------------------------------------------------------
(* Opening: openPayment.                                                   *)

PressOpen(p) ==
    /\ page[p].at = "idle" /\ page[p].phase = "pact"
    /\ Preparable
    /\ Goes(p, IF pact.status = "payment_prepared" THEN "lookup" ELSE "draft")
    /\ Local(p)

\* bindOpenRailsPayment with a verified opening.
Activated(c) == [pact EXCEPT !.opened = TRUE, !.status = "active"]
Bindable(c) == pact.status = "payment_prepared" /\ pact.paycard = c

Forget(c) == drafts' = RemoveFirst(drafts, c)

\* /payments/recover-opening
RecoverOpening(p) ==
    LET c == pact.paycard
    IN  /\ page[p].at = "lookup"
        /\ IF pact.opened /\ pact.status = "active"
           THEN Shows(p, "opened") /\ UNCHANGED <<pact, drafts>>
           ELSE IF ~Opened(c) THEN Goes(p, "draft") /\ UNCHANGED <<pact, drafts>>
           ELSE IF Bindable(c)
           THEN Shows(p, "opened") /\ pact' = Activated(c) /\ Forget(c)
           ELSE Stops(p) /\ UNCHANGED <<pact, drafts>>
        /\ UNCHANGED <<now, chain, bounds, history>>

\* The drafts that may still be used; faulty: a draft is never used again.
ReusableNever == {}
Reusable == {i \in DOMAIN drafts : Horizon(drafts[i]) > now}

\* /payments/draft: a draft that is out already is handed out again; for a new
\* one the nonce is read first, also while one is made for another page.
RequestDraft(p) ==
    /\ page[p].at = "draft"
    /\ IF ~Preparable THEN Stops(p)
       ELSE IF Reusable # {}
       THEN Turns(p, [page[p] EXCEPT !.at = "sign", !.card = drafts[Min(Reusable)]])
       ELSE Turns(p, [page[p] EXCEPT !.at = "drafting", !.nonce = Nonce])
    /\ doubled' = doubled + Counted(Preparable /\ Reusable = {} /\ At({"drafting"}) # {})
    /\ UNCHANGED <<now, chain, pact, drafts, bounds, overlapped>>

\* createPaymentDraft, once the latest block is read.
IssueDraft(p) ==
    LET c == [nonce |-> page[p].nonce, genesis |-> now + Lead]
    IN  /\ page[p].at = "drafting"
        /\ Horizon(c) <= MaxTime
        /\ drafts' = IF \E i \in DOMAIN drafts : drafts[i] = c THEN drafts
                     ELSE Append(drafts, c)
        /\ IF page[p].phase = "left" THEN Turns(p, Closed)
           ELSE Turns(p, [page[p] EXCEPT !.at = "sign", !.card = c, !.nonce = 0])
        /\ UNCHANGED <<now, chain, pact, bounds, history>>

Issued(c) == \E i \in DOMAIN drafts : drafts[i] = c

\* The draft is accepted for preparation.
MayPrepare(c) == Issued(c) /\ Horizon(c) > now /\ Preparable

\* The wallet has signed: /payments/prepare.
PreparePayment(p) ==
    LET c == page[p].card
    IN  /\ page[p].at = "sign"
        /\ IF MayPrepare(c)
           THEN /\ pact' = [pact EXCEPT !.status = "payment_prepared",
                                        !.paycard = c, !.recorded = {}]
                /\ Goes(p, "submit")
           ELSE Stops(p) /\ UNCHANGED pact
        /\ UNCHANGED <<now, chain, drafts, bounds, history>>

\* The wallet sends a transaction of page p, which then waits for its receipt.
Sends(p, kind, c) ==
    /\ Len(queue) < MaxPending
    /\ queue' = Append(queue, [kind |-> kind, card |-> c, page |-> p])
    /\ Goes(p, "wait")
    /\ UNCHANGED <<now, cards, pact, drafts, bounds, history>>

SubmitOpening(p) == page[p].at = "submit" /\ Sends(p, "open", page[p].card)

\* 120 seconds have passed without a receipt.
GiveUp(p) ==
    /\ page[p].at = "wait"
    /\ queue' = Unwatched(p)
    /\ Stops(p)
    /\ UNCHANGED <<now, cards, pact, drafts, bounds, history>>

\* /payments/confirm-opening
ConfirmOpening(p) ==
    LET c == page[p].card
    IN  /\ page[p].at = "confirm"
        /\ IF Issued(c) /\ Bindable(c)
           THEN pact' = Activated(c) /\ Forget(c) /\ Shows(p, "opened")
           ELSE Stops(p) /\ UNCHANGED <<pact, drafts>>
        /\ UNCHANGED <<now, chain, bounds, history>>

-----------------------------------------------------------------------------
(* Proof: prove.                                                           *)

\* submitCheckpoint: the page always numbers its checkpoint 1.
Prove(p) ==
    /\ page[p].at = "idle" /\ page[p].phase = "opened"
    /\ pact.status = "active" /\ ~pact.checkpointed
    /\ pact' = [pact EXCEPT !.checkpointed = TRUE, !.status = "performing"]
    /\ Goes(p, "verifying")
    /\ UNCHANGED <<now, chain, drafts, bounds, history>>

\* verifyCheckpoint
Approve(p) ==
    /\ page[p].at = "verifying"
    /\ pact' = [pact EXCEPT !.approved = TRUE]
    /\ Shows(p, "proved")
    /\ UNCHANGED <<now, chain, drafts, bounds, history>>

\* The plugin cannot read the receipt and answers "rejected".
Reject(p) ==
    /\ page[p].at = "verifying" /\ failures < MaxFailures
    /\ failures' = failures + 1
    /\ pact' = [pact EXCEPT !.status = "disputed"]
    /\ Stops(p)
    /\ UNCHANGED <<now, chain, drafts, closes, others, history>>

-----------------------------------------------------------------------------
(* Settlement: settle.                                                     *)

Recording == {"observing", "observed"}

Unrecorded == DOMAIN cards[pact.paycard].payouts \ pact.recorded

Overlaps(p) == \E q \in Pages \ {p} : page[q].at \in Recording

\* /settlements/recover: the payouts nobody has recorded, then one by one, the
\* oldest first.
PressSettle(p) ==
    /\ page[p].at = "idle" /\ page[p].phase = "proved"
    /\ now >= Horizon(pact.paycard)
    /\ IF pact.status = "settled" THEN Shows(p, "settled")
       ELSE IF Unrecorded # {}
       THEN Turns(p, [page[p] EXCEPT !.at = "observing", !.todo = Unrecorded])
       ELSE ~ChainFinal(pact.paycard) /\ Goes(p, "send")
    /\ overlapped' = (overlapped \/ Overlaps(p))
    /\ UNCHANGED <<now, chain, pact, drafts, bounds, doubled>>

SubmitSettlement(p) == page[p].at = "send" /\ Sends(p, "settle", pact.paycard)

\* /settlements/record refuses a Pact without an approved proof.
ReportSettlement(p) ==
    /\ page[p].at = "report"
    /\ IF pact.approved THEN Goes(p, "observing") ELSE Stops(p)
    /\ overlapped' = (overlapped \/ (pact.approved /\ Overlaps(p)))
    /\ UNCHANGED <<now, chain, pact, drafts, bounds, doubled>>

\* verifySettlement's "final", from the settlements recorded when it was read;
\* faulty: this payout alone counts, or a closed Paycard is enough.
ReachesAlone(i) == PayoutSum(pact.paycard, {i}) >= Life
ReachesWhenClosed(i) == ChainFinal(pact.paycard)
Reaches(i) ==
    PayoutSum(pact.paycard, pact.recorded) + PayoutSum(pact.paycard, {i}) >= Life

\* A final observation is retried until the vault says so too.
ObserveSettlement(p) ==
    LET i == Min(page[p].todo)
    IN  /\ page[p].at = "observing"
        /\ Reaches(i) => ChainFinal(pact.paycard)
        /\ Turns(p, [page[p] EXCEPT !.at = "observed", !.final = Reaches(i)])
        /\ Local(p)

\* recordPactSettlement's transaction on the store.
RecordSettlement(p) ==
    LET i == Min(page[p].todo)
        rest == page[p].todo \ {i}
        status == IF page[p].final THEN "settled" ELSE pact.status
    IN  /\ page[p].at = "observed"
        /\ pact' = [pact EXCEPT !.recorded = @ \cup {i},
                                !.status = status]
        /\ IF rest = {}
           THEN Shows(p, IF status = "settled" THEN "settled" ELSE "proved")
           ELSE Turns(p, [page[p] EXCEPT !.at = "observing", !.todo = rest,
                                         !.final = FALSE])
        /\ UNCHANGED <<now, chain, drafts, bounds, history>>

-----------------------------------------------------------------------------
(* Failures.                                                               *)

\* An RPC call has failed thirty times: the request is answered by an error.
RequestFails(p) ==
    /\ page[p].at \in {"lookup", "draft", "drafting", "sign", "confirm",
                      "report", "observing", "observed"}
    /\ failures < MaxFailures
    /\ failures' = failures + 1
    /\ Stops(p)
    /\ UNCHANGED <<now, chain, pact, drafts, closes, others, history>>

\* The kernel's store is a file; paymentDrafts and the requests are not.
Restart ==
    /\ failures < MaxFailures
    /\ failures' = failures + 1
    /\ drafts' = <<>>
    /\ page' = [p \in Pages |->
           IF page[p].at \notin Served THEN page[p]
           ELSE IF page[p].phase = "left" THEN Closed ELSE Idle(page[p].phase)]
    /\ doubled' = doubled + Counted(Preparable /\ Reusable # {})
    /\ UNCHANGED <<now, chain, pact, closes, others, overlapped>>

-----------------------------------------------------------------------------
Init ==
    /\ now = 0
    /\ cards = << >>
    /\ queue = <<>>
    /\ pact = NewPact
    /\ drafts = <<>>
    /\ page = [p \in Pages |-> Closed]
    /\ closes = 0 /\ failures = 0 /\ others = 0
    /\ doubled = 0 /\ overlapped = FALSE

\* A page's next step, or the server's on its behalf.
Proceed(p) ==
    \/ RecoverOpening(p) \/ RequestDraft(p) \/ IssueDraft(p) \/ PreparePayment(p)
    \/ SubmitOpening(p) \/ ConfirmOpening(p) \/ Approve(p)
    \/ SubmitSettlement(p) \/ ReportSettlement(p)
    \/ ObserveSettlement(p) \/ RecordSettlement(p)

Press(p) == PressOpen(p) \/ Prove(p) \/ PressSettle(p)

Next ==
    \/ ClockTick \/ Mine
    \/ \E c \in DOMAIN cards : OthersSettle(c) \/ OthersFlush(c)
    \/ \E p \in Pages : \/ OpenPage(p) \/ Refresh(p) \/ ClosePage(p)
                        \/ Press(p) \/ Proceed(p) \/ GiveUp(p)
                        \/ Reject(p) \/ RequestFails(p)
    \/ Restart

\* Time passes and blocks are made; requests are served; the payer comes back,
\* presses the button on the screen and reloads a screen that is out of date.
Fairness ==
    /\ WF_vars(ClockTick) /\ WF_vars(Mine)
    /\ \A p \in Pages : /\ WF_vars(OpenPage(p)) /\ WF_vars(Press(p))
                        /\ WF_vars(Proceed(p)) /\ WF_vars(GiveUp(p))
                        /\ SF_vars(Refresh(p))

Spec == Init /\ [][Next]_vars
FairSpec == Spec /\ Fairness

-----------------------------------------------------------------------------
(* Properties.                                                             *)

disturbed == doubled > 0 \/ overlapped

\* The payer is charged once: whatever is closed, retried, delayed, expired or
\* reverted on the way, a Paycard that was opened is the one the Pact is bound
\* to, until two drafts are made at the same time, the server forgets a draft
\* that is out, or a Paycard comes and goes while a page is about to ask.
ChargedOnce == doubled = 0 => DOMAIN cards \subseteq {pact.paycard}

\* Where that happens, the payer may be charged again, but not more often than
\* it has happened: each further Paycard needs a cause of its own, and neither
\* repeated requests nor reloads, retries and reverts are one.
ChargedPerCause == Cardinality(DOMAIN cards) <= 1 + doubled

\* A Pact that reads settled was paid in full, and every payout is on record: a
\* flush is not taken for payment and no payout is counted for another, as long
\* as one recording is under way at a time.
SettledInFull ==
    (pact.status = "settled" /\ ~disturbed) =>
        LET c == pact.paycard
        IN  /\ pact.recorded = DOMAIN cards[c].payouts
            /\ PayoutSum(c, pact.recorded) = Life

\* A Pact whose payouts on record add up to its allocation reads settled (or
\* disputed), also when recordings overlap: each decides from what was on record
\* before its request, but the pages record the oldest payout first, so none of
\* them can take the last one for a partial one.
PaidReadsSettled ==
    Opened(pact.paycard) /\ PayoutSum(pact.paycard, pact.recorded) >= Life
        => pact.status \in {"settled", "disputed"}

\* A Paycard opened for the Pact is at last settled on record, through any
\* closing, failure and timeout, unless the proof is rejected (the page offers
\* no way on from a disputed Pact) or somebody flushes the Paycard.
EventuallySettled ==
    (Opened(pact.paycard) /\ ~disturbed)
        ~> \/ pact.status \in {"settled", "disputed"}
           \/ disturbed
           \/ \E c \in DOMAIN cards : cards[c].flushed
=============================================================================
