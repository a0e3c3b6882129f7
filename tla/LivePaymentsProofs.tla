------------------------- MODULE LivePaymentsProofs -------------------------
(***************************************************************************)
(* One Pact, one Paycard, paid in full: for any number of pages that are   *)
(* closed and reloaded, requests that fail, transactions that wait and     *)
(* settlements by others.                                                  *)
(*                                                                         *)
(* Two inductive invariants.  Kept holds whatever happens: every Paycard   *)
(* beyond the first, and every draft that could still become one, has a    *)
(* cause of its own (doubled).  CourseInv holds until something disturbs   *)
(* the course: one draft, one Paycard, and books that balance.             *)
(***************************************************************************)
EXTENDS LivePayments, FiniteSetTheorems, SequenceTheorems, WellFoundedInduction, TLAPS

Places == {"closed", "idle", "lookup", "draft", "drafting", "sign", "submit",
           "wait", "confirm", "verifying", "send", "report", "observing", "observed"}
Phases == {"pact", "opened", "proved", "settled", "left"}
PageState == [at : Places, phase : Phases, card : Card \cup {None}, nonce : Nat,
              todo : SUBSET Nat, final : BOOLEAN]
Transaction == [kind : {"open", "settle"}, card : Card \cup {None},
                page : Pages \cup {None}]
Forming == {"accepted", "payment_prepared"}
PactState == [status : Forming \cup {"active", "performing", "disputed", "settled"},
              paycard : Card \cup {None}, opened : BOOLEAN, checkpointed : BOOLEAN,
              approved : BOOLEAN, recorded : SUBSET Nat]
Entry == [left : Nat, since : Nat, payouts : Seq(Nat \ {0}), flushed : BOOLEAN]

TypesOK ==
    /\ now \in Nat
    /\ page \in [Pages -> PageState]
    /\ queue \in Seq(Transaction)
    /\ drafts \in Seq(Card)
    /\ pact \in PactState

-----------------------------------------------------------------------------
(* Opening.                                                                *)

Live(c) == now < Horizon(c)

Out == {drafts[i] : i \in 1..Len(drafts)}
Signing == {page[p].card : p \in At({"sign"})}
Sent == {page[p].card : p \in At({"submit"})}
        \cup {queue[i].card : i \in {j \in 1..Len(queue) : queue[j].kind = "open"}}
Afoot == Out \cup Signing \cup Sent

\* At most one draft can still open a Paycard; a draft that was sent is the one
\* the Pact was prepared for.
OneDraft ==
    /\ \A c \in Afoot : c \in Card /\ c.nonce = 0
    /\ \A c, d \in Afoot : Live(c) /\ Live(d) => c = d
    /\ \A c \in Sent : Live(c) => c = pact.paycard
    /\ \A p, q \in At({"drafting"}) : p = q
    /\ At({"drafting"}) # {} => \A c \in Out : ~Live(c)

\* Before the opening the server knows the draft; after it nothing else opens.
OneCard ==
    IF DOMAIN cards = {}
    THEN /\ \A c \in Afoot : Live(c) => c \in Out
         /\ \A p \in At({"drafting"}) : page[p].nonce = 0
         /\ At({"confirm"}) = {} /\ ~pact.opened
    ELSE /\ DOMAIN cards = {pact.paycard} /\ pact.paycard \in Card
         /\ \A c \in Afoot : Live(c) => c = pact.paycard

Ended == Horizon(pact.paycard) <= now

\* Where the Pact, its pages and its transactions may be once it is opened.
InPhase ==
    /\ pact.opened <=> pact.status \notin Forming
    /\ pact.approved => pact.opened
    /\ ~pact.opened =>
          /\ pact.recorded = {}
          /\ At({"verifying", "send", "report", "observing", "observed"}) = {}
          /\ \A p \in Pages : page[p].phase \in {"pact", "left"}
    /\ At({"send"}) # {} => Ended
    /\ \A i \in 1..Len(queue) : queue[i].kind = "settle" =>
          queue[i].card = pact.paycard /\ pact.opened /\ Ended

-----------------------------------------------------------------------------
(* Settling.                                                               *)

Paycard == cards[pact.paycard]
Payouts == 1..Len(Paycard.payouts)
Latest == Len(Paycard.payouts)
Total == PayoutSum(pact.paycard, Payouts)

\* Payouts and balance make up the allocation, or less once it was flushed.
Balanced ==
    /\ Paycard \in Entry
    /\ IsFiniteSet(Units(pact.paycard, Payouts))
    /\ Total + Paycard.left <= Life
    /\ Paycard.left > 0 => /\ Total + Paycard.left = Life
                           /\ Paycard.since + Paycard.left = Horizon(pact.paycard)

PaidUp == Paycard.left = 0 /\ Total = Life
AllRecorded == pact.recorded = Payouts

\* The payout of the last settlement comes last, and is recorded last unless its
\* sender reports it first.
Reports(p) ==
    /\ page[p].todo = {Latest} /\ Latest > 0 /\ PaidUp
    /\ Latest \in pact.recorded => AllRecorded

\* A recovery has no payout on its list that is recorded, and leaves out none
\* before those on its list.
InTurn(p) ==
    /\ page[p].todo \cap pact.recorded = {}
    /\ \A i \in page[p].todo, j \in Payouts \ (pact.recorded \cup page[p].todo) : i < j

Records(p) ==
    /\ page[p].todo # {} /\ page[p].todo \subseteq Payouts
    /\ InTurn(p) \/ (Reports(p) /\ At({"report"}) = {})
    /\ page[p].at = "observed" /\ page[p].final =>
          PaidUp /\ pact.recorded \cup {Min(page[p].todo)} = Payouts

Settling ==
    /\ pact.recorded \subseteq Payouts
    /\ \A p, q \in At({"report"}) : p = q
    /\ \A p, q \in At(Recording) : p = q
    /\ \A p \in At({"report"}) : Reports(p)
    /\ \A p \in At(Recording) : Records(p)
    /\ pact.status = "settled" => PaidUp /\ AllRecorded

Course ==
    /\ TypesOK /\ OneDraft /\ OneCard /\ InPhase
    /\ DOMAIN cards # {} => Balanced /\ Settling

CourseInv == ~disturbed => Course

USE PaymentsAssumption

-----------------------------------------------------------------------------
(* What stays when little changes.                                         *)

\* The fields of a page.
LEMMA PageFields ==
    ASSUME TypesOK, NEW p \in Pages
    PROVE  /\ page[p] \in PageState
           /\ page[p].at \in Places /\ page[p].phase \in Phases
           /\ page[p].card \in Card \cup {None} /\ page[p].nonce \in Nat
           /\ page[p].todo \subseteq Nat /\ page[p].final \in BOOLEAN
<1>1. page[p] \in PageState
  BY DEF TypesOK
<1> QED
  BY <1>1 DEF PageState

\* The fields of the Pact.
LEMMA PactFields ==
    ASSUME TypesOK
    PROVE  /\ pact.status \in Forming \cup {"active", "performing", "disputed", "settled"}
           /\ pact.paycard \in Card \cup {None} /\ pact.opened \in BOOLEAN
           /\ pact.checkpointed \in BOOLEAN /\ pact.approved \in BOOLEAN
           /\ pact.recorded \subseteq Nat
BY DEF TypesOK, PactState

\* A page that changes alone.
LEMMA OnePageTurns ==
    ASSUME TypesOK, NEW p \in Pages, NEW entry \in PageState, Turns(p, entry)
    PROVE  /\ page' \in [Pages -> PageState] /\ page'[p] = entry
           /\ \A q \in Pages : q # p => page'[q] = page[q]
BY DEF TypesOK, Turns

\* Fewer drafts about, the same Paycards: the first two parts stay.
LEMMA DraftsStay ==
    ASSUME OneDraft, OneCard,
           now' = now, DOMAIN cards' = DOMAIN cards, pact'.paycard = pact.paycard,
           Signing' \cup Sent' \subseteq Afoot, Sent' \subseteq Sent, Out' \subseteq Out,
           DOMAIN cards = {} => /\ \A c \in Out : Live(c) => c \in Out'
                                /\ ~pact'.opened /\ At({"confirm"})' = {},
           \A p \in At({"drafting"})' :
               p \in At({"drafting"}) /\ page'[p].nonce = page[p].nonce
    PROVE  OneDraft' /\ OneCard'
<1>1. Afoot' \subseteq Afoot
  BY DEF Afoot
<1>2. \A c : Live(c)' <=> Live(c)
  BY DEF Live, Horizon
<1>3. OneDraft'
  <2>1. \A c \in Afoot' : c \in Card /\ c.nonce = 0
    BY <1>1 DEF OneDraft
  <2>2. \A c, d \in Afoot' : Live(c)' /\ Live(d)' => c = d
    BY <1>1, <1>2 DEF OneDraft
  <2>3. \A c \in Sent' : Live(c)' => c = pact'.paycard
    BY <1>2 DEF OneDraft
  <2>4. \A p, q \in At({"drafting"})' : p = q
    BY DEF OneDraft
  <2>5. At({"drafting"})' # {} => \A c \in Out' : ~Live(c)'
    BY <1>2 DEF OneDraft
  <2> QED
    BY <2>1, <2>2, <2>3, <2>4, <2>5 DEF OneDraft
<1>4. OneCard'
  <2>1. CASE DOMAIN cards = {}
    <3>1. \A c \in Afoot' : Live(c)' => c \in Out'
      BY <1>1, <1>2, <2>1 DEF OneCard
    <3>2. \A p \in At({"drafting"})' : page'[p].nonce = 0
      BY <2>1 DEF OneCard
    <3> QED
      BY <2>1, <3>1, <3>2 DEF OneCard
  <2>2. CASE DOMAIN cards # {}
    BY <1>1, <1>2, <2>2 DEF OneCard
  <2> QED
    BY <2>1, <2>2
<1> QED
  BY <1>3, <1>4

\* The same payouts and records, fewer pages at work on them: settling goes on.
LEMMA SettlingStays ==
    ASSUME Settling, pact'.paycard = pact.paycard,
           pact'.recorded = pact.recorded,
           pact'.status = "settled" => pact.status = "settled",
           cards'[pact.paycard] = cards[pact.paycard],
           \A p \in At({"report"} \cup Recording)' :
               /\ p \in Pages
               /\ page'[p].at = page[p].at /\ page'[p].todo = page[p].todo
               /\ page'[p].final = page[p].final
    PROVE  Settling'
<1>1. /\ Paycard' = Paycard /\ Payouts' = Payouts /\ Latest' = Latest
      /\ Units(pact.paycard, Payouts)' = Units(pact.paycard, Payouts)
  BY DEF Paycard, Payouts, Latest, Units
<1>2. Total' = Total
  BY <1>1 DEF Total, PayoutSum
<1>3. (PaidUp' <=> PaidUp) /\ (AllRecorded' <=> AllRecorded)
  BY <1>1, <1>2 DEF PaidUp, AllRecorded
<1>4. \A p \in At({"report"})' : p \in At({"report"}) /\ page'[p].todo = page[p].todo
  BY DEF At
<1>5. \A p \in At(Recording)' :
          /\ p \in At(Recording) /\ page'[p].todo = page[p].todo
          /\ page'[p].at = page[p].at /\ page'[p].final = page[p].final
  BY DEF At
<1>6. ASSUME NEW p \in Pages, page'[p].todo = page[p].todo
      PROVE  (Reports(p)' <=> Reports(p)) /\ (InTurn(p)' <=> InTurn(p))
  BY <1>1, <1>3, <1>6 DEF Reports, InTurn
<1>7. \A p \in At({"report"})' : Reports(p)'
  <2>1. \A p \in At({"report"})' : p \in Pages
    BY DEF At
  <2> QED
    BY <1>4, <1>6, <2>1 DEF Settling
<1>8. ASSUME NEW p \in At(Recording)' PROVE Records(p)'
  <2>1. p \in Pages /\ p \in At(Recording) /\ page'[p].todo = page[p].todo
        /\ page'[p].at = page[p].at /\ page'[p].final = page[p].final
    BY <1>5, <1>8 DEF At
  <2>2. Records(p)
    BY <2>1 DEF Settling
  <2>3. At({"report"}) = {} => At({"report"})' = {}
    BY <1>4
  <2> QED
    BY <1>1, <1>3, <1>6, <2>1, <2>2, <2>3 DEF Records
<1> QED
  BY <1>1, <1>3, <1>4, <1>5, <1>7, <1>8 DEF Settling

-----------------------------------------------------------------------------
(* Pages that stop, close or wait.                                         *)

Quiet == {"closed", "idle", "lookup", "draft", "wait"}

\* Page q goes on as before (or has been left), or to a place where nothing is
\* promised of it.
Drops(q) ==
    \/ /\ page'[q].at = page[q].at /\ page'[q].card = page[q].card
       /\ page'[q].nonce = page[q].nonce /\ page'[q].todo = page[q].todo
       /\ page'[q].final = page[q].final
       /\ page'[q].phase \in {page[q].phase, "left"}
    \/ /\ page'[q].at \in Quiet
       /\ page'[q].phase \in {"pact", "left"} \/ pact.opened

\* The queue keeps its transactions, whoever waits for them.
SameQueue ==
    /\ queue' \in Seq(Transaction) /\ Len(queue') = Len(queue)
    /\ \A i \in 1..Len(queue) :
          queue'[i].kind = queue[i].kind /\ queue'[i].card = queue[i].card

\* The places of pages that drop.
LEMMA PlacesAfterDrops ==
    ASSUME \A q \in Pages : Drops(q)
    PROVE  \A S : S \cap Quiet = {} =>
               \A p \in At(S)' :
                   /\ p \in Pages /\ p \in At(S)
                   /\ page'[p].at = page[p].at /\ page'[p].card = page[p].card
                   /\ page'[p].nonce = page[p].nonce /\ page'[p].todo = page[p].todo
                   /\ page'[p].final = page[p].final
<1> SUFFICES ASSUME NEW S, S \cap Quiet = {}, NEW p \in At(S)'
             PROVE  /\ p \in Pages /\ p \in At(S)
                    /\ page'[p].at = page[p].at /\ page'[p].card = page[p].card
                    /\ page'[p].nonce = page[p].nonce /\ page'[p].todo = page[p].todo
                    /\ page'[p].final = page[p].final
  OBVIOUS
<1>1. p \in Pages /\ page'[p].at \in S
  BY DEF At
<1>2. page'[p].at \notin Quiet
  BY <1>1
<1> QED
  BY <1>1, <1>2 DEF Drops, At

\* Nothing is promised of pages that drop, so the course is kept; a server that
\* forgets its drafts may forget expired ones, and all when a Paycard is open.
LEMMA DropsKeep ==
    ASSUME Course, page' \in [Pages -> PageState], \A q \in Pages : Drops(q),
           SameQueue, UNCHANGED <<now, cards, pact>>,
           drafts' \in Seq(Card), Out' \subseteq Out,
           DOMAIN cards = {} => \A c \in Out : Live(c) => c \in Out'
    PROVE  Course'
<1> USE DEF Course
<1>1. TypesOK'
  BY DEF TypesOK, SameQueue
<1>2. \A S : S \cap Quiet = {} =>
          \A p \in At(S)' :
              /\ p \in Pages /\ p \in At(S)
              /\ page'[p].at = page[p].at /\ page'[p].card = page[p].card
              /\ page'[p].nonce = page[p].nonce /\ page'[p].todo = page[p].todo
              /\ page'[p].final = page[p].final
  BY PlacesAfterDrops
<1>3. Signing' \subseteq Signing
  <2>1. {"sign"} \cap Quiet = {}
    BY DEF Quiet
  <2> QED
    BY <1>2, <2>1 DEF Signing
<1>4. Sent' \subseteq Sent
  <2>1. {"submit"} \cap Quiet = {}
    BY DEF Quiet
  <2>2. {page'[p].card : p \in At({"submit"})'} \subseteq {page[p].card : p \in At({"submit"})}
    BY <1>2, <2>1
  <2>3. 1..Len(queue') = 1..Len(queue)
    BY DEF SameQueue
  <2>4. {queue'[i].card : i \in {j \in 1..Len(queue') : queue'[j].kind = "open"}}
          \subseteq {queue[i].card : i \in {j \in 1..Len(queue) : queue[j].kind = "open"}}
    BY <2>3 DEF SameQueue
  <2> QED
    BY <2>2, <2>4 DEF Sent
<1>5. OneDraft' /\ OneCard'
  <2>1. {"drafting"} \cap Quiet = {} /\ {"confirm"} \cap Quiet = {}
    BY DEF Quiet
  <2>2. \A p \in At({"drafting"})' :
            p \in At({"drafting"}) /\ page'[p].nonce = page[p].nonce
    BY <1>2, <2>1
  <2>3. \A p \in At({"confirm"})' : p \in At({"confirm"})
    BY <1>2, <2>1
  <2>4. DOMAIN cards = {} => ~pact'.opened /\ At({"confirm"})' = {}
    BY <2>3 DEF OneCard
  <2> QED
    BY <1>3, <1>4, <2>2, <2>4, DraftsStay DEF Afoot
<1>6. InPhase'
  <2> DEFINE Busy == {"verifying", "send", "report", "observing", "observed"}
  <2>1. Busy \cap Quiet = {} /\ {"send"} \cap Quiet = {}
    BY DEF Quiet
  <2>2. (\A p \in At(Busy)' : p \in At(Busy)) /\ (\A p \in At({"send"})' : p \in At({"send"}))
    BY <1>2, <2>1
  <2>3. ASSUME ~pact.opened, NEW p \in Pages PROVE page'[p].phase \in {"pact", "left"}
    BY <2>3 DEF Drops, InPhase
  <2>4. Ended' <=> Ended
    BY DEF Ended, Horizon
  <2>5. \A j \in 1..Len(queue') : queue'[j].kind = "settle" =>
            queue'[j].card = pact'.paycard /\ pact'.opened /\ Ended'
    BY <2>4 DEF SameQueue, InPhase
  <2>6. At({"send"})' # {} => Ended'
    BY <2>2, <2>4 DEF InPhase
  <2>7. ~pact'.opened => /\ pact'.recorded = {} /\ At(Busy)' = {}
                         /\ \A p \in Pages : page'[p].phase \in {"pact", "left"}
    BY <2>2, <2>3 DEF InPhase
  <2> QED
    BY <2>5, <2>6, <2>7 DEF InPhase
<1>7. DOMAIN cards' # {} => Balanced' /\ Settling'
  <2> SUFFICES ASSUME DOMAIN cards # {} PROVE Balanced' /\ Settling'
    OBVIOUS
  <2>1. Balanced'
    BY DEF Balanced, Paycard, Payouts, Total, PayoutSum, Units, Horizon
  <2>2. ({"report"} \cup Recording) \cap Quiet = {}
    BY DEF Quiet, Recording
  <2>3. \A p \in At({"report"} \cup Recording)' :
            /\ p \in Pages
            /\ page'[p].at = page[p].at /\ page'[p].todo = page[p].todo
            /\ page'[p].final = page[p].final
    BY <1>2, <2>2
  <2> QED
    BY <2>1, <2>3, SettlingStays
<1> QED
  BY <1>1, <1>5, <1>6, <1>7

\* An idle page, and a closed one.
LEMMA IdleIsPage ==
    ASSUME NEW phase \in Phases
    PROVE  /\ Idle(phase) \in PageState /\ Idle(phase).at = "idle"
           /\ Idle(phase).phase = phase
           /\ Closed \in PageState /\ Closed.at = "closed" /\ Closed.phase = "pact"
<1>1. /\ Idle(phase) \in PageState /\ Idle(phase).at = "idle"
      /\ Idle(phase).phase = phase
  BY DEF Idle, PageState, Places
<1>2. Idle("pact") \in PageState
  BY DEF Idle, PageState, Places, Phases
<1>3. Closed \in PageState /\ Closed.at = "closed" /\ Closed.phase = "pact"
  BY <1>2 DEF Closed, Idle, PageState, Places, Phases
<1> QED
  BY <1>1, <1>3

\* One page that turns to a quiet place drops.
LEMMA QuietDrops ==
    ASSUME TypesOK, NEW p \in Pages, NEW entry \in PageState, Turns(p, entry),
           entry.at \in Quiet, entry.phase \in {"pact", "left"} \/ pact.opened
    PROVE  page' \in [Pages -> PageState] /\ \A q \in Pages : Drops(q)
BY OnePageTurns DEF Drops

\* A page that goes on to another place keeps the rest.
LEMMA GoesFields ==
    ASSUME TypesOK, NEW p \in Pages, NEW at \in Places, Goes(p, at)
    PROVE  /\ page' \in [Pages -> PageState]
           /\ page'[p] = [page[p] EXCEPT !.at = at]
           /\ page'[p].at = at /\ page'[p].phase = page[p].phase
           /\ page'[p].card = page[p].card /\ page'[p].nonce = page[p].nonce
           /\ page'[p].todo = page[p].todo /\ page'[p].final = page[p].final
           /\ \A q \in Pages : q # p => page'[q] = page[q]
<1> DEFINE x == [page[p] EXCEPT !.at = at]
<1>1. /\ x \in PageState /\ x.at = at /\ x.phase = page[p].phase
      /\ x.card = page[p].card /\ x.nonce = page[p].nonce
      /\ x.todo = page[p].todo /\ x.final = page[p].final
  BY PageFields DEF PageState
<1>2. Turns(p, x)
  BY DEF Goes
<1> HIDE DEF x
<1>3. page' \in [Pages -> PageState] /\ page'[p] = x
      /\ \A q \in Pages : q # p => page'[q] = page[q]
  BY <1>1, <1>2, OnePageTurns
<1> QED
  BY <1>1, <1>3 DEF x

\* A request that ends drops its page.
LEMMA ShowsDrops ==
    ASSUME TypesOK, InPhase, NEW p \in Pages, NEW phase \in Phases, Shows(p, phase),
           phase \in {"pact", "left"} \/ pact.opened
    PROVE  page' \in [Pages -> PageState] /\ \A q \in Pages : Drops(q)
<1> DEFINE entry == IF page[p].phase = "left" THEN Closed ELSE Idle(phase)
<1>1. Turns(p, entry)
  BY DEF Shows
<1>2. /\ entry \in PageState /\ entry.at \in Quiet
      /\ entry.phase \in {"pact", "left"} \/ pact.opened
  BY IdleIsPage DEF Quiet
<1> HIDE DEF entry
<1> QED
  BY <1>1, <1>2, QuietDrops

\* So does one that ends as it began.
LEMMA StopsDrops ==
    ASSUME TypesOK, InPhase, NEW p \in Pages, Stops(p)
    PROVE  page' \in [Pages -> PageState] /\ \A q \in Pages : Drops(q)
<1>1. page[p].phase \in Phases /\ Shows(p, page[p].phase)
  BY PageFields DEF Stops
<1>2. page[p].phase \in {"pact", "left"} \/ pact.opened
  BY DEF InPhase
<1> QED
  BY <1>1, <1>2, ShowsDrops

\* What the screen shows of the Pact.
LEMMA PactPhaseIs ==
    ASSUME TypesOK, InPhase
    PROVE  PactPhase \in Phases /\ (PactPhase = "pact" \/ pact.opened)
BY PactFields DEF PactPhase, Phases, InPhase, Forming

\* The queue loses nothing when a page does not wait any more.
LEMMA UnwatchedSame ==
    ASSUME TypesOK, NEW p \in Pages, queue' = Unwatched(p) \/ queue' = queue
    PROVE  SameQueue
<1>1. queue \in Seq(Transaction)
  BY DEF TypesOK
<1>2. CASE queue' = queue
  BY <1>1, <1>2 DEF SameQueue
<1>3. CASE queue' = Unwatched(p)
  <2>1. \A i \in 1..Len(queue) : queue[i] \in Transaction
    BY <1>1
  <2>2. \A i \in 1..Len(queue) :
            /\ [queue[i] EXCEPT !.page = None] \in Transaction
            /\ [queue[i] EXCEPT !.page = None].kind = queue[i].kind
            /\ [queue[i] EXCEPT !.page = None].card = queue[i].card
    BY <2>1 DEF Transaction
  <2>3. Len(queue) \in Nat /\ DOMAIN queue = 1..Len(queue)
    BY <1>1
  <2>4. \A i \in 1..Len(queue) : queue'[i] = IF queue[i].page = p
                THEN [queue[i] EXCEPT !.page = None] ELSE queue[i]
    BY <1>3, <2>3 DEF Unwatched
  <2>5. queue' \in [1..Len(queue) -> Transaction]
    BY <1>3, <2>1, <2>2, <2>3 DEF Unwatched
  <2>6. queue' \in Seq(Transaction) /\ Len(queue') = Len(queue)
    BY <2>3, <2>5
  <2> QED
    BY <2>2, <2>4, <2>6 DEF SameQueue
<1> QED
  BY <1>2, <1>3

\* Pages drop, and nothing else happens.
LEMMA OnlyDrops ==
    ASSUME Course, page' \in [Pages -> PageState], \A q \in Pages : Drops(q),
           SameQueue, UNCHANGED <<now, cards, pact, drafts>>
    PROVE  Course'
<1>1. drafts' \in Seq(Card) /\ Out' = Out
  BY DEF Course, TypesOK, Out
<1> QED
  BY <1>1, DropsKeep

\* A request that ends without an effect.
LEMMA EndsKeep ==
    ASSUME Course, NEW p \in Pages, UNCHANGED <<now, cards, pact, drafts>>,
           Stops(p) \/ \E phase \in Phases : Shows(p, phase) /\ pact.opened,
           queue' = Unwatched(p) \/ queue' = queue
    PROVE  Course'
<1>1. page' \in [Pages -> PageState] /\ \A q \in Pages : Drops(q)
  <2>1. TypesOK /\ InPhase
    BY DEF Course
  <2>2. CASE Stops(p)
    BY <2>1, <2>2, StopsDrops
  <2>3. CASE \E phase \in Phases : Shows(p, phase) /\ pact.opened
    BY <2>1, <2>3, ShowsDrops
  <2> QED
    BY <2>2, <2>3
<1>2. SameQueue
  BY UnwatchedSame DEF Course
<1> QED
  BY <1>1, <1>2, OnlyDrops

\* A page that goes where nothing is promised of it.
LEMMA GoesKeep ==
    ASSUME Course, NEW p \in Pages, NEW at \in Quiet, Goes(p, at),
           UNCHANGED <<now, cards, pact, drafts, queue>>
    PROVE  Course'
<1>1. TypesOK /\ InPhase /\ at \in Places
  BY DEF Course, Quiet, Places
<1>2. page' \in [Pages -> PageState] /\ page'[p].at = at /\ page'[p].phase = page[p].phase
      /\ \A q \in Pages : q # p => page'[q] = page[q]
  BY <1>1, GoesFields
<1>3. page[p].phase \in {"pact", "left"} \/ pact.opened
  BY <1>1 DEF InPhase
<1>4. \A q \in Pages : Drops(q)
  <2>1. Drops(p)
    BY <1>2, <1>3 DEF Drops
  <2>2. ASSUME NEW q \in Pages, q # p PROVE Drops(q)
    BY <1>2, <2>2 DEF Drops
  <2> QED
    BY <2>1, <2>2
<1>5. SameQueue
  BY <1>1, UnwatchedSame
<1> QED
  BY <1>2, <1>4, <1>5, OnlyDrops

\* Opening or reloading a page.
LEMMA OpenPageKeeps ==
    ASSUME Course, NEW p \in Pages, OpenPage(p) \/ Refresh(p)
    PROVE  Course'
<1>1. TypesOK /\ InPhase /\ PactPhase \in Phases /\ (PactPhase = "pact" \/ pact.opened)
  BY PactPhaseIs DEF Course
<1>2. Turns(p, Idle(PactPhase)) /\ UNCHANGED <<now, cards, pact, drafts, queue>>
  BY DEF OpenPage, Refresh, Local, chain
<1>3. /\ Idle(PactPhase) \in PageState /\ Idle(PactPhase).at \in Quiet
      /\ Idle(PactPhase).phase \in {"pact", "left"} \/ pact.opened
  BY <1>1, IdleIsPage DEF Quiet
<1>4. page' \in [Pages -> PageState] /\ \A q \in Pages : Drops(q)
  BY <1>1, <1>2, <1>3, QuietDrops
<1> QED
  BY <1>1, <1>2, <1>4, UnwatchedSame, OnlyDrops

\* Closing a busy page.
LEMMA ClosePageKeeps ==
    ASSUME Course, NEW p \in Pages, ClosePage(p)
    PROVE  Course'
<1>1. TypesOK /\ InPhase
  BY DEF Course
<1> DEFINE x == [page[p] EXCEPT !.phase = "left"]
<1>2. /\ x \in PageState /\ x.at = page[p].at /\ x.phase = "left"
      /\ x.card = page[p].card /\ x.nonce = page[p].nonce
      /\ x.todo = page[p].todo /\ x.final = page[p].final
  BY <1>1, PageFields DEF PageState, Phases
<1>3. Turns(p, x) \/ Turns(p, Closed)
  BY DEF ClosePage
<1>4. UNCHANGED <<now, cards, pact, drafts>> /\ queue' = Unwatched(p)
  BY DEF ClosePage
<1> HIDE DEF x
<1>5. page' \in [Pages -> PageState] /\ \A q \in Pages : Drops(q)
  <2>1. CASE Turns(p, x)
    <3>1. page' \in [Pages -> PageState] /\ page'[p] = x
          /\ \A q \in Pages : q # p => page'[q] = page[q]
      BY <1>1, <1>2, <2>1, OnePageTurns
    <3> QED
      BY <1>2, <3>1 DEF Drops
  <2>2. CASE Turns(p, Closed)
    <3>1. "pact" \in Phases
      BY DEF Phases
    <3>2. Closed \in PageState /\ Closed.at \in Quiet /\ Closed.phase = "pact"
      BY <3>1, IdleIsPage DEF Quiet
    <3> QED
      BY <1>1, <2>2, <3>2, QuietDrops
  <2> QED
    BY <1>3, <2>1, <2>2
<1> QED
  BY <1>1, <1>4, <1>5, UnwatchedSame, OnlyDrops

\* Pressing the button that opens.
LEMMA PressOpenKeeps ==
    ASSUME Course, NEW p \in Pages, PressOpen(p)
    PROVE  Course'
<1>1. Goes(p, "lookup") \/ Goes(p, "draft")
  BY DEF PressOpen
<1>2. UNCHANGED <<now, cards, pact, drafts, queue>>
  BY DEF PressOpen, Local, chain
<1>3. "lookup" \in Quiet /\ "draft" \in Quiet
  BY DEF Quiet
<1> QED
  BY <1>1, <1>2, <1>3, GoesKeep

\* A failure of a request, and a page that gives up waiting.
LEMMA FailureKeeps ==
    ASSUME Course, NEW p \in Pages, RequestFails(p) \/ GiveUp(p)
    PROVE  Course'
<1>1. UNCHANGED <<now, cards, pact, drafts>> /\ Stops(p)
      /\ (queue' = Unwatched(p) \/ queue' = queue)
  BY DEF RequestFails, GiveUp, chain
<1> QED
  BY <1>1, EndsKeep

\* A restart of the server, with no draft out that is lost.
LEMMA RestartKeeps ==
    ASSUME Course, Restart, Preparable => Reusable = {}
    PROVE  Course'
<1>1. TypesOK /\ InPhase
  BY DEF Course
<1>2. UNCHANGED <<now, cards, pact, queue>> /\ drafts' = <<>>
      /\ (Reusable = {} \/ pact.opened)
  <2>1. Preparable <=> pact.status \in Forming
    BY DEF Preparable, Forming
  <2> QED
    BY <1>1, <2>1 DEF Restart, chain, InPhase
<1>3. \A q \in Pages : page'[q] \in PageState /\ Drops(q)
  <2> SUFFICES ASSUME NEW q \in Pages PROVE page'[q] \in PageState /\ Drops(q)
    OBVIOUS
  <2>1. page[q] \in PageState /\ page[q].phase \in Phases
    BY <1>1, PageFields
  <2>2. page[q].phase \in {"pact", "left"} \/ pact.opened
    BY <1>1 DEF InPhase
  <2>3. page'[q] = IF page[q].at \notin Served THEN page[q]
            ELSE IF page[q].phase = "left" THEN Closed ELSE Idle(page[q].phase)
    BY DEF Restart
  <2>4. CASE page'[q] = page[q]
    BY <2>1, <2>4 DEF Drops
  <2>5. CASE page'[q] = Closed \/ page'[q] = Idle(page[q].phase)
    <3>1. page'[q] \in PageState /\ page'[q].at \in Quiet
          /\ page'[q].phase \in {"pact", page[q].phase}
      BY <2>1, <2>5, IdleIsPage DEF Quiet
    <3> QED
      BY <2>2, <3>1 DEF Drops
  <2> QED
    BY <2>3, <2>4, <2>5
<1>4. page' \in [Pages -> PageState]
  BY <1>3 DEF Restart
<1>5. drafts' \in Seq(Card) /\ Out' = {}
  BY <1>2 DEF Out
<1>6. ASSUME DOMAIN cards = {}, NEW c \in Out PROVE ~Live(c)
  <2>1. ~pact.opened
    BY <1>6 DEF Course, OneCard
  <2>2. PICK i \in 1..Len(drafts) : drafts[i] = c
    BY <1>6 DEF Out
  <2>3. i \in DOMAIN drafts /\ drafts[i] \in Card
    BY <1>1, <2>2 DEF TypesOK
  <2>4. ~(Horizon(drafts[i]) > now)
    BY <1>2, <2>1, <2>3 DEF Reusable
  <2>5. Horizon(c) \in Nat /\ now \in Nat
    BY <1>1, <2>2, <2>3 DEF TypesOK, Horizon, Card
  <2> QED
    BY <2>2, <2>4, <2>5 DEF Live
<1>7. SameQueue
  BY <1>1, <1>2 DEF SameQueue, TypesOK
<1> QED
  BY <1>2, <1>3, <1>4, <1>5, <1>6, <1>7, DropsKeep

-----------------------------------------------------------------------------
(* Pages that go on, with the same Paycards.                               *)

Busy == {"verifying", "send", "report", "observing", "observed"}

\* Where the pages are when one of them has turned.
LEMMA PlacesAfterTurn ==
    ASSUME TypesOK, NEW p \in Pages, NEW x \in PageState, Turns(p, x)
    PROVE  /\ page' \in [Pages -> PageState] /\ page'[p] = x
           /\ \A q \in Pages : q # p => page'[q] = page[q]
           /\ \A S : \A q \in At(S)' :
                  /\ q \in Pages
                  /\ \/ q = p /\ x.at \in S
                     \/ q # p /\ q \in At(S) /\ page'[q] = page[q]
<1>1. /\ page' \in [Pages -> PageState] /\ page'[p] = x
      /\ \A q \in Pages : q # p => page'[q] = page[q]
  BY OnePageTurns
<1>2. ASSUME NEW S, NEW q \in At(S)'
      PROVE  /\ q \in Pages
             /\ \/ q = p /\ x.at \in S
                \/ q # p /\ q \in At(S) /\ page'[q] = page[q]
  <2>1. q \in Pages /\ page'[q].at \in S
    BY <1>2 DEF At
  <2>2. CASE q = p
    BY <1>1, <2>1, <2>2
  <2>3. CASE q # p
    BY <1>1, <2>1, <2>3 DEF At
  <2> QED
    BY <2>2, <2>3
<1> QED
  BY <1>1, <1>2

\* The Pact is opened, or nobody is past the opening.
LEMMA PhaseStays ==
    ASSUME TypesOK, InPhase, NEW p \in Pages, NEW x \in PageState, Turns(p, x),
           now' = now, pact' \in PactState,
           pact'.opened <=> pact'.status \notin Forming,
           pact'.approved => pact'.opened,
           pact'.paycard = pact.paycard \/ ~pact.opened,
           pact.opened => pact'.opened,
           ~pact'.opened => /\ pact'.recorded = {} /\ x.at \notin Busy
                            /\ x.phase \in {"pact", "left"},
           x.at = "send" => Ended' /\ pact'.opened,
           \A i \in 1..Len(queue') : queue'[i].kind = "settle" =>
               \/ /\ i \in 1..Len(queue) /\ queue'[i].kind = queue[i].kind
                  /\ queue'[i].card = queue[i].card
               \/ queue'[i].card = pact'.paycard /\ pact'.opened /\ Ended'
    PROVE  InPhase'
<1>1. /\ page'[p] = x
      /\ \A q \in Pages : q # p => page'[q] = page[q]
      /\ \A S : \A q \in At(S)' :
             /\ q \in Pages
             /\ \/ q = p /\ x.at \in S
                \/ q # p /\ q \in At(S) /\ page'[q] = page[q]
  BY PlacesAfterTurn
<1>2. pact.opened => (Ended => Ended')
  BY DEF Ended, Horizon
<1>3. ASSUME ~pact'.opened
      PROVE  /\ pact'.recorded = {} /\ At(Busy)' = {}
             /\ \A q \in Pages : page'[q].phase \in {"pact", "left"}
  <2>1. ~pact.opened /\ At(Busy) = {}
    BY <1>3 DEF InPhase, Busy
  <2>2. At(Busy)' = {}
    BY <1>1, <1>3, <2>1
  <2>3. \A q \in Pages : page'[q].phase \in {"pact", "left"}
    BY <1>1, <1>3, <2>1 DEF InPhase
  <2> QED
    BY <1>3, <2>2, <2>3
<1>4. At({"send"})' # {} => Ended'
  <2> SUFFICES ASSUME NEW q \in At({"send"})' PROVE Ended'
    OBVIOUS
  <2>1. CASE q = p /\ x.at \in {"send"}
    BY <2>1
  <2>2. CASE q \in At({"send"})
    <3>1. At(Busy) # {}
      BY <2>2 DEF At, Busy
    <3> QED
      BY <1>2, <2>2, <3>1 DEF InPhase, Busy
  <2> QED
    BY <1>1, <2>1, <2>2
<1>5. ASSUME NEW i \in 1..Len(queue'), queue'[i].kind = "settle"
      PROVE  queue'[i].card = pact'.paycard /\ pact'.opened /\ Ended'
  BY <1>2, <1>5 DEF InPhase
<1> QED
  BY <1>3, <1>4, <1>5 DEF InPhase, Busy

\* A page that moves on, not to record, with the same payouts and records.
LEMMA MoveKeeps ==
    ASSUME Course, NEW p \in Pages, NEW x \in PageState, Turns(p, x),
           x.at \notin {"report"} \cup Recording,
           now' = now, cards' = cards, drafts' \in Seq(Card),
           queue' \in Seq(Transaction), pact' \in PactState,
           pact'.paycard = pact.paycard, pact'.recorded = pact.recorded,
           pact'.status = "settled" => pact.status = "settled",
           OneDraft', OneCard', InPhase'
    PROVE  Course'
<1>1. TypesOK
  BY DEF Course
<1>2. /\ page' \in [Pages -> PageState]
      /\ \A S : \A q \in At(S)' :
             /\ q \in Pages
             /\ \/ q = p /\ x.at \in S
                \/ q # p /\ q \in At(S) /\ page'[q] = page[q]
  BY <1>1, PlacesAfterTurn
<1>3. TypesOK'
  BY <1>1, <1>2 DEF TypesOK
<1>4. ASSUME DOMAIN cards # {} PROVE Balanced' /\ Settling'
  <2>1. Balanced /\ Settling
    BY <1>4 DEF Course
  <2>2. Balanced'
    BY <2>1 DEF Balanced, Paycard, Payouts, Total, PayoutSum, Units, Horizon
  <2>3. \A q \in At({"report"} \cup Recording)' :
            q \in Pages /\ page'[q] = page[q]
    BY <1>2
  <2>4. Settling'
    BY <2>1, <2>3, SettlingStays
  <2> QED
    BY <2>2, <2>4
<1> QED
  BY <1>3, <1>4 DEF Course

\* What the pages sign and have sent, when one of them has turned.
LEMMA AfootAfterTurn ==
    ASSUME TypesOK, NEW p \in Pages, NEW x \in PageState, Turns(p, x),
           \A i \in 1..Len(queue') : queue'[i].kind = "open" => queue'[i].card \in Sent
    PROVE  /\ Signing' \subseteq Signing \cup (IF x.at = "sign" THEN {x.card} ELSE {})
           /\ Sent' \subseteq Sent \cup (IF x.at = "submit" THEN {x.card} ELSE {})
<1>1. /\ page'[p] = x
      /\ \A S : \A q \in At(S)' :
             /\ q \in Pages
             /\ \/ q = p /\ x.at \in S
                \/ q # p /\ q \in At(S) /\ page'[q] = page[q]
  BY PlacesAfterTurn
<1>2. Signing' \subseteq Signing \cup (IF x.at = "sign" THEN {x.card} ELSE {})
  <2> SUFFICES ASSUME NEW q \in At({"sign"})'
               PROVE  page'[q].card \in Signing \cup (IF x.at = "sign" THEN {x.card} ELSE {})
    BY DEF Signing
  <2> QED
    BY <1>1 DEF Signing
<1>3. \A q \in At({"submit"})' :
          page'[q].card \in Sent \cup (IF x.at = "submit" THEN {x.card} ELSE {})
  BY <1>1 DEF Sent
<1>4. \A i \in {j \in 1..Len(queue') : queue'[j].kind = "open"} : queue'[i].card \in Sent
  OBVIOUS
<1> DEFINE now_sent == Sent \cup (IF x.at = "submit" THEN {x.card} ELSE {})
<1>5. ASSUME NEW c \in Sent' PROVE c \in now_sent
  <2>1. CASE c \in {page'[q].card : q \in At({"submit"})'}
    BY <1>3, <2>1
  <2>2. CASE c \in {queue'[i].card : i \in {j \in 1..Len(queue') : queue'[j].kind = "open"}}
    BY <1>4, <2>2
  <2> QED
    BY <1>5, <2>1, <2>2 DEF Sent
<1> QED
  BY <1>2, <1>5

\* A page that moves on with a draft it had, or with one that is out.
LEMMA DraftsAfterTurn ==
    ASSUME Course, NEW p \in Pages, NEW x \in PageState, Turns(p, x),
           now' = now, cards' = cards, pact'.paycard = pact.paycard, Out' \subseteq Out,
           \A i \in 1..Len(queue') : queue'[i].kind = "open" => queue'[i].card \in Sent,
           x.at \notin {"drafting", "confirm"},
           x.at = "sign" => x.card \in Afoot,
           x.at = "submit" => x.card \in Sent,
           DOMAIN cards = {} => ~pact'.opened /\ \A c \in Out : Live(c) => c \in Out'
    PROVE  OneDraft' /\ OneCard'
<1>1. TypesOK /\ OneDraft /\ OneCard
  BY DEF Course
<1>2. /\ page'[p] = x
      /\ \A S : \A q \in At(S)' :
             /\ q \in Pages
             /\ \/ q = p /\ x.at \in S
                \/ q # p /\ q \in At(S) /\ page'[q] = page[q]
  BY <1>1, PlacesAfterTurn
<1>3. Signing' \cup Sent' \subseteq Afoot /\ Sent' \subseteq Sent
  BY <1>1, AfootAfterTurn DEF Afoot
<1>4. \A q \in At({"drafting"})' :
          q \in At({"drafting"}) /\ page'[q].nonce = page[q].nonce
  BY <1>2
<1>5. \A q \in At({"confirm"})' : q \in At({"confirm"})
  BY <1>2
<1>6. DOMAIN cards = {} => At({"confirm"})' = {}
  BY <1>1, <1>5 DEF OneCard
<1> QED
  BY <1>1, <1>3, <1>4, <1>6, DraftsStay

\* The transactions of a queue that stays.
LEMMA SameSent ==
    ASSUME TypesOK, queue' = queue
    PROVE  /\ queue' \in Seq(Transaction)
           /\ \A i \in 1..Len(queue') : queue'[i].kind = "open" => queue'[i].card \in Sent
           /\ \A i \in 1..Len(queue') : queue'[i].kind = "settle" =>
                  /\ i \in 1..Len(queue) /\ queue'[i].kind = queue[i].kind
                  /\ queue'[i].card = queue[i].card
BY DEF TypesOK, Sent

\* A page that moves on with the same queue and drafts; the Pact may go on.
LEMMA PactGoesOn ==
    ASSUME Course, NEW p \in Pages, NEW x \in PageState, Turns(p, x),
           x.at \notin {"report", "drafting", "confirm"} \cup Recording,
           UNCHANGED <<now, cards, queue, drafts>>,
           pact' \in PactState, pact'.paycard = pact.paycard,
           pact'.recorded = pact.recorded, pact'.opened = pact.opened,
           pact'.opened <=> pact'.status \notin Forming,
           pact'.status = "settled" => pact.status = "settled",
           pact'.approved => pact.opened,
           ~pact.opened => x.at \notin Busy /\ x.phase \in {"pact", "left"},
           x.at = "send" => Ended /\ pact.opened,
           x.at = "sign" => x.card \in Afoot,
           x.at = "submit" => x.card \in Sent
    PROVE  Course'
<1>1. TypesOK /\ OneCard /\ InPhase
  BY DEF Course
<1>2. /\ queue' \in Seq(Transaction) /\ drafts' \in Seq(Card) /\ Out' = Out
      /\ \A i \in 1..Len(queue') : queue'[i].kind = "open" => queue'[i].card \in Sent
      /\ \A i \in 1..Len(queue') : queue'[i].kind = "settle" =>
             /\ i \in 1..Len(queue) /\ queue'[i].kind = queue[i].kind
             /\ queue'[i].card = queue[i].card
  BY <1>1, SameSent DEF TypesOK, Out
<1>3. DOMAIN cards = {} => ~pact'.opened
  BY <1>1 DEF OneCard
<1>4. OneDraft' /\ OneCard'
  BY <1>2, <1>3, DraftsAfterTurn
<1>5. Ended' <=> Ended
  BY DEF Ended, Horizon
<1>6. ~pact'.opened => pact'.recorded = {}
  BY <1>1 DEF InPhase
<1>7. InPhase'
  BY <1>1, <1>2, <1>5, <1>6, PhaseStays
<1> QED
  BY <1>2, <1>4, <1>7, MoveKeeps

-----------------------------------------------------------------------------
(* The requests of the opening.                                            *)

\* The least of a set of naturals.
LEMMA MinIsLeast ==
    ASSUME NEW S, S \subseteq Nat, S # {}
    PROVE  Min(S) \in S /\ \A y \in S : Min(S) <= y
<1>1. PICK R : R = OpToRel(<, Nat)
  OBVIOUS
<1>2. IsWellFoundedOn(R, Nat)
  BY <1>1, NatLessThanWellFounded
<1>3. PICK x \in S : \A y \in S : ~(<<y, x>> \in R)
  BY <1>2, WFMin
<1>4. \A y \in S : y < x => <<y, x>> \in R
  BY <1>1 DEF OpToRel
<1>5. \A y \in S : ~(y < x)
  BY <1>3, <1>4
<1>6. ASSUME NEW y \in S PROVE x <= y
  <2>1. x \in Nat /\ y \in Nat
    OBVIOUS
  <2> QED
    BY <1>5, <2>1
<1> QED
  BY <1>6 DEF Min

\* Taking an element out of a sequence leaves nothing but the others.
LEMMA WithoutOne ==
    ASSUME NEW S, NEW s \in Seq(S), NEW n \in 1..Len(s)
    PROVE  /\ RemoveAt(s, n) \in Seq(S)
           /\ \A i \in 1..Len(RemoveAt(s, n)) : \E j \in 1..Len(s) : RemoveAt(s, n)[i] = s[j]
<1> DEFINE a == SubSeq(s, 1, n - 1)
           b == SubSeq(s, n + 1, Len(s))
<1>1. a \in Seq(S) /\ Len(a) = n - 1 /\ \A j \in 1..(n - 1) : a[j] = s[j]
  OBVIOUS
<1>2. /\ b \in Seq(S) /\ Len(b) = Len(s) - n
      /\ \A j \in 1..(Len(s) - n) : b[j] = s[n + j]
  OBVIOUS
<1>3. RemoveAt(s, n) = a \o b
  BY DEF RemoveAt
<1> HIDE DEF a, b
<1>4. Len(a \o b) = Len(s) - 1 /\ a \o b \in Seq(S)
  <2>1. Len(a \o b) = Len(a) + Len(b) /\ a \o b \in Seq(S)
    BY <1>1, <1>2, ConcatProperties
  <2> QED
    BY <1>1, <1>2, <2>1
<1>5. ASSUME NEW j \in 1..(Len(s) - 1)
      PROVE  \E k \in 1..Len(s) : (a \o b)[j] = s[k]
  <2>1. CASE j < n
    BY <1>1, <1>2, <2>1
  <2>2. CASE ~(j < n)
    <3>1. (a \o b)[j] = b[j - (n - 1)]
      BY <1>1, <1>2, <2>2
    <3>2. /\ j - (n - 1) \in 1..(Len(s) - n) /\ n + (j - (n - 1)) = j + 1
          /\ j + 1 \in 1..Len(s)
      BY <2>2
    <3> QED
      BY <1>2, <3>1, <3>2
  <2> QED
    BY <2>1, <2>2
<1> QED
  BY <1>3, <1>4, <1>5

\* So does leaving out the first that equals a given one, if there is one.
LEMMA RemovedIsLess ==
    ASSUME NEW S, NEW s \in Seq(S), NEW e
    PROVE  /\ RemoveFirst(s, e) \in Seq(S)
           /\ \A i \in 1..Len(RemoveFirst(s, e)) :
                 \E j \in 1..Len(s) : RemoveFirst(s, e)[i] = s[j]
<1> DEFINE I == {j \in 1..Len(s) : s[j] = e}
<1>1. CASE I = {}
  <2>1. ~ \E j \in 1..Len(s) : s[j] = e
    BY <1>1
  <2>2. RemoveFirst(s, e) = s
    BY <2>1 DEF RemoveFirst
  <2> QED
    BY <2>2
<1>2. CASE I # {}
  <2>1. Len(s) \in Nat
    OBVIOUS
  <2>2. I \subseteq Nat
    BY <2>1
  <2>3. Min(I) \in I
    BY <1>2, <2>2, MinIsLeast
  <2>4. SelectInSeq(s, LAMBDA v : v = e) = Min(I)
    BY <1>2 DEF SelectInSeq
  <2>5. RemoveFirst(s, e) = RemoveAt(s, Min(I))
    BY <1>2, <2>4 DEF RemoveFirst
  <2>6. PICK n \in 1..Len(s) : n = Min(I)
    BY <2>3
  <2>7. RemoveFirst(s, e) = RemoveAt(s, n)
    BY <2>5, <2>6
  <2> HIDE DEF I
  <2> QED
    BY <2>7, WithoutOne
<1> QED
  BY <1>1, <1>2

\* A request for a draft, while none is being made for another page.
LEMMA RequestDraftKeeps ==
    ASSUME Course, NEW p \in Pages, RequestDraft(p),
           Preparable /\ Reusable = {} => At({"drafting"}) = {}
    PROVE  Course'
<1>1. TypesOK /\ OneDraft /\ OneCard /\ InPhase
  BY DEF Course
<1>2. UNCHANGED <<now, cards, queue, pact, drafts>>
  BY DEF RequestDraft, chain
<1>4. pact \in PactState
  BY <1>1 DEF TypesOK
<1>5. CASE Stops(p)
  BY <1>2, <1>5, EndsKeep
<1>6. CASE /\ Preparable /\ Reusable # {}
           /\ Turns(p, [page[p] EXCEPT !.at = "sign", !.card = drafts[Min(Reusable)]])
  <2> DEFINE c == drafts[Min(Reusable)]
             x == [page[p] EXCEPT !.at = "sign", !.card = c]
  <2>1. Min(Reusable) \in 1..Len(drafts)
    <3>1. DOMAIN drafts = 1..Len(drafts) /\ Len(drafts) \in Nat
      BY <1>1 DEF TypesOK
    <3>2. Reusable \subseteq Nat /\ Reusable \subseteq 1..Len(drafts)
      BY <3>1 DEF Reusable
    <3> QED
      BY <1>6, <3>2, MinIsLeast
  <2>2. c \in Out /\ c \in Card
    BY <1>1, <2>1 DEF Out, TypesOK
  <2> HIDE DEF c
  <2>3. x \in PageState /\ x.at = "sign" /\ x.card = c /\ x.phase = page[p].phase
    BY <1>1, <2>2, PageFields DEF PageState, Places
  <2>4. Turns(p, x)
    BY <1>6 DEF c
  <2> HIDE DEF x
  <2>5. x.at \notin {"report", "drafting", "confirm"} \cup Recording /\ x.at \notin Busy
    BY <2>3 DEF Recording, Busy
  <2>6. c \in Afoot
    BY <2>2 DEF Afoot
  <2>7. ~pact.opened => x.phase \in {"pact", "left"}
    BY <1>1, <2>3 DEF InPhase
  <2>8. pact' \in PactState /\ pact'.paycard = pact.paycard
        /\ pact'.recorded = pact.recorded /\ pact'.opened = pact.opened
        /\ (pact'.opened <=> pact'.status \notin Forming)
        /\ (pact'.status = "settled" => pact.status = "settled")
        /\ (pact'.approved => pact.opened)
    BY <1>1, <1>2, <1>4 DEF InPhase
  <2> QED
    BY <1>2, <2>3, <2>4, <2>5, <2>6, <2>7, <2>8, PactGoesOn
<1>7. CASE /\ Preparable /\ Reusable = {}
           /\ Turns(p, [page[p] EXCEPT !.at = "drafting", !.nonce = Nonce])
  <2> DEFINE x == [page[p] EXCEPT !.at = "drafting", !.nonce = Nonce]
  <2>1. Nonce \in Nat /\ (DOMAIN cards = {} => Nonce = 0)
    <3>1. CASE DOMAIN cards = {}
      <4>1. Cardinality({}) = 0
        BY FS_EmptySet
      <4> QED
        BY <3>1, <4>1 DEF Nonce
    <3>2. CASE DOMAIN cards # {}
      <4>1. Cardinality({pact.paycard}) = 1
        BY FS_Singleton
      <4> QED
        BY <1>1, <3>2, <4>1 DEF OneCard, Nonce
    <3> QED
      BY <3>1, <3>2
  <2> DEFINE m == Nonce
  <2> HIDE DEF m
  <2>2. x \in PageState /\ x.at = "drafting" /\ x.nonce = Nonce /\ x.phase = page[p].phase
    <3>1. [page[p] EXCEPT !.at = "drafting", !.nonce = m] \in PageState
      BY <1>1, <2>1, PageFields DEF PageState, Places, m
    <3> QED
      BY <1>1, <3>1, PageFields DEF PageState, m
  <2>3. Turns(p, x)
    BY <1>7
  <2> HIDE DEF x
  <2>4. /\ page'[p] = x
        /\ \A q \in Pages : q # p => page'[q] = page[q]
        /\ \A S : \A q \in At(S)' :
               /\ q \in Pages
               /\ \/ q = p /\ x.at \in S
                  \/ q # p /\ q \in At(S) /\ page'[q] = page[q]
    BY <1>1, <2>2, <2>3, PlacesAfterTurn
  <2>5. Out' = Out /\ drafts' \in Seq(Card)
    BY <1>1, <1>2 DEF Out, TypesOK
  <2>6. \A c \in Out : ~Live(c)
    <3> SUFFICES ASSUME NEW c \in Out PROVE ~Live(c)
      OBVIOUS
    <3>1. PICK i \in 1..Len(drafts) : drafts[i] = c
      BY DEF Out
    <3>2. i \in DOMAIN drafts /\ drafts[i] \in Card
      BY <1>1, <3>1 DEF TypesOK
    <3>3. ~(Horizon(drafts[i]) > now)
      BY <1>7, <3>2 DEF Reusable
    <3>4. Horizon(c) \in Nat /\ now \in Nat
      BY <1>1, <3>1, <3>2 DEF TypesOK, Horizon, Card
    <3> QED
      BY <3>1, <3>3, <3>4 DEF Live
  <2>7. Signing' \subseteq Signing /\ Sent' \subseteq Sent
    BY <1>1, <1>2, <2>2, <2>3, AfootAfterTurn, SameSent
  <2>8. Afoot' \subseteq Afoot
    BY <2>5, <2>7 DEF Afoot
  <2>9. \A c : Live(c)' <=> Live(c)
    BY <1>2 DEF Live, Horizon
  <2>10. \A q \in At({"drafting"})' : q = p
    BY <1>7, <2>4
  <2>11. OneDraft'
    <3>1. \A c \in Afoot' : c \in Card /\ c.nonce = 0
      BY <1>1, <2>8 DEF OneDraft
    <3>2. \A c, d \in Afoot' : Live(c)' /\ Live(d)' => c = d
      BY <1>1, <2>8, <2>9 DEF OneDraft
    <3>3. \A c \in Sent' : Live(c)' => c = pact'.paycard
      BY <1>1, <1>2, <2>7, <2>9 DEF OneDraft
    <3>4. \A q, r \in At({"drafting"})' : q = r
      BY <2>10
    <3>5. \A c \in Out' : ~Live(c)'
      BY <2>5, <2>6, <2>9
    <3> QED
      BY <3>1, <3>2, <3>3, <3>4, <3>5 DEF OneDraft
  <2>12. OneCard'
    <3>1. CASE DOMAIN cards = {}
      <4>1. \A c \in Afoot' : Live(c)' => c \in Out'
        BY <1>1, <2>5, <2>8, <2>9, <3>1 DEF OneCard
      <4>2. \A q \in At({"drafting"})' : page'[q].nonce = 0
        BY <2>1, <2>2, <2>4, <2>10, <3>1
      <4>3. At({"confirm"})' = {} /\ ~pact'.opened
        BY <1>1, <1>2, <2>2, <2>4, <3>1 DEF OneCard
      <4> QED
        BY <1>2, <3>1, <4>1, <4>2, <4>3 DEF OneCard
    <3>2. CASE DOMAIN cards # {}
      BY <1>1, <1>2, <2>8, <2>9, <3>2 DEF OneCard
    <3> QED
      BY <3>1, <3>2
  <2>13. x.at \notin {"report"} \cup Recording /\ x.at \notin Busy /\ x.at # "send"
    BY <2>2 DEF Recording, Busy
  <2>14. InPhase'
    BY <1>1, <1>2, <1>4, <2>2, <2>3, <2>13, PhaseStays, SameSent DEF InPhase
  <2> QED
    BY <1>1, <1>2, <1>4, <2>2, <2>3, <2>5, <2>11, <2>12, <2>13, <2>14, MoveKeeps, SameSent
<1> QED
  BY <1>5, <1>6, <1>7 DEF RequestDraft

\* Making a draft before anything is opened: nothing else that is about can open
\* a Paycard any more.
LEMMA IssueDraftKeeps ==
    ASSUME Course, NEW p \in Pages, IssueDraft(p), DOMAIN cards = {}
    PROVE  Course'
<1>1. TypesOK /\ OneDraft /\ OneCard /\ InPhase
  BY DEF Course
<1>2. UNCHANGED <<now, cards, queue, pact>> /\ DOMAIN cards = {}
      /\ page[p].at = "drafting"
  BY DEF IssueDraft, chain
<1>3. pact \in PactState /\ ~pact.opened /\ now \in Nat
  BY <1>1, <1>2 DEF TypesOK, OneCard
<1>4. page[p].nonce = 0 /\ p \in At({"drafting"})
  BY <1>1, <1>2 DEF OneCard, At
<1> DEFINE c == [nonce |-> page[p].nonce, genesis |-> now + Lead]
           x == IF page[p].phase = "left" THEN Closed
                ELSE [page[p] EXCEPT !.at = "sign", !.card = c, !.nonce = 0]
<1>5. c \in Card /\ c.nonce = 0
  BY <1>3, <1>4 DEF Card
<1>6. /\ drafts' = (IF \E i \in DOMAIN drafts : drafts[i] = c THEN drafts
                    ELSE Append(drafts, c))
      /\ Turns(p, x)
  BY DEF IssueDraft
<1> HIDE DEF c
<1>7. drafts' \in Seq(Card) /\ Out' = Out \cup {c}
  <2>1. drafts \in Seq(Card) /\ DOMAIN drafts = 1..Len(drafts)
    BY <1>1 DEF TypesOK
  <2>2. CASE \E i \in DOMAIN drafts : drafts[i] = c
    BY <1>6, <2>1, <2>2 DEF Out
  <2>3. CASE ~ \E i \in DOMAIN drafts : drafts[i] = c
    <3>1. drafts' = Append(drafts, c)
      BY <1>6, <2>3
    <3>2. drafts' \in Seq(Card) /\ Len(drafts') = Len(drafts) + 1
          /\ (\A i \in 1..Len(drafts) : drafts'[i] = drafts[i])
          /\ drafts'[Len(drafts) + 1] = c
      BY <1>5, <2>1, <3>1, AppendProperties
    <3>3. Len(drafts) \in Nat
      BY <2>1
    <3>4. \A i \in 1..Len(drafts') : i \in 1..Len(drafts) \/ i = Len(drafts) + 1
      BY <3>2, <3>3
    <3>5. (\A i \in 1..Len(drafts) : i \in 1..Len(drafts'))
          /\ Len(drafts) + 1 \in 1..Len(drafts')
      BY <3>2, <3>3
    <3> QED
      BY <3>2, <3>4, <3>5 DEF Out
  <2> QED
    BY <2>2, <2>3
<1>8. x \in PageState /\ (x.at = "closed" \/ (x.at = "sign" /\ x.card = c))
      /\ x.phase \in {"pact", "left"}
  <2>1. CASE page[p].phase = "left"
    <3>1. "pact" \in Phases
      BY DEF Phases
    <3>2. x = Closed
      BY <2>1
    <3> HIDE DEF x
    <3>3. Closed \in PageState /\ Closed.at = "closed" /\ Closed.phase = "pact"
      BY <3>1, IdleIsPage
    <3> QED
      BY <3>2, <3>3
  <2>2. CASE page[p].phase # "left"
    <3> DEFINE y == [page[p] EXCEPT !.at = "sign", !.card = c, !.nonce = 0]
    <3>1. x = y
      BY <2>2
    <3> HIDE DEF x
    <3>2. page[p] \in PageState /\ c \in Card \cup {None} /\ 0 \in Nat
      BY <1>1, <1>5, PageFields
    <3>3. y \in PageState /\ y.at = "sign" /\ y.card = c /\ y.phase = page[p].phase
      BY <3>2 DEF PageState, Places
    <3> HIDE DEF y
    <3> QED
      BY <1>1, <1>3, <3>1, <3>3 DEF InPhase
  <2> QED
    BY <2>1, <2>2
<1> HIDE DEF x
<1>9. /\ page'[p] = x
      /\ \A S : \A q \in At(S)' :
             /\ q \in Pages
             /\ \/ q = p /\ x.at \in S
                \/ q # p /\ q \in At(S) /\ page'[q] = page[q]
  BY <1>1, <1>6, <1>8, PlacesAfterTurn
<1>10. At({"drafting"})' = {} /\ At({"confirm"})' = {}
  <2>1. \A q \in At({"drafting"}) : q = p
    BY <1>1, <1>4 DEF OneDraft
  <2> QED
    BY <1>1, <1>2, <1>8, <1>9, <2>1 DEF OneCard
<1>11. Signing' \subseteq Signing \cup {c} /\ Sent' \subseteq Sent
  BY <1>1, <1>2, <1>6, <1>8, AfootAfterTurn, SameSent
<1>12. Afoot' \subseteq Afoot \cup {c}
  BY <1>7, <1>11 DEF Afoot
<1>13. \A d : Live(d)' <=> Live(d)
  BY <1>2 DEF Live, Horizon
<1>14. \A d \in Afoot : ~Live(d)
  BY <1>1, <1>2, <1>4 DEF OneDraft, OneCard
<1>15. OneDraft'
  <2>1. \A d \in Afoot' : d \in Card /\ d.nonce = 0
    BY <1>1, <1>5, <1>12 DEF OneDraft
  <2>2. \A d, e \in Afoot' : Live(d)' /\ Live(e)' => d = e
    BY <1>12, <1>13, <1>14
  <2>3. \A d \in Sent' : ~Live(d)'
    BY <1>11, <1>13, <1>14 DEF Afoot
  <2> QED
    BY <1>10, <2>1, <2>2, <2>3 DEF OneDraft
<1>16. OneCard'
  <2>1. \A d \in Afoot' : Live(d)' => d \in Out'
    BY <1>7, <1>12, <1>13, <1>14
  <2> QED
    BY <1>2, <1>3, <1>10, <2>1 DEF OneCard
<1>17. x.at \notin {"report"} \cup Recording /\ x.at \notin Busy /\ x.at # "send"
  BY <1>8 DEF Recording, Busy
<1>18. InPhase'
  BY <1>1, <1>2, <1>3, <1>6, <1>8, <1>17, PhaseStays, SameSent DEF InPhase
<1> QED
  BY <1>1, <1>2, <1>3, <1>6, <1>7, <1>8, <1>15, <1>16, <1>17, <1>18, MoveKeeps, SameSent

\* Preparing the Pact for a draft that is signed.
LEMMA PreparePaymentKeeps ==
    ASSUME Course, NEW p \in Pages, PreparePayment(p)
    PROVE  Course'
<1>1. TypesOK /\ OneDraft /\ OneCard /\ InPhase
  BY DEF Course
<1>2. UNCHANGED <<now, cards, queue, drafts>> /\ page[p].at = "sign"
  BY DEF PreparePayment, chain
<1>3. CASE Stops(p) /\ pact' = pact
  BY <1>2, <1>3, EndsKeep
<1> DEFINE c == page[p].card
           x == [page[p] EXCEPT !.at = "submit"]
<1>4. CASE /\ MayPrepare(c) /\ Goes(p, "submit")
           /\ pact' = [pact EXCEPT !.status = "payment_prepared", !.paycard = c,
                                   !.recorded = {}]
  <2>1. c \in Signing /\ c \in Afoot /\ c \in Card
    BY <1>1, <1>2 DEF Signing, At, Afoot, OneDraft
  <2>2. x \in PageState /\ x.at = "submit" /\ x.card = c /\ x.phase = page[p].phase
    BY <1>1, PageFields DEF PageState, Places
  <2>3. Turns(p, x)
    BY <1>4 DEF Goes
  <2> HIDE DEF c, x
  <2>4. pact.status \in Forming /\ ~pact.opened /\ ~pact.approved /\ pact.recorded = {}
    BY <1>1, <1>4 DEF MayPrepare, Preparable, Forming, InPhase
  <2>5. Live(c) /\ c \in Out
    <3>1. PICK i \in DOMAIN drafts : drafts[i] = c
      BY <1>4 DEF MayPrepare, Issued
    <3>2. i \in 1..Len(drafts)
      BY <1>1, <3>1 DEF TypesOK
    <3>3. Horizon(c) > now /\ Horizon(c) \in Nat /\ now \in Nat
      BY <1>1, <1>4, <2>1 DEF MayPrepare, Horizon, Card, TypesOK
    <3> QED
      BY <3>1, <3>2, <3>3 DEF Live, Out
  <2>6. pact' \in PactState /\ pact'.paycard = c /\ pact'.opened = pact.opened
        /\ pact'.status = "payment_prepared" /\ pact'.recorded = pact.recorded
        /\ pact'.approved = pact.approved
    BY <1>1, <1>4, <2>1, <2>4, PactFields DEF TypesOK, PactState, Forming
  <2>7. /\ page' \in [Pages -> PageState] /\ page'[p] = x
        /\ \A S : \A q \in At(S)' :
               /\ q \in Pages
               /\ \/ q = p /\ x.at \in S
                  \/ q # p /\ q \in At(S) /\ page'[q] = page[q]
    BY <1>1, <2>2, <2>3, PlacesAfterTurn
  <2>8. Out' = Out /\ drafts' \in Seq(Card)
    BY <1>1, <1>2 DEF Out, TypesOK
  <2>9. Signing' \subseteq Signing /\ Sent' \subseteq Sent \cup {c}
    BY <1>1, <1>2, <2>2, <2>3, AfootAfterTurn, SameSent
  <2>10. Afoot' \subseteq Afoot /\ \A d : Live(d)' <=> Live(d)
    BY <1>2, <2>1, <2>8, <2>9 DEF Afoot, Live, Horizon
  <2>11. OneDraft'
    <3>1. \A d \in Afoot' : d \in Card /\ d.nonce = 0
      BY <1>1, <2>10 DEF OneDraft
    <3>2. \A d, e \in Afoot' : Live(d)' /\ Live(e)' => d = e
      BY <1>1, <2>10 DEF OneDraft
    <3>3. \A d \in Sent' : Live(d)' => d = c
      BY <1>1, <2>1, <2>5, <2>9, <2>10 DEF OneDraft, Afoot
    <3>4. \A q \in At({"drafting"})' : q \in At({"drafting"})
      BY <2>2, <2>7
    <3>5. At({"drafting"})' = {}
      BY <1>1, <2>5, <3>4 DEF OneDraft
    <3> QED
      BY <2>6, <3>1, <3>2, <3>3, <3>5 DEF OneDraft
  <2>12. \A q \in At({"confirm"})' : q \in At({"confirm"})
    BY <2>2, <2>7
  <2>13. DOMAIN cards # {} => c = pact.paycard
    BY <1>1, <2>1, <2>5 DEF OneCard
  <2>14. OneCard'
    <3>1. CASE DOMAIN cards = {}
      <4>1. \A d \in Afoot' : Live(d)' => d \in Out'
        BY <1>1, <2>8, <2>10, <3>1 DEF OneCard
      <4>2. \A q \in At({"drafting"})' : q \in At({"drafting"}) /\ page'[q] = page[q]
        BY <2>2, <2>7
      <4> QED
        BY <1>1, <1>2, <2>6, <2>12, <3>1, <4>1, <4>2 DEF OneCard
    <3>2. CASE DOMAIN cards # {}
      BY <1>1, <1>2, <2>6, <2>10, <2>13, <3>2 DEF OneCard
    <3> QED
      BY <3>1, <3>2
  <2>15. x.at \notin {"report"} \cup Recording /\ x.at \notin Busy /\ x.at # "send"
    BY <2>2 DEF Recording, Busy
  <2>16. InPhase'
    BY <1>1, <1>2, <2>2, <2>3, <2>4, <2>6, <2>15, PhaseStays, SameSent DEF InPhase, Forming
  <2>17. CASE DOMAIN cards = {}
    <3>1. TypesOK'
      BY <1>1, <1>2, <2>6, <2>7, <2>8 DEF TypesOK
    <3> QED
      BY <1>2, <2>11, <2>14, <2>16, <2>17, <3>1 DEF Course
  <2>18. CASE DOMAIN cards # {}
    BY <1>1, <1>2, <2>2, <2>3, <2>6, <2>8, <2>11, <2>13, <2>14, <2>15, <2>16, <2>18,
       MoveKeeps, SameSent
  <2> QED
    BY <2>17, <2>18
<1> QED
  BY <1>3, <1>4 DEF PreparePayment

\* A transaction at the end of the queue.
LEMMA SentLast ==
    ASSUME TypesOK, NEW p \in Pages, NEW kind \in {"open", "settle"},
           NEW c \in Card \cup {None}, Sends(p, kind, c)
    PROVE  /\ Goes(p, "wait") /\ UNCHANGED <<now, cards, pact, drafts>>
           /\ queue' \in Seq(Transaction)
           /\ \A i \in 1..Len(queue') :
                 \/ i \in 1..Len(queue) /\ queue'[i] = queue[i]
                 \/ queue'[i].kind = kind /\ queue'[i].card = c
<1> DEFINE tx == [kind |-> kind, card |-> c, page |-> p]
<1>1. queue' = Append(queue, tx) /\ Goes(p, "wait") /\ UNCHANGED <<now, cards, pact, drafts>>
  BY DEF Sends
<1>2. tx \in Transaction /\ tx.kind = kind /\ tx.card = c
  BY DEF Transaction
<1> HIDE DEF tx
<1>3. queue \in Seq(Transaction) /\ Len(queue) \in Nat
  BY DEF TypesOK
<1>4. queue' \in Seq(Transaction) /\ Len(queue') = Len(queue) + 1
      /\ (\A i \in 1..Len(queue) : queue'[i] = queue[i])
      /\ queue'[Len(queue) + 1] = tx
  BY <1>1, <1>2, <1>3, AppendProperties
<1>5. \A i \in 1..Len(queue') : i \in 1..Len(queue) \/ i = Len(queue) + 1
  BY <1>3, <1>4
<1> QED
  BY <1>1, <1>2, <1>4, <1>5

\* Sending a transaction; a settlement is sent when the term is over.
LEMMA SubmitKeeps ==
    ASSUME Course, NEW p \in Pages, SubmitOpening(p) \/ SubmitSettlement(p)
    PROVE  Course'
<1>1. TypesOK /\ OneDraft /\ OneCard /\ InPhase
  BY DEF Course
<1> DEFINE x == [page[p] EXCEPT !.at = "wait"]
<1>2. x \in PageState /\ x.at = "wait" /\ x.phase = page[p].phase
  BY <1>1, PageFields DEF PageState, Places
<1>3. /\ Goes(p, "wait") /\ UNCHANGED <<now, cards, pact, drafts>>
      /\ queue' \in Seq(Transaction)
      /\ \A i \in 1..Len(queue') :
            \/ i \in 1..Len(queue) /\ queue'[i] = queue[i]
            \/ queue'[i].kind = "open" /\ queue'[i].card \in Sent
            \/ /\ queue'[i].kind = "settle" /\ queue'[i].card = pact.paycard
               /\ pact.opened /\ Ended
  <2>1. CASE SubmitOpening(p)
    <3>1. page[p].card \in Sent /\ page[p].card \in Card \cup {None}
      BY <1>1, <2>1, PageFields DEF SubmitOpening, Sent, At
    <3>2. Sends(p, "open", page[p].card)
      BY <2>1 DEF SubmitOpening
    <3> QED
      BY <1>1, <3>1, <3>2, SentLast
  <2>2. CASE SubmitSettlement(p)
    <3>1. p \in At({"send"}) /\ p \in At(Busy)
      BY <2>2 DEF SubmitSettlement, At, Busy
    <3>2. pact.opened /\ Ended
      BY <1>1, <3>1 DEF InPhase, Busy
    <3>3. Sends(p, "settle", pact.paycard) /\ pact.paycard \in Card \cup {None}
      BY <1>1, <2>2, PactFields DEF SubmitSettlement
    <3> QED
      BY <1>1, <3>2, <3>3, SentLast
  <2> QED
    BY <2>1, <2>2
<1>4. Turns(p, x) /\ drafts' \in Seq(Card) /\ Out' = Out /\ pact \in PactState
  BY <1>1, <1>3 DEF Goes, TypesOK, Out
<1> HIDE DEF x
<1>5. x.at \notin {"report"} \cup Recording /\ x.at \notin Busy
  BY <1>2 DEF Recording, Busy
<1>6. \A i \in 1..Len(queue') : queue'[i].kind = "open" => queue'[i].card \in Sent
  BY <1>3 DEF Sent
<1>7. Ended' <=> Ended
  BY <1>3 DEF Ended, Horizon
<1>8. \A i \in 1..Len(queue') : queue'[i].kind = "settle" =>
          \/ /\ i \in 1..Len(queue) /\ queue'[i].kind = queue[i].kind
             /\ queue'[i].card = queue[i].card
          \/ queue'[i].card = pact'.paycard /\ pact'.opened /\ Ended'
  BY <1>3, <1>7
<1>9. DOMAIN cards = {} => ~pact'.opened
  BY <1>1, <1>3 DEF OneCard
<1>10. OneDraft' /\ OneCard'
  BY <1>2, <1>3, <1>4, <1>6, <1>9, DraftsAfterTurn
<1>11. InPhase'
  BY <1>1, <1>2, <1>3, <1>4, <1>5, <1>8, PhaseStays DEF InPhase
<1> QED
  BY <1>2, <1>3, <1>4, <1>5, <1>10, <1>11, MoveKeeps

\* Binding the Pact to its Paycard.
LEMMA BindingKeeps ==
    ASSUME Course, NEW p \in Pages, NEW c, DOMAIN cards # {}, Bindable(c),
           pact' = Activated(c), Forget(c), Shows(p, "opened"),
           UNCHANGED <<now, cards, queue>>
    PROVE  Course'
<1>1. TypesOK /\ OneDraft /\ OneCard /\ InPhase
  BY DEF Course
<1> DEFINE x == IF page[p].phase = "left" THEN Closed ELSE Idle("opened")
<1>2. x \in PageState /\ x.at \in {"closed", "idle"}
  <2>1. "opened" \in Phases
    BY DEF Phases
  <2> QED
    BY <2>1, IdleIsPage
<1>3. Turns(p, x)
  BY DEF Shows
<1> HIDE DEF x
<1>4. ~pact.opened /\ ~pact.approved
  BY <1>1 DEF Bindable, InPhase, Forming
<1>5. pact' \in PactState /\ pact'.opened /\ pact'.paycard = pact.paycard
      /\ pact'.status = "active" /\ pact'.recorded = pact.recorded
  BY <1>1 DEF TypesOK, PactState, Activated
<1>6. drafts' \in Seq(Card) /\ Out' \subseteq Out
  <2>1. drafts \in Seq(Card)
    BY <1>1 DEF TypesOK
  <2>2. /\ RemoveFirst(drafts, c) \in Seq(Card)
        /\ \A i \in 1..Len(RemoveFirst(drafts, c)) :
              \E j \in 1..Len(drafts) : RemoveFirst(drafts, c)[i] = drafts[j]
    BY <2>1, RemovedIsLess
  <2> QED
    BY <2>2 DEF Forget, Out
<1>7. x.at \notin {"report"} \cup Recording /\ x.at \notin Busy
      /\ x.at \notin {"drafting", "confirm", "sign", "submit", "send"}
  BY <1>2 DEF Recording, Busy
<1>8. OneDraft' /\ OneCard'
  BY <1>1, <1>2, <1>3, <1>5, <1>6, <1>7, SameSent, DraftsAfterTurn
<1>9. InPhase'
  BY <1>1, <1>2, <1>3, <1>4, <1>5, <1>7, SameSent, PhaseStays DEF Forming
<1> QED
  BY <1>1, <1>2, <1>3, <1>5, <1>6, <1>7, <1>8, <1>9, SameSent, MoveKeeps

\* Recovering and confirming an opening.
LEMMA OpeningKeeps ==
    ASSUME Course, NEW p \in Pages, RecoverOpening(p) \/ ConfirmOpening(p)
    PROVE  Course'
<1>1. OneCard /\ UNCHANGED <<now, cards, queue>>
  BY DEF Course, RecoverOpening, ConfirmOpening, chain
<1>2. "opened" \in Phases /\ "draft" \in Quiet
  BY DEF Phases, Quiet
<1>3. CASE RecoverOpening(p)
  <2>1. CASE pact.opened /\ Shows(p, "opened") /\ UNCHANGED <<pact, drafts>>
    BY <1>1, <1>2, <2>1, EndsKeep
  <2>2. CASE Goes(p, "draft") /\ UNCHANGED <<pact, drafts>>
    BY <1>1, <1>2, <2>2, GoesKeep
  <2>3. CASE /\ Opened(pact.paycard) /\ Bindable(pact.paycard) /\ Shows(p, "opened")
             /\ pact' = Activated(pact.paycard) /\ Forget(pact.paycard)
    BY <1>1, <2>3, BindingKeeps DEF Opened
  <2>4. CASE Stops(p) /\ UNCHANGED <<pact, drafts>>
    BY <1>1, <2>4, EndsKeep
  <2> QED
    BY <1>3, <2>1, <2>2, <2>3, <2>4 DEF RecoverOpening
<1>4. CASE ConfirmOpening(p)
  <2>1. DOMAIN cards # {}
    BY <1>1, <1>4 DEF ConfirmOpening, OneCard, At
  <2>2. CASE /\ Bindable(page[p].card) /\ Shows(p, "opened")
             /\ pact' = Activated(page[p].card) /\ Forget(page[p].card)
    BY <1>1, <2>1, <2>2, BindingKeeps
  <2>3. CASE Stops(p) /\ UNCHANGED <<pact, drafts>>
    BY <1>1, <2>3, EndsKeep
  <2> QED
    BY <1>4, <2>2, <2>3 DEF ConfirmOpening
<1> QED
  BY <1>3, <1>4

-----------------------------------------------------------------------------
(* The proof.                                                              *)

\* Submitting the checkpoint, and the plugin's answer.
LEMMA ProofKeeps ==
    ASSUME Course, NEW p \in Pages, Prove(p) \/ Approve(p) \/ Reject(p)
    PROVE  Course'
<1>1. TypesOK /\ InPhase
  BY DEF Course
<1>2. UNCHANGED <<now, cards, queue, drafts>>
  BY DEF Prove, Approve, Reject, chain
<1>3. pact.opened
  <2>1. CASE Prove(p)
    BY <1>1, <2>1 DEF Prove, InPhase, Forming
  <2>2. CASE Approve(p) \/ Reject(p)
    <3>1. p \in At(Busy)
      BY <2>2 DEF Approve, Reject, At, Busy
    <3> QED
      BY <1>1, <3>1 DEF InPhase, Busy
  <2> QED
    BY <2>1, <2>2
<1>4. /\ pact' \in PactState /\ pact'.paycard = pact.paycard
      /\ pact'.recorded = pact.recorded /\ pact'.opened = pact.opened
      /\ pact'.status \in {pact.status, "performing", "disputed"}
  BY <1>1, PactFields DEF TypesOK, PactState, Prove, Approve, Reject
<1>5. pact'.status \notin Forming
  BY <1>1, <1>3, <1>4 DEF InPhase, Forming
<1>6. PICK x \in PageState : Turns(p, x) /\ x.at \in {"verifying", "closed", "idle"}
  <2>1. CASE Prove(p)
    <3> DEFINE y == [page[p] EXCEPT !.at = "verifying"]
    <3>1. y \in PageState /\ y.at = "verifying"
      BY <1>1, PageFields DEF PageState, Places
    <3>2. Turns(p, y)
      BY <2>1 DEF Prove, Goes
    <3> QED
      BY <3>1, <3>2
  <2>2. CASE Approve(p) \/ Reject(p)
    <3>1. PICK phase \in Phases : Shows(p, phase)
      BY <1>1, <2>2, PageFields DEF Approve, Reject, Stops, Phases
    <3>2. Idle(phase) \in PageState /\ Idle(phase).at = "idle"
          /\ Closed \in PageState /\ Closed.at = "closed"
      BY IdleIsPage
    <3> QED
      BY <3>1, <3>2 DEF Shows
  <2> QED
    BY <2>1, <2>2
<1>7. x.at \notin {"report", "drafting", "confirm", "send", "sign", "submit"} \cup Recording
  BY <1>6 DEF Recording
<1> QED
  BY <1>2, <1>3, <1>4, <1>5, <1>6, <1>7, PactGoesOn

-----------------------------------------------------------------------------
(* Counting the payouts unit by unit.                                      *)

\* The units of payouts P of the kinds S.
LEMMA UnitIn ==
    ASSUME NEW P, NEW S, NEW u
    PROVE  u \in UNION {{i} \X (1..P[i]) : i \in S} <=> \E i \in S : \E k \in 1..P[i] : u = <<i, k>>
OBVIOUS

\* A unit is one of a payout.
LEMMA UnitIs ==
    ASSUME NEW c, NEW S, NEW u
    PROVE  u \in Units(c, S) <=> \E i \in S : \E k \in 1..cards[c].payouts[i] : u = <<i, k>>
BY DEF Units

\* The units of one payout more.
LEMMA UnitsOfOneMore ==
    ASSUME NEW c, NEW S, NEW i, i \notin S
    PROVE  /\ Units(c, S \cup {i}) = Units(c, S) \cup Units(c, {i})
           /\ Units(c, S) \cap Units(c, {i}) = {}
<1>1. \A u : u \in Units(c, S \cup {i}) <=> u \in Units(c, S) \cup Units(c, {i})
  BY UnitIs
<1>2. ASSUME NEW u \in Units(c, S), u \in Units(c, {i}) PROVE FALSE
  <2>1. PICK j \in S : \E k \in 1..cards[c].payouts[j] : u = <<j, k>>
    BY <1>2, UnitIs
  <2>2. PICK k \in 1..cards[c].payouts[i] : u = <<i, k>>
    BY <1>2, UnitIs
  <2>3. j = i
    BY <2>1, <2>2
  <2> QED
    BY <2>1, <2>3
<1> QED
  BY <1>1, <1>2

\* What is recorded and one payout that is not reach the allocation only when
\* that is all there is.
LEMMA ReachesAll ==
    ASSUME Balanced, pact.recorded \subseteq Payouts,
           NEW i \in Payouts, i \notin pact.recorded, Reaches(i)
    PROVE  Total = Life /\ pact.recorded \cup {i} = Payouts
<1> DEFINE c == pact.paycard
           U == Units(c, pact.recorded)
           V == Units(c, {i})
           W == Units(c, Payouts)
<1>1. Units(c, pact.recorded \cup {i}) = U \cup V /\ U \cap V = {}
  BY UnitsOfOneMore
<1>2. \A u \in Units(c, pact.recorded \cup {i}) : u \in W
  BY UnitIs
<1>3. U \cup V \subseteq W /\ IsFiniteSet(W)
  BY <1>1, <1>2 DEF Balanced
<1>4. Cardinality(W) = Total /\ Cardinality(U) + Cardinality(V) >= Life
  BY DEF Total, PayoutSum, Reaches
<1>5. Paycard.left \in Nat /\ Total + Paycard.left <= Life
  BY DEF Balanced, Entry
<1>6. \A j \in Payouts : Paycard.payouts[j] \in Nat \ {0}
  BY DEF Balanced, Entry, Payouts
<1> HIDE DEF U, V, W
<1>7. IsFiniteSet(U) /\ IsFiniteSet(V) /\ IsFiniteSet(U \cup V)
  BY <1>3, FS_Subset
<1>8. /\ Cardinality(U) \in Nat /\ Cardinality(V) \in Nat /\ Cardinality(W) \in Nat
      /\ Cardinality(U \cup V) \in Nat
  BY <1>3, <1>7, FS_CardinalityType
<1>9. Cardinality(U \cup V) = Cardinality(U) + Cardinality(V) - Cardinality(U \cap V)
  BY <1>7, FS_Union
<1>10. Cardinality(U \cup V) = Cardinality(U) + Cardinality(V)
  <2>1. Cardinality({}) = 0
    BY FS_EmptySet
  <2>2. Cardinality(U \cap V) = 0
    BY <1>1, <2>1
  <2> QED
    BY <1>8, <1>9, <2>2
<1>11. Cardinality(U \cup V) <= Cardinality(W)
       /\ (Cardinality(U \cup V) = Cardinality(W) => U \cup V = W)
  BY <1>3, FS_Subset
<1>12. Life \in Nat
  OBVIOUS
<1>13. Total = Life /\ Cardinality(U \cup V) = Cardinality(W)
  BY <1>4, <1>5, <1>8, <1>10, <1>11, <1>12
<1>14. Units(c, pact.recorded \cup {i}) = W
  BY <1>1, <1>11, <1>13
<1>15. ASSUME NEW j \in Payouts PROVE j \in pact.recorded \cup {i}
  <2>1. Paycard.payouts[j] \in Nat \ {0}
    BY <1>6
  <2>2. 1 \in 1..Paycard.payouts[j]
    BY <2>1
  <2>3. <<j, 1>> \in Units(c, Payouts)
    BY <2>2, UnitIs DEF Paycard
  <2>4. <<j, 1>> \in Units(c, pact.recorded \cup {i})
    BY <1>14, <2>3 DEF W
  <2>5. PICK k \in pact.recorded \cup {i} : \E n \in 1..cards[c].payouts[k] : <<j, 1>> = <<k, n>>
    BY <2>4, UnitIs
  <2> QED
    BY <2>5
<1> QED
  BY <1>13, <1>15

-----------------------------------------------------------------------------
(* The requests of the settlement.                                         *)

\* A page that records, or has done so.
LEMMA RecordingKeeps ==
    ASSUME Course, DOMAIN cards # {}, NEW p \in Pages, NEW x \in PageState, Turns(p, x),
           x.at \in Recording \cup {"idle", "closed"},
           UNCHANGED <<now, cards, queue, drafts>>,
           pact' \in PactState, pact'.paycard = pact.paycard,
           pact.opened, pact'.opened, pact'.status \notin Forming,
           pact'.recorded \subseteq Payouts,
           \A q \in Pages \ {p} : page[q].at \notin Recording,
           x.at \in Recording => Records(p)',
           \A q \in At({"report"})' : Reports(q)',
           pact'.status = "settled" => (PaidUp /\ AllRecorded)'
    PROVE  Course'
<1>1. TypesOK /\ OneCard /\ InPhase /\ Balanced /\ Settling
  BY DEF Course
<1>2. /\ page' \in [Pages -> PageState]
      /\ \A S : \A q \in At(S)' :
             /\ q \in Pages
             /\ \/ q = p /\ x.at \in S
                \/ q # p /\ q \in At(S) /\ page'[q] = page[q]
  BY <1>1, PlacesAfterTurn
<1>3. drafts' \in Seq(Card) /\ Out' = Out
  BY <1>1 DEF TypesOK, Out
<1>4. TypesOK'
  BY <1>1, <1>2, <1>3 DEF TypesOK
<1>5. x.at \notin {"report", "drafting", "confirm", "sign", "submit", "send"}
  BY DEF Recording
<1>6. OneDraft' /\ OneCard'
  BY <1>1, <1>3, <1>5, SameSent, DraftsAfterTurn
<1>7. InPhase'
  BY <1>1, <1>5, SameSent, PhaseStays
<1>8. Balanced'
  BY <1>1 DEF Balanced, Paycard, Payouts, Total, PayoutSum, Units, Horizon
<1>9. Settling'
  <2>1. Payouts' = Payouts
    BY DEF Payouts, Paycard
  <2>2. \A q, r \in At({"report"})' : q = r
    BY <1>1, <1>2, <1>5 DEF Settling
  <2>3. \A q \in At(Recording)' : q = p /\ x.at \in Recording
    BY <1>2 DEF At
  <2>4. \A q \in At(Recording)' : Records(q)'
    BY <2>3
  <2> QED
    BY <2>1, <2>2, <2>3, <2>4 DEF Settling
<1> QED
  BY <1>4, <1>6, <1>7, <1>8, <1>9 DEF Course

\* Nobody else records when nothing overlaps.
LEMMA RecordsAlone ==
    ASSUME Course, NEW p \in Pages, page[p].at \in Busy
    PROVE  /\ TypesOK /\ OneCard /\ InPhase /\ pact.opened /\ DOMAIN cards # {}
           /\ Balanced /\ Settling /\ Payouts \subseteq Nat
           /\ DOMAIN Paycard.payouts = Payouts /\ Latest \in Nat
           /\ page[p].at \in Recording =>
                 /\ Records(p)
                 /\ \A q \in Pages \ {p} : page[q].at \notin Recording
<1>1. TypesOK /\ OneCard /\ InPhase
  BY DEF Course
<1>2. p \in At(Busy)
  BY DEF At
<1>3. pact.opened /\ DOMAIN cards # {}
  BY <1>1, <1>2 DEF InPhase, Busy, OneCard
<1>4. Balanced /\ Settling
  BY <1>3 DEF Course
<1>5. Latest \in Nat /\ DOMAIN Paycard.payouts = Payouts
  BY <1>4 DEF Balanced, Entry, Latest, Payouts
<1>6. Payouts \subseteq Nat
  BY <1>5 DEF Payouts, Latest
<1>7. ASSUME page[p].at \in Recording
      PROVE  /\ Records(p)
             /\ \A q \in Pages \ {p} : page[q].at \notin Recording
  <2>1. p \in At(Recording)
    BY <1>7 DEF At
  <2>2. \A q \in At(Recording) : q = p
    BY <1>4, <2>1 DEF Settling
  <2> QED
    BY <1>4, <2>1, <2>2 DEF Settling, At
<1> QED
  BY <1>1, <1>3, <1>4, <1>5, <1>6, <1>7

\* What pages that report are promised, by what is paid and recorded.
LEMMA ReportsStay ==
    ASSUME TypesOK, Settling, NEW p \in Pages, NEW x \in PageState, Turns(p, x),
           x.at # "report", UNCHANGED cards, pact'.paycard = pact.paycard,
           AllRecorded => AllRecorded',
           At({"report"}) # {} => (Latest \in pact'.recorded => Latest \in pact.recorded \/ AllRecorded')
    PROVE  \A q \in At({"report"})' : Reports(q)'
<1> SUFFICES ASSUME NEW q \in At({"report"})' PROVE Reports(q)'
  OBVIOUS
<1>1. q \in Pages /\ q \in At({"report"}) /\ page'[q] = page[q]
  BY PlacesAfterTurn
<1>2. Reports(q)
  BY <1>1 DEF Settling
<1>3. Latest' = Latest /\ (PaidUp' <=> PaidUp)
  BY DEF Latest, PaidUp, Paycard, Total, Payouts, PayoutSum, Units
<1> QED
  BY <1>1, <1>2, <1>3 DEF Reports

\* Pressing the button that settles, while nobody else records.
LEMMA PressSettleKeeps ==
    ASSUME Course, NEW p \in Pages, PressSettle(p), ~Overlaps(p)
    PROVE  Course'
<1>1. TypesOK /\ OneCard /\ InPhase
  BY DEF Course
<1>2. UNCHANGED <<now, cards, queue, pact, drafts>> /\ page[p].phase = "proved"
      /\ page[p].at = "idle" /\ now >= Horizon(pact.paycard)
  BY DEF PressSettle, chain
<1>3. pact.opened /\ DOMAIN cards # {} /\ pact.paycard \in Card
  BY <1>1, <1>2 DEF InPhase, OneCard
<1>4. Balanced /\ Settling /\ pact \in PactState /\ pact.status \notin Forming
  BY <1>1, <1>3 DEF Course, TypesOK, InPhase
<1>5. CASE Shows(p, "settled")
  <2>1. "settled" \in Phases
    BY DEF Phases
  <2> QED
    BY <1>2, <1>3, <1>5, <2>1, EndsKeep
<1>6. CASE /\ Unrecorded # {}
           /\ Turns(p, [page[p] EXCEPT !.at = "observing", !.todo = Unrecorded])
  <2> DEFINE x == [page[p] EXCEPT !.at = "observing", !.todo = Unrecorded]
  <2>1. Unrecorded = Payouts \ pact.recorded /\ Payouts \subseteq Nat
    <3>1. DOMAIN Paycard.payouts = Payouts /\ Latest \in Nat
      BY <1>4 DEF Balanced, Entry, Payouts, Latest
    <3> QED
      BY <3>1 DEF Unrecorded, Paycard, Payouts, Latest
  <2> DEFINE U == Unrecorded
  <2>2. U \subseteq Nat
    BY <2>1
  <2> HIDE DEF U
  <2>3. x \in PageState /\ x.at = "observing" /\ x.todo = Unrecorded
    <3> DEFINE y == [page[p] EXCEPT !.at = "observing", !.todo = U]
    <3>1. y \in PageState /\ y.at = "observing" /\ y.todo = U
      BY <1>1, <2>2, PageFields DEF PageState, Places
    <3> QED
      BY <3>1 DEF U
  <2>4. Turns(p, x)
    BY <1>6
  <2> HIDE DEF x
  <2>5. page'[p] = x
    BY <1>1, <2>3, <2>4, PlacesAfterTurn
  <2>6. \A q \in Pages \ {p} : page[q].at \notin Recording
    BY DEF Overlaps
  <2>7. Payouts' = Payouts /\ (AllRecorded' <=> AllRecorded) /\ (PaidUp' <=> PaidUp)
    BY <1>2 DEF AllRecorded, Payouts, PaidUp, Paycard, Total, PayoutSum, Units
  <2>8. InTurn(p)'
    BY <1>2, <2>1, <2>3, <2>5, <2>7 DEF InTurn
  <2>9. Records(p)'
    BY <1>6, <2>1, <2>3, <2>5, <2>7, <2>8 DEF Records
  <2>10. \A q \in At({"report"})' : Reports(q)'
    BY <1>1, <1>2, <1>4, <2>3, <2>4, <2>7, ReportsStay
  <2>11. pact.recorded \subseteq Payouts /\ (pact.status = "settled" => (PaidUp /\ AllRecorded)')
    BY <1>4, <2>7 DEF Settling
  <2> QED
    BY <1>2, <1>3, <1>4, <2>3, <2>4, <2>6, <2>9, <2>10, <2>11, RecordingKeeps DEF Recording
<1>7. CASE Goes(p, "send")
  <2> DEFINE x == [page[p] EXCEPT !.at = "send"]
  <2>1. x \in PageState /\ x.at = "send"
    BY <1>1, PageFields DEF PageState, Places
  <2>2. Turns(p, x)
    BY <1>7 DEF Goes
  <2> HIDE DEF x
  <2>3. Ended
    <3>1. Horizon(pact.paycard) \in Nat /\ now \in Nat
      BY <1>1, <1>3 DEF Horizon, Card, TypesOK
    <3> QED
      BY <1>2, <3>1 DEF Ended
  <2>4. x.at \notin {"report", "drafting", "confirm", "sign", "submit"} \cup Recording
    BY <2>1 DEF Recording
  <2> QED
    BY <1>2, <1>3, <1>4, <2>1, <2>2, <2>3, <2>4, PactGoesOn
<1> QED
  BY <1>5, <1>6, <1>7 DEF PressSettle

\* Reporting one's own settlement, while nobody else records.
LEMMA ReportKeeps ==
    ASSUME Course, NEW p \in Pages, ReportSettlement(p), pact.approved => ~Overlaps(p)
    PROVE  Course'
<1>1. page[p].at = "report" /\ UNCHANGED <<now, cards, queue, pact, drafts>>
  BY DEF ReportSettlement, chain
<1>2. page[p].at \in Busy
  BY <1>1 DEF Busy
<1>3. /\ TypesOK /\ InPhase /\ pact.opened /\ DOMAIN cards # {}
      /\ Balanced /\ Settling /\ Payouts \subseteq Nat /\ Latest \in Nat
  BY <1>2, RecordsAlone
<1>4. CASE Stops(p)
  BY <1>1, <1>4, EndsKeep
<1>5. CASE pact.approved /\ Goes(p, "observing")
  <2> DEFINE x == [page[p] EXCEPT !.at = "observing"]
  <2>1. x \in PageState /\ x.at = "observing" /\ x.todo = page[p].todo
    BY <1>3, PageFields DEF PageState, Places
  <2>2. Turns(p, x)
    BY <1>5 DEF Goes
  <2> HIDE DEF x
  <2>3. /\ page'[p] = x
        /\ \A q \in At({"report"})' : q # p /\ q \in At({"report"})
    BY <1>3, <2>1, <2>2, PlacesAfterTurn
  <2>4. p \in At({"report"})
    BY <1>1 DEF At
  <2>5. At({"report"})' = {}
    BY <1>3, <2>3, <2>4 DEF Settling
  <2>6. Reports(p)
    BY <1>3, <2>4 DEF Settling
  <2>7. Payouts' = Payouts /\ (AllRecorded' <=> AllRecorded) /\ (PaidUp' <=> PaidUp)
        /\ Latest' = Latest
    BY <1>1 DEF AllRecorded, Payouts, PaidUp, Paycard, Total, PayoutSum, Units, Latest
  <2>8. Reports(p)'
    BY <1>1, <2>1, <2>3, <2>6, <2>7 DEF Reports
  <2>9. page'[p].todo # {} /\ page'[p].todo \subseteq Payouts
    BY <1>3, <2>1, <2>3, <2>6 DEF Reports, Payouts, Latest
  <2>10. Records(p)'
    BY <2>1, <2>3, <2>5, <2>7, <2>8, <2>9 DEF Records
  <2>11. \A q \in Pages \ {p} : page[q].at \notin Recording
    BY <1>5 DEF Overlaps
  <2>12. pact.recorded \subseteq Payouts /\ (pact.status = "settled" => (PaidUp /\ AllRecorded)')
         /\ pact \in PactState /\ pact.status \notin Forming
    BY <1>3, <2>7 DEF Settling, TypesOK, InPhase
  <2> QED
    BY <1>1, <1>3, <2>1, <2>2, <2>5, <2>10, <2>11, <2>12, RecordingKeeps DEF Recording
<1> QED
  BY <1>4, <1>5 DEF ReportSettlement

\* What the record reads: final means paid up, and the last payout on record.
LEMMA FinalMeansAll ==
    ASSUME Course, NEW p \in Pages, page[p].at \in Recording,
           Reaches(Min(page[p].todo)), ChainFinal(pact.paycard)
    PROVE  PaidUp /\ pact.recorded \cup {Min(page[p].todo)} = Payouts
<1>1. page[p].at \in Busy
  BY DEF Busy, Recording
<1>2. /\ Balanced /\ Settling /\ Payouts \subseteq Nat /\ Records(p)
  BY <1>1, RecordsAlone
<1>3. page[p].todo # {} /\ page[p].todo \subseteq Payouts /\ page[p].todo \subseteq Nat
  BY <1>2 DEF Records
<1>4. PICK i \in page[p].todo : i = Min(page[p].todo)
  BY <1>3, MinIsLeast
<1>5. i \in Payouts /\ pact.recorded \subseteq Payouts /\ Reaches(i)
  BY <1>2, <1>3, <1>4 DEF Settling
<1>6. CASE i \notin pact.recorded
  <2>1. Total = Life /\ pact.recorded \cup {i} = Payouts
    BY <1>2, <1>5, <1>6, ReachesAll
  <2>2. Paycard.left = 0
    BY DEF ChainFinal, Paycard
  <2> QED
    BY <1>4, <2>1, <2>2 DEF PaidUp
<1>7. CASE i \in pact.recorded
  <2>1. Reports(p)
    BY <1>2, <1>7 DEF Records, InTurn
  <2>2. i = Latest
    BY <2>1 DEF Reports
  <2> QED
    BY <1>4, <1>5, <1>7, <2>1, <2>2 DEF Reports, AllRecorded
<1> QED
  BY <1>6, <1>7

\* Reading the payout that is next.
LEMMA ObserveKeeps ==
    ASSUME Course, NEW p \in Pages, ObserveSettlement(p)
    PROVE  Course'
<1>1. page[p].at = "observing" /\ UNCHANGED <<now, cards, queue, pact, drafts>>
  BY DEF ObserveSettlement, Local, chain
<1>2. page[p].at \in Busy /\ page[p].at \in Recording
  BY <1>1 DEF Busy, Recording
<1>3. /\ TypesOK /\ InPhase /\ pact.opened /\ DOMAIN cards # {}
      /\ Balanced /\ Settling /\ Records(p)
      /\ \A q \in Pages \ {p} : page[q].at \notin Recording
  BY <1>2, RecordsAlone
<1> DEFINE i == Min(page[p].todo)
           f == Reaches(i)
           x == [page[p] EXCEPT !.at = "observed", !.final = f]
<1>4. f \in BOOLEAN
  BY DEF Reaches
<1>5. f => ChainFinal(pact.paycard)
  BY DEF ObserveSettlement
<1>6. Turns(p, x)
  BY DEF ObserveSettlement
<1>7. f => PaidUp /\ pact.recorded \cup {i} = Payouts
  BY <1>2, <1>5, FinalMeansAll
<1> HIDE DEF f, i
<1>8. x \in PageState /\ x.at = "observed" /\ x.todo = page[p].todo /\ x.final = f
  BY <1>3, <1>4, PageFields DEF PageState, Places
<1> HIDE DEF x
<1>9. page'[p] = x
      /\ \A q \in At({"report"})' : q # p /\ q \in At({"report"})
  BY <1>3, <1>6, <1>8, PlacesAfterTurn
<1>10. Payouts' = Payouts /\ (AllRecorded' <=> AllRecorded) /\ (PaidUp' <=> PaidUp)
       /\ Latest' = Latest
  BY <1>1 DEF AllRecorded, Payouts, PaidUp, Paycard, Total, PayoutSum, Units, Latest
<1>11. page'[p].todo = page[p].todo /\ pact' = pact
  BY <1>1, <1>8, <1>9
<1>12. (InTurn(p)' <=> InTurn(p)) /\ (Reports(p)' <=> Reports(p))
  BY <1>10, <1>11 DEF InTurn, Reports
<1>13. Min(page'[p].todo) = i
  BY <1>11 DEF i
<1>14. page'[p].final => PaidUp' /\ pact'.recorded \cup {Min(page'[p].todo)} = Payouts'
  BY <1>7, <1>8, <1>9, <1>10, <1>11, <1>13
<1>15. At({"report"}) = {} => At({"report"})' = {}
  BY <1>9
<1>16. Records(p)'
  BY <1>3, <1>10, <1>11, <1>12, <1>14, <1>15 DEF Records
<1>17. \A q \in At({"report"})' : Reports(q)'
  BY <1>1, <1>3, <1>6, <1>8, <1>10, ReportsStay
<1>18. pact.recorded \subseteq Payouts /\ (pact.status = "settled" => (PaidUp /\ AllRecorded)')
       /\ pact \in PactState /\ pact.status \notin Forming
  BY <1>3, <1>10 DEF Settling, TypesOK, InPhase
<1> QED
  BY <1>1, <1>3, <1>6, <1>8, <1>16, <1>17, <1>18, RecordingKeeps DEF Recording

\* Recording the payout that was read.
LEMMA RecordKeeps ==
    ASSUME Course, NEW p \in Pages, RecordSettlement(p)
    PROVE  Course'
<1>1. page[p].at = "observed" /\ UNCHANGED <<now, cards, queue, drafts>>
  BY DEF RecordSettlement, chain
<1>2. page[p].at \in Busy /\ page[p].at \in Recording
  BY <1>1 DEF Busy, Recording
<1>3. /\ TypesOK /\ InPhase /\ pact.opened /\ DOMAIN cards # {}
      /\ Balanced /\ Settling /\ Records(p) /\ Payouts \subseteq Nat /\ Latest \in Nat
      /\ \A q \in Pages \ {p} : page[q].at \notin Recording
  BY <1>2, RecordsAlone
<1>4. page[p].todo # {} /\ page[p].todo \subseteq Payouts /\ page[p].todo \subseteq Nat
  BY <1>3 DEF Records
<1>5. PICK i \in page[p].todo : i = Min(page[p].todo)
  BY <1>4, MinIsLeast
<1>6. \A j \in page[p].todo : i <= j
  BY <1>4, <1>5, MinIsLeast
<1> DEFINE rest == page[p].todo \ {i}
           status == IF page[p].final THEN "settled" ELSE pact.status
<1>7. pact' = [pact EXCEPT !.recorded = @ \cup {i}, !.status = status]
  BY <1>5 DEF RecordSettlement
<1>8. i \in Payouts /\ i \in Nat
  BY <1>4
<1>9. pact.status \notin Forming /\ status \notin Forming
  BY <1>3 DEF InPhase, Forming
<1>10. /\ pact' \in PactState /\ pact'.recorded = pact.recorded \cup {i}
       /\ pact'.status = status /\ pact'.paycard = pact.paycard
       /\ pact'.opened = pact.opened
  BY <1>3, <1>7, <1>8, PactFields DEF TypesOK, PactState
<1>11. Payouts' = Payouts /\ (PaidUp' <=> PaidUp) /\ Latest' = Latest
  BY <1>1, <1>10 DEF Payouts, PaidUp, Paycard, Total, PayoutSum, Units, Latest
<1>12. pact'.recorded \subseteq Payouts
  BY <1>3, <1>8, <1>10 DEF Settling
<1>13. AllRecorded => AllRecorded'
  BY <1>8, <1>10, <1>11 DEF AllRecorded
<1>14. pact'.status = "settled" => (PaidUp /\ AllRecorded)'
  <2>1. CASE page[p].final
    <3>1. PaidUp /\ pact.recorded \cup {i} = Payouts
      BY <1>1, <1>3, <1>5, <2>1 DEF Records
    <3> QED
      BY <1>10, <1>11, <3>1 DEF AllRecorded
  <2>2. CASE ~page[p].final
    BY <1>3, <1>10, <1>11, <1>13, <2>2 DEF Settling
  <2> QED
    BY <2>1, <2>2
<1>15. ASSUME At({"report"}) # {}, i = Latest PROVE AllRecorded'
  <2>1. InTurn(p)
    BY <1>3, <1>15 DEF Records
  <2>2. \A j \in Payouts : j <= Latest /\ j \in Nat
    BY <1>3 DEF Payouts, Latest
  <2>3. ASSUME NEW j \in Payouts PROVE j \in pact.recorded \cup {i}
    <3>1. ASSUME j \notin pact.recorded \cup page[p].todo PROVE FALSE
      <4>1. i < j
        BY <2>1, <3>1 DEF InTurn
      <4> QED
        BY <1>3, <1>15, <2>2, <4>1
    <3>2. ASSUME j \in page[p].todo PROVE j = i
      <4>1. i <= j /\ j <= i /\ i \in Nat /\ j \in Nat
        BY <1>6, <1>8, <1>15, <2>2, <3>2
      <4> QED
        BY <4>1
    <3> QED
      BY <3>1, <3>2
  <2> QED
    BY <1>10, <1>11, <1>12, <2>3 DEF AllRecorded
<1>16. PICK x \in PageState :
          /\ Turns(p, x)
          /\ \/ x.at \in {"idle", "closed"}
             \/ rest # {} /\ x.at = "observing" /\ x.todo = rest /\ x.final = FALSE
  <2>1. CASE rest = {}
    <3>1. PICK phase \in {"settled", "proved"} : Shows(p, phase)
      BY <1>5, <2>1 DEF RecordSettlement
    <3>2. phase \in Phases
      BY DEF Phases
    <3>3. Idle(phase) \in PageState /\ Idle(phase).at = "idle"
          /\ Closed \in PageState /\ Closed.at = "closed"
      BY <3>2, IdleIsPage
    <3> QED
      BY <3>1, <3>3 DEF Shows
  <2>2. CASE rest # {}
    <3> DEFINE y == [page[p] EXCEPT !.at = "observing", !.todo = rest, !.final = FALSE]
    <3>1. Turns(p, y)
      BY <1>5, <2>2 DEF RecordSettlement
    <3>2. rest \subseteq Nat
      BY <1>4
    <3> HIDE DEF rest
    <3>3. y \in PageState /\ y.at = "observing" /\ y.todo = rest /\ y.final = FALSE
      BY <1>3, <3>2, PageFields DEF PageState, Places
    <3> QED
      BY <2>2, <3>1, <3>3
  <2> QED
    BY <2>1, <2>2
<1> HIDE DEF status
<1>17. page'[p] = x
  BY <1>3, <1>16, PlacesAfterTurn
<1>18. x.at # "report" /\ x.at \in Recording \cup {"idle", "closed"}
  BY <1>16 DEF Recording
<1>19. \A q \in At({"report"})' : Reports(q)'
  <2>1. At({"report"}) # {} =>
            (Latest \in pact'.recorded => Latest \in pact.recorded \/ AllRecorded')
    BY <1>10, <1>15
  <2> QED
    BY <1>1, <1>3, <1>10, <1>13, <1>16, <1>18, <2>1, ReportsStay
<1>20. ASSUME x.at \in Recording PROVE Records(p)'
  <2>1. rest # {} /\ x.at = "observing" /\ x.todo = rest
    BY <1>16, <1>20 DEF Recording
  <2>2. InTurn(p)
    <3>1. CASE Reports(p)
      BY <1>5, <2>1, <3>1 DEF Reports
    <3> QED
      BY <1>3, <3>1 DEF Records
  <2>3. rest \cap pact'.recorded = {}
    BY <1>10, <2>2 DEF InTurn
  <2>4. \A a \in rest, j \in Payouts \ (pact'.recorded \cup rest) : a < j
    BY <1>10, <2>2 DEF InTurn
  <2>5. InTurn(p)'
    BY <1>11, <1>17, <2>1, <2>3, <2>4 DEF InTurn
  <2>6. page'[p].todo # {} /\ page'[p].todo \subseteq Payouts' /\ page'[p].at # "observed"
    BY <1>4, <1>11, <1>17, <2>1
  <2> QED
    BY <2>5, <2>6 DEF Records
<1> QED
  BY <1>1, <1>3, <1>9, <1>10, <1>12, <1>14, <1>16, <1>18, <1>19, <1>20, RecordingKeeps

-----------------------------------------------------------------------------
(* The vault and the queue.                                                *)

\* The queue has lost transactions at most.
Shorter ==
    /\ queue' \in Seq(Transaction)
    /\ \A i \in 1..Len(queue') : \E j \in 1..Len(queue) : queue'[i] = queue[j]

\* A page stays as it is, or has its receipt.
Receives(q) ==
    \/ page'[q] = page[q]
    \/ page'[q].at \in {"confirm", "report"} /\ page'[q].phase = page[q].phase

\* Receipts bring nothing new to sign or to send, and no page to record.
LEMMA ReceiptsOnly ==
    ASSUME TypesOK, Shorter, \A q \in Pages : Receives(q)
    PROVE  /\ Signing' \subseteq Signing /\ Sent' \subseteq Sent
           /\ \A S : S \cap {"confirm", "report"} = {} =>
                  \A q \in At(S)' : q \in At(S) /\ q \in Pages /\ page'[q] = page[q]
<1>1. ASSUME NEW S, S \cap {"confirm", "report"} = {}, NEW q \in At(S)'
      PROVE  q \in At(S) /\ q \in Pages /\ page'[q] = page[q]
  <2>1. q \in Pages /\ page'[q].at \in S
    BY <1>1 DEF At
  <2> QED
    BY <1>1, <2>1 DEF Receives, At
<1>2. \A q \in At({"sign"})' : q \in At({"sign"}) /\ page'[q] = page[q]
  BY <1>1
<1>3. \A q \in At({"submit"})' : q \in At({"submit"}) /\ page'[q] = page[q]
  BY <1>1
<1>4. Signing' \subseteq Signing
  BY <1>2 DEF Signing
<1>5. ASSUME NEW c \in Sent' PROVE c \in Sent
  <2>1. CASE c \in {page'[q].card : q \in At({"submit"})'}
    BY <1>3, <2>1 DEF Sent
  <2>2. CASE c \in {queue'[i].card : i \in {j \in 1..Len(queue') : queue'[j].kind = "open"}}
    BY <2>2 DEF Sent, Shorter
  <2> QED
    BY <1>5, <2>1, <2>2 DEF Sent
<1> QED
  BY <1>1, <1>4, <1>5

\* Taking the first transaction off the queue.
LEMMA TakenOff ==
    ASSUME TypesOK, queue # <<>>, queue' = Tail(queue)
    PROVE  Shorter /\ Head(queue) = queue[1] /\ 1 \in 1..Len(queue)
           /\ queue[1] \in Transaction
<1>1. queue \in Seq(Transaction)
  BY DEF TypesOK
<1>2. /\ Tail(queue) \in Seq(Transaction) /\ Len(Tail(queue)) = Len(queue) - 1
      /\ \A i \in 1..Len(Tail(queue)) : Tail(queue)[i] = queue[i + 1]
      /\ Head(queue) = queue[1]
  BY <1>1, HeadTailProperties
<1>3. Len(queue) \in Nat /\ Len(queue) >= 1
  BY <1>1, EmptySeq
<1>4. \A i \in 1..Len(Tail(queue)) : i + 1 \in 1..Len(queue)
  BY <1>2, <1>3
<1>5. 1 \in 1..Len(queue) /\ queue[1] \in Transaction
  BY <1>1, <1>3
<1> QED
  BY <1>2, <1>4, <1>5 DEF Shorter

\* A transaction that is reverted.
LEMMA RevertKeeps ==
    ASSUME Course, Shorter, UNCHANGED <<now, cards, pact, drafts, page>>
    PROVE  Course'
<1>1. TypesOK /\ OneDraft /\ OneCard /\ InPhase
  BY DEF Course
<1>2. TypesOK' /\ \A q \in Pages : Receives(q)
  BY <1>1 DEF TypesOK, Shorter, Receives
<1>3. Signing' \subseteq Signing /\ Sent' \subseteq Sent
  BY <1>1, <1>2, ReceiptsOnly
<1>4. \A S : At(S)' = At(S)
  BY DEF At
<1>5. Out' = Out
  BY DEF Out
<1>6. OneDraft' /\ OneCard'
  <2>1. \A q \in At({"drafting"})' : q \in At({"drafting"}) /\ page'[q].nonce = page[q].nonce
    BY <1>4
  <2>2. DOMAIN cards = {} => ~pact'.opened /\ At({"confirm"})' = {}
    BY <1>1, <1>4 DEF OneCard
  <2> QED
    BY <1>1, <1>3, <1>5, <2>1, <2>2, DraftsStay DEF Afoot
<1>7. Ended' <=> Ended
  BY DEF Ended, Horizon
<1>8. InPhase'
  <2>1. \A i \in 1..Len(queue') : queue'[i].kind = "settle" =>
            queue'[i].card = pact'.paycard /\ pact'.opened /\ Ended'
    BY <1>1, <1>7 DEF InPhase, Shorter
  <2>2. At({"send"})' # {} => Ended'
    BY <1>1, <1>4, <1>7 DEF InPhase
  <2>3. ~pact'.opened => /\ pact'.recorded = {} /\ At(Busy)' = {}
                         /\ \A p \in Pages : page'[p].phase \in {"pact", "left"}
    BY <1>1, <1>4 DEF InPhase, Busy
  <2> QED
    BY <1>1, <2>1, <2>2, <2>3 DEF InPhase, Busy
<1>9. ASSUME DOMAIN cards # {} PROVE Balanced' /\ Settling'
  <2>1. Balanced /\ Settling
    BY <1>9 DEF Course
  <2>2. Balanced'
    BY <2>1 DEF Balanced, Paycard, Payouts, Total, PayoutSum, Units, Horizon
  <2>3. Settling'
    BY <2>1, SettlingStays DEF At
  <2> QED
    BY <2>2, <2>3
<1> QED
  BY <1>2, <1>6, <1>8, <1>9 DEF Course

\* Time passes: drafts expire, and a term that is over stays over.
LEMMA ClockTickKeeps ==
    ASSUME Course, ClockTick
    PROVE  Course'
<1>1. TypesOK /\ OneDraft /\ OneCard /\ InPhase /\ now \in Nat
  BY DEF Course, TypesOK
<1>2. now' = now + 1 /\ UNCHANGED <<cards, queue, pact, drafts, page>>
  BY DEF ClockTick, chain
<1>3. TypesOK'
  BY <1>1, <1>2 DEF TypesOK
<1>4. \A S : At(S)' = At(S)
  BY <1>2 DEF At
<1>5. Out' = Out /\ Signing' = Signing /\ Sent' = Sent
  BY <1>2 DEF Out, Signing, Sent, At
<1>6. Afoot' = Afoot
  BY <1>5 DEF Afoot
<1>7. ASSUME NEW c \in Card PROVE Horizon(c)' = Horizon(c) /\ Horizon(c) \in Nat
  BY DEF Horizon, Card
<1>8. ASSUME NEW c \in Card PROVE Live(c)' => Live(c)
  BY <1>1, <1>2, <1>7 DEF Live
<1>9. \A c \in Afoot : Live(c)' => Live(c)
  BY <1>1, <1>8 DEF OneDraft
<1>10. OneDraft'
  <2>1. \A c, d \in Afoot' : Live(c)' /\ Live(d)' => c = d
    BY <1>1, <1>6, <1>9 DEF OneDraft
  <2>2. \A c \in Sent' : Live(c)' => c = pact'.paycard
    BY <1>1, <1>2, <1>5, <1>9 DEF OneDraft, Afoot
  <2>3. At({"drafting"})' # {} => \A c \in Out' : ~Live(c)'
    BY <1>1, <1>4, <1>5, <1>9 DEF OneDraft, Afoot
  <2> QED
    BY <1>1, <1>4, <1>6, <2>1, <2>2, <2>3 DEF OneDraft
<1>11. OneCard'
  <2>1. CASE DOMAIN cards = {}
    BY <1>1, <1>2, <1>4, <1>5, <1>6, <1>9, <2>1 DEF OneCard
  <2>2. CASE DOMAIN cards # {}
    BY <1>1, <1>2, <1>6, <1>9, <2>2 DEF OneCard
  <2> QED
    BY <2>1, <2>2
<1>12. pact.opened /\ Ended => Ended'
  <2> SUFFICES ASSUME pact.opened, Ended PROVE Ended'
    OBVIOUS
  <2>1. pact.paycard \in Card
    BY <1>1 DEF OneCard
  <2>2. Horizon(pact.paycard)' = Horizon(pact.paycard) /\ Horizon(pact.paycard) \in Nat
    BY <1>2, <2>1 DEF Horizon, Card
  <2> QED
    BY <1>1, <1>2, <2>2 DEF Ended
<1>13. InPhase'
  <2>1. At({"send"}) # {} => pact.opened
    BY <1>1 DEF InPhase, At
  <2> QED
    BY <1>1, <1>2, <1>4, <1>12, <2>1 DEF InPhase
<1>14. ASSUME DOMAIN cards # {} PROVE Balanced' /\ Settling'
  <2>1. Balanced /\ Settling
    BY <1>14 DEF Course
  <2>2. Balanced'
    BY <1>2, <2>1 DEF Balanced, Paycard, Payouts, Total, PayoutSum, Units, Horizon
  <2>3. Settling'
    BY <1>2, <2>1, SettlingStays DEF At
  <2> QED
    BY <2>2, <2>3
<1> QED
  BY <1>2, <1>3, <1>10, <1>11, <1>13, <1>14 DEF Course

\* What a settlement does to the Paycard: it never pays more than is left, and
\* all of it when the term is over.
LEMMA SettledIs ==
    ASSUME TypesOK, Balanced, pact.paycard \in Card, Paycard.left > 0
    PROVE  LET c == pact.paycard
               d == Due(c)
               e == SettledCard(c)
           IN  /\ d \in Int /\ d <= Paycard.left
               /\ Ended => d = Paycard.left
               /\ d <= 0 => e = Paycard
               /\ d > 0 => /\ e \in Entry /\ e.left = Paycard.left - d
                           /\ e.since = Paycard.since + d
                           /\ e.payouts = Append(Paycard.payouts, d)
<1> DEFINE c == pact.paycard
           H == Horizon(c)
           d == Due(c)
           e == SettledCard(c)
<1>1. Paycard \in Entry /\ cards[c] = Paycard /\ Paycard.since + Paycard.left = H
  BY DEF Balanced, Paycard
<1>2. Paycard.left \in Nat /\ Paycard.since \in Nat /\ H \in Nat /\ now \in Nat
  BY <1>1 DEF Entry, TypesOK, Horizon, Card
<1>3. d = Lesser(now, H) - Paycard.since
  BY <1>1 DEF Due
<1>4. d \in Int /\ d <= Paycard.left /\ (H <= now => d = Paycard.left)
  BY <1>1, <1>2, <1>3 DEF Lesser
<1>5. Ended => d = Paycard.left
  BY <1>4 DEF Ended
<1>6. d <= 0 => e = Paycard
  BY <1>1 DEF SettledCard
<1>7. ASSUME d > 0
      PROVE  /\ e \in Entry /\ e.left = Paycard.left - d
             /\ e.since = Paycard.since + d /\ e.payouts = Append(Paycard.payouts, d)
  <2>1. ~(d <= 0)
    BY <1>4, <1>7
  <2>2. e = [Paycard EXCEPT !.left = @ - d, !.since = @ + d, !.payouts = Append(@, d)]
    BY <1>1, <2>1 DEF SettledCard
  <2>3. Paycard.left - d \in Nat /\ Paycard.since + d \in Nat /\ d \in Nat \ {0}
    BY <1>2, <1>4, <1>7
  <2> HIDE DEF d
  <2>4. Append(Paycard.payouts, d) \in Seq(Nat \ {0})
    BY <1>1, <2>3, AppendProperties DEF Entry
  <2>5. e \in Entry /\ e.left = Paycard.left - d
        /\ e.since = Paycard.since + d /\ e.payouts = Append(Paycard.payouts, d)
    BY <1>1, <2>2, <2>3, <2>4 DEF Entry
  <2> QED
    BY <2>5
<1> QED
  BY <1>4, <1>5, <1>6, <1>7

\* One payout more adds its units.
LEMMA UnitsGrow ==
    ASSUME Balanced, NEW d \in Nat \ {0}, pact' = pact,
           Paycard'.payouts = Append(Paycard.payouts, d)
    PROVE  /\ Latest \in Nat /\ Latest' = Latest + 1
           /\ IsFiniteSet(Units(pact.paycard, Payouts)') /\ Total' = Total + d
<1> DEFINE c == pact.paycard
           n == Latest
           W == Units(c, Payouts)
           N == {<<n + 1, k>> : k \in 1..d}
<1>1. /\ Paycard.payouts \in Seq(Nat \ {0}) /\ n \in Nat /\ Payouts = 1..n
      /\ n = Len(Paycard.payouts)
  BY DEF Balanced, Entry, Latest, Payouts
<1>2. /\ Len(Paycard'.payouts) = n + 1
      /\ \A i \in 1..n : Paycard'.payouts[i] = Paycard.payouts[i]
      /\ Paycard'.payouts[n + 1] = d
  BY <1>1, AppendProperties
<1>3. Latest' = n + 1 /\ Payouts' = 1..(n + 1)
  BY <1>2 DEF Latest, Payouts
<1>4. cards[c] = Paycard /\ cards'[c] = Paycard'
  BY DEF Paycard
<1>5. \A u : u \in W <=> \E i \in 1..n : \E k \in 1..Paycard.payouts[i] : u = <<i, k>>
  <2>1. W = UNION {{i} \X (1..Paycard.payouts[i]) : i \in 1..n}
    BY <1>1, <1>4 DEF Units
  <2> QED
    BY <2>1, UnitIn
<1>6. Units(c, Payouts)' = UNION {{i} \X (1..Paycard'.payouts[i]) : i \in 1..(n + 1)}
  BY <1>3, <1>4 DEF Units
<1>7. \A u : u \in Units(c, Payouts)' <=>
          \E i \in 1..(n + 1) : \E k \in 1..Paycard'.payouts[i] : u = <<i, k>>
  <2> DEFINE Q == Paycard'.payouts
             S == 1..(n + 1)
  <2>1. Units(c, Payouts)' = UNION {{i} \X (1..Q[i]) : i \in S}
    BY <1>6
  <2> HIDE DEF Q, S
  <2>2. \A u : u \in Units(c, Payouts)' <=> \E i \in S : \E k \in 1..Q[i] : u = <<i, k>>
    BY <2>1, UnitIn
  <2> QED
    BY <2>2 DEF Q, S
<1> HIDE DEF W, n
<1>8. 1..(n + 1) = 1..n \cup {n + 1} /\ n + 1 \notin 1..n
  BY <1>1
<1>9. Units(c, Payouts)' = W \cup N
  <2>1. ASSUME NEW u \in Units(c, Payouts)' PROVE u \in W \cup N
    <3>1. PICK i \in 1..(n + 1) : \E k \in 1..Paycard'.payouts[i] : u = <<i, k>>
      BY <1>7, <2>1
    <3>2. CASE i \in 1..n
      BY <1>2, <1>5, <3>1, <3>2
    <3>3. CASE i = n + 1
      BY <1>2, <3>1, <3>3
    <3> QED
      BY <1>8, <3>2, <3>3
  <2>2. ASSUME NEW u \in W PROVE u \in Units(c, Payouts)'
    BY <1>2, <1>5, <1>7, <1>8, <2>2
  <2>3. ASSUME NEW u \in N PROVE u \in Units(c, Payouts)'
    BY <1>2, <1>7, <1>8, <2>3
  <2> QED
    BY <2>1, <2>2, <2>3
<1>10. W \cap N = {}
  BY <1>5, <1>8
<1>11. IsFiniteSet(N) /\ Cardinality(N) = d
  <2> DEFINE f == [k \in 1..d |-> <<n + 1, k>>]
  <2>1. IsFiniteSet(1..d) /\ Cardinality(1..d) = d
    <3>1. 1 \in Int /\ d \in Int /\ d >= 1
      OBVIOUS
    <3>2. IsFiniteSet(1..d) /\ Cardinality(1..d) = IF 1 > d THEN 0 ELSE d - 1 + 1
      BY <3>1, FS_Interval
    <3> QED
      BY <3>1, <3>2
  <2>2. f \in Bijection(1..d, N)
    BY DEF Bijection, Injection, Surjection, IsInjective
  <2>3. ExistsBijection(1..d, N)
    BY <2>2 DEF ExistsBijection
  <2> QED
    BY <2>1, <2>3, FS_Bijection
<1>12. IsFiniteSet(W) /\ Cardinality(W) = Total
  BY DEF Balanced, W, Total, PayoutSum
<1> HIDE DEF N
<1>13. Cardinality(W) \in Nat
  BY <1>12, FS_CardinalityType
<1>14. IsFiniteSet(W \cup N)
       /\ Cardinality(W \cup N) = Cardinality(W) + Cardinality(N) - Cardinality(W \cap N)
  BY <1>11, <1>12, FS_Union
<1>15. Cardinality(W \cap N) = 0
  <2>1. Cardinality({}) = 0
    BY FS_EmptySet
  <2> QED
    BY <1>10, <2>1
<1>16. Cardinality(W \cup N) = Total + d
  BY <1>11, <1>12, <1>13, <1>14, <1>15
<1>17. Total' = Cardinality(Units(c, Payouts)')
  BY DEF Total, PayoutSum
<1> QED
  BY <1>1, <1>3, <1>9, <1>14, <1>16, <1>17 DEF n

\* The balance after a settlement, or a settlement and a flush.
LEMMA BalancedAfter ==
    ASSUME TypesOK, Balanced, pact.paycard \in Card, Paycard.left > 0,
           pact' = pact, now' = now,
           NEW e, e = SettledCard(pact.paycard), Paycard' \in Entry,
           Paycard'.payouts = e.payouts,
           \/ Paycard'.left = 0
           \/ Paycard'.left = e.left /\ Paycard'.since = e.since
    PROVE  /\ Balanced' /\ Latest \in Nat
           /\ Due(pact.paycard) <= 0 => Latest' = Latest
           /\ Due(pact.paycard) > 0 => Latest' = Latest + 1
           /\ Ended /\ Paycard'.left = e.left => Latest' = Latest + 1 /\ PaidUp'
<1> DEFINE c == pact.paycard
<1>1. PICK d \in Int : d = Due(c)
  BY SettledIs
<1>2. /\ d <= Paycard.left
      /\ Ended => d = Paycard.left
      /\ d <= 0 => e = Paycard
      /\ d > 0 => /\ e \in Entry /\ e.left = Paycard.left - d
                  /\ e.since = Paycard.since + d
                  /\ e.payouts = Append(Paycard.payouts, d)
  BY <1>1, SettledIs
<1>3. /\ Paycard \in Entry /\ Paycard.left \in Nat /\ Paycard.since \in Nat
      /\ Total + Paycard.left = Life /\ Paycard.since + Paycard.left = Horizon(c)
      /\ IsFiniteSet(Units(c, Payouts)) /\ Latest \in Nat
  BY DEF Balanced, Entry, Latest
<1>4. Total \in Nat /\ Life \in Nat
  BY <1>3, FS_CardinalityType DEF Total, PayoutSum
<1>5. Paycard'.left \in Nat /\ Horizon(c)' = Horizon(c)
  BY DEF Entry, Horizon
<1>6. CASE d <= 0
  <2>1. Paycard'.payouts = Paycard.payouts /\ e = Paycard
    BY <1>2, <1>6
  <2>2. Payouts' = Payouts /\ Latest' = Latest
    BY <2>1 DEF Payouts, Latest
  <2>3. Units(c, Payouts)' = Units(c, Payouts)
    BY <2>1, <2>2 DEF Units, Paycard
  <2>4. Total' = Total
    BY <2>3 DEF Total, PayoutSum
  <2>5. Total' + Paycard'.left <= Life
    BY <1>3, <1>4, <1>5, <2>1, <2>4
  <2>6. Paycard'.left > 0 => /\ Total' + Paycard'.left = Life
                             /\ Paycard'.since + Paycard'.left = Horizon(c)'
    BY <1>3, <1>4, <1>5, <2>1, <2>4
  <2>7. Balanced'
    BY <1>3, <2>3, <2>5, <2>6 DEF Balanced
  <2>8. ~Ended
    BY <1>2, <1>3, <1>6
  <2> QED
    BY <1>1, <1>3, <1>6, <2>2, <2>7, <2>8
<1>7. CASE d > 0
  <2>1. d \in Nat \ {0} /\ Paycard'.payouts = Append(Paycard.payouts, d)
    BY <1>2, <1>7
  <2>2. /\ Latest' = Latest + 1
        /\ IsFiniteSet(Units(pact.paycard, Payouts)') /\ Total' = Total + d
    BY <2>1, UnitsGrow
  <2>3. e.left = Paycard.left - d /\ e.since = Paycard.since + d
    BY <1>2, <1>7
  <2> DEFINE t == Total
             l == Paycard.left
             s == Paycard.since
             H == Horizon(c)
             tt == Total'
             ll == Paycard'.left
             ss == Paycard'.since
             HH == Horizon(c)'
  <2>4. /\ t \in Nat /\ l \in Nat /\ s \in Nat /\ Life \in Nat /\ d \in Int /\ d <= l
        /\ t + l = Life /\ s + l = H /\ tt = t + d /\ HH = H
        /\ ll = 0 \/ (ll = l - d /\ ss = s + d)
    BY <1>2, <1>3, <1>4, <1>5, <2>2, <2>3
  <2> HIDE DEF t, l, s, H, tt, ll, ss, HH
  <2>5. tt + ll <= Life /\ (ll > 0 => tt + ll = Life /\ ss + ll = HH)
    BY <2>4
  <2> USE DEF t, l, s, H, tt, ll, ss, HH
  <2>6. Balanced'
    BY <2>2, <2>5 DEF Balanced
  <2>7. Ended /\ Paycard'.left = e.left => Paycard'.left = 0 /\ Total' = Life
    BY <1>2, <1>3, <1>4, <2>2, <2>3
  <2> QED
    BY <1>1, <1>3, <1>7, <2>2, <2>6, <2>7 DEF PaidUp
<1> QED
  BY <1>6, <1>7

\* While something is left nobody reports, and what is recorded stays in turn
\* when payouts are added at the end.
LEMMA GrowthKeeps ==
    ASSUME Course, DOMAIN cards # {}, Paycard.left > 0,
           UNCHANGED <<now, pact, drafts>>, Shorter,
           DOMAIN cards' = DOMAIN cards, Balanced',
           Latest \in Nat, Latest' \in Nat, Latest' >= Latest,
           page' \in [Pages -> PageState],
           \A q \in Pages :
               \/ page'[q] = page[q]
               \/ /\ page'[q].at = "report" /\ page'[q].phase = page[q].phase
                  /\ page'[q].todo = {Latest'} /\ Latest' > Latest /\ PaidUp' /\ pact.opened,
           \A q, r \in Pages : page'[q] # page[q] /\ page'[r] # page[r] => q = r
    PROVE  Course'
<1>1. TypesOK /\ OneDraft /\ OneCard /\ InPhase /\ Balanced /\ Settling
  BY DEF Course
<1>2. TypesOK' /\ \A q \in Pages : Receives(q)
  BY <1>1 DEF TypesOK, Shorter, Receives
<1>3. /\ Signing' \subseteq Signing /\ Sent' \subseteq Sent
      /\ \A S : S \cap {"confirm", "report"} = {} =>
             \A q \in At(S)' : q \in At(S) /\ q \in Pages /\ page'[q] = page[q]
  BY <1>1, <1>2, ReceiptsOnly
<1>4. Out' = Out
  BY DEF Out
<1>5. OneDraft' /\ OneCard'
  <2>1. \A q \in At({"drafting"})' : q \in At({"drafting"}) /\ page'[q].nonce = page[q].nonce
    BY <1>3
  <2> QED
    BY <1>1, <1>3, <1>4, <2>1, DraftsStay DEF Afoot
<1>6. Ended' <=> Ended
  BY DEF Ended, Horizon
<1>7. InPhase'
  <2>1. \A i \in 1..Len(queue') : queue'[i].kind = "settle" =>
            queue'[i].card = pact'.paycard /\ pact'.opened /\ Ended'
    BY <1>1, <1>6 DEF InPhase, Shorter
  <2>2. At({"send"})' # {} => Ended'
    BY <1>1, <1>3, <1>6 DEF InPhase
  <2>3. ASSUME ~pact.opened
        PROVE  /\ pact.recorded = {} /\ At(Busy)' = {}
               /\ \A p \in Pages : page'[p].phase \in {"pact", "left"}
    <3>1. \A q \in Pages : page'[q] = page[q]
      BY <2>3
    <3> QED
      BY <1>1, <2>3, <3>1 DEF InPhase, Busy, At
  <2> QED
    BY <1>1, <2>1, <2>2, <2>3 DEF InPhase, Busy
<1>8. ~PaidUp /\ pact.status # "settled" /\ At({"report"}) = {}
  BY <1>1 DEF PaidUp, Settling, Reports
<1>9. Payouts \subseteq Payouts' /\ \A j \in Payouts' \ Payouts : \A i \in Payouts : i < j
  BY DEF Payouts, Latest
<1>10. pact.recorded \subseteq Payouts
  BY <1>1 DEF Settling
<1>11. \A q \in At({"report"})' : q \in Pages /\ page'[q] # page[q]
  BY <1>8 DEF At
<1>12. ASSUME NEW q \in At({"report"})' PROVE Reports(q)'
  <2>1. q \in Pages /\ page'[q].todo = {Latest'} /\ Latest' > Latest /\ PaidUp'
    BY <1>11, <1>12
  <2>2. Latest' \notin pact.recorded
    BY <1>10, <2>1 DEF Payouts, Latest
  <2> QED
    BY <2>1, <2>2 DEF Reports
<1>13. \A q \in At(Recording)' : q \in At(Recording) /\ q \in Pages /\ page'[q] = page[q]
  <2>1. Recording \cap {"confirm", "report"} = {}
    BY DEF Recording
  <2> QED
    BY <1>3, <2>1
<1>14. ASSUME NEW q \in At(Recording)' PROVE Records(q)'
  <2>1. Records(q) /\ page'[q] = page[q]
    BY <1>1, <1>13, <1>14 DEF Settling
  <2>2. page[q].todo # {} /\ page[q].todo \subseteq Payouts /\ InTurn(q)
        /\ ~(page[q].at = "observed" /\ page[q].final)
    BY <1>8, <2>1 DEF Records, Reports
  <2>3. InTurn(q)'
    BY <1>9, <2>1, <2>2 DEF InTurn
  <2> QED
    BY <1>9, <2>1, <2>2, <2>3 DEF Records
<1>15. Settling'
  <2>1. \A q, r \in At({"report"})' : q = r
    BY <1>11
  <2>2. \A q, r \in At(Recording)' : q = r
    BY <1>1, <1>13 DEF Settling
  <2> QED
    BY <1>8, <1>9, <1>10, <1>12, <1>14, <2>1, <2>2 DEF Settling
<1> QED
  BY <1>2, <1>5, <1>7, <1>15 DEF Course

\* A Paycard that takes another state, among the others.
LEMMA WithCardIs ==
    ASSUME NEW c, NEW e, cards' = WithCard(c, e)
    PROVE  DOMAIN cards' = DOMAIN cards \cup {c} /\ cards'[c] = e
BY DEF WithCard

\* Others settle or flush the Paycard.
LEMMA OthersKeep ==
    ASSUME Course, NEW c \in DOMAIN cards, OthersSettle(c) \/ OthersFlush(c)
    PROVE  Course'
<1>1. TypesOK /\ OneCard /\ DOMAIN cards # {}
  BY DEF Course
<1>2. c = pact.paycard /\ c \in Card /\ DOMAIN cards = {c}
  <2>1. DOMAIN cards = {pact.paycard} /\ pact.paycard \in Card
    BY <1>1 DEF OneCard
  <2>2. c = pact.paycard
    BY <2>1
  <2> QED
    BY <2>1, <2>2
<1>3. Balanced /\ UNCHANGED <<now, queue, pact, drafts, page>>
  BY <1>1 DEF Course, OthersSettle, OthersFlush
<1>4. Paycard = cards[c] /\ Paycard \in Entry /\ Paycard.left \in Nat /\ Paycard.left # 0
  BY <1>2, <1>3 DEF Paycard, Balanced, Entry, OthersSettle, OthersFlush, ChainFinal
<1>5. Paycard.left > 0
  BY <1>4
<1>6. PICK e : e = SettledCard(c)
  OBVIOUS
<1>7. e \in Entry
  BY <1>1, <1>2, <1>3, <1>4, <1>5, <1>6, SettledIs
<1>8. /\ DOMAIN cards' = DOMAIN cards /\ Paycard' \in Entry /\ Paycard'.payouts = e.payouts
      /\ \/ Paycard'.left = 0
         \/ Paycard'.left = e.left /\ Paycard'.since = e.since
  <2>1. CASE OthersSettle(c)
    <3>1. cards' = WithCard(c, e)
      BY <1>6, <2>1 DEF OthersSettle
    <3>2. DOMAIN cards' = DOMAIN cards \cup {c} /\ cards'[c] = e
      BY <3>1, WithCardIs
    <3> QED
      BY <1>2, <1>3, <1>7, <3>2 DEF Paycard
  <2>2. CASE OthersFlush(c)
    <3> DEFINE b == e.left > 0
               f == [e EXCEPT !.left = 0, !.flushed = b]
    <3>1. cards' = WithCard(c, f)
      BY <1>6, <2>2 DEF OthersFlush
    <3>4. b \in BOOLEAN /\ 0 \in Nat
      OBVIOUS
    <3> HIDE DEF b
    <3>2. f \in Entry /\ f.left = 0 /\ f.payouts = e.payouts
      BY <1>7, <3>4 DEF Entry
    <3> HIDE DEF f
    <3>3. DOMAIN cards' = DOMAIN cards \cup {c} /\ cards'[c] = f
      BY <3>1, WithCardIs
    <3> QED
      BY <1>2, <1>3, <3>2, <3>3 DEF Paycard
  <2> QED
    BY <2>1, <2>2
<1>9. /\ Balanced' /\ Latest \in Nat
      /\ Due(c) <= 0 => Latest' = Latest
      /\ Due(c) > 0 => Latest' = Latest + 1
  BY <1>1, <1>2, <1>3, <1>5, <1>6, <1>8, BalancedAfter
<1>10. Due(c) \in Int
  BY <1>1, <1>2, <1>3, <1>5, SettledIs
<1>11. Latest' \in Nat /\ Latest' >= Latest
  BY <1>9, <1>10
<1>12. Shorter /\ page' \in [Pages -> PageState]
  BY <1>1, <1>3 DEF TypesOK, Shorter
<1> QED
  BY <1>1, <1>3, <1>5, <1>8, <1>9, <1>11, <1>12, GrowthKeeps

\* The opening of the Paycard: the one the Pact was prepared for, and the first.
LEMMA ProvisionKeeps ==
    ASSUME Course, Mine, Provisions(Head(queue))
    PROVE  Course'
<1>1. TypesOK /\ OneDraft /\ OneCard /\ InPhase
  BY DEF Course
<1>2. /\ queue # <<>> /\ queue' = Tail(queue)
      /\ UNCHANGED <<now, pact, drafts>>
  BY DEF Mine
<1>3. Shorter /\ Head(queue) = queue[1] /\ 1 \in 1..Len(queue) /\ queue[1] \in Transaction
  BY <1>1, <1>2, TakenOff
<1> DEFINE c == queue[1].card
<1>4. queue[1].kind = "open" /\ c.nonce = Nonce /\ Live(c)
  BY <1>3 DEF Provisions, Live
<1>5. c \in Sent /\ c \in Afoot /\ c = pact.paycard /\ c \in Card /\ c.nonce = 0
  <2>1. c \in Sent
    BY <1>3, <1>4 DEF Sent
  <2> QED
    BY <1>1, <1>4, <2>1 DEF Afoot, OneDraft
<1>6. DOMAIN cards = {}
  <2>1. Nonce = 0
    BY <1>4, <1>5
  <2>2. Cardinality({pact.paycard}) = 1
    BY FS_Singleton
  <2> QED
    BY <1>1, <2>1, <2>2 DEF OneCard, Nonce
<1>7. ~pact.opened /\ pact.recorded = {} /\ pact.status \in Forming /\ ~pact.approved
  BY <1>1, <1>6 DEF OneCard, InPhase
<1> DEFINE e == [left |-> Life, since |-> c.genesis, payouts |-> <<>>, flushed |-> FALSE]
<1>8. DOMAIN cards' = {c} /\ cards'[c] = e
  <2>1. cards' = WithCard(c, e)
    BY <1>3 DEF Mine
  <2> QED
    BY <1>6, <2>1, WithCardIs
<1>9. page' \in [Pages -> PageState]
      /\ \A q \in Pages : 
            page'[q] = page[q] \/ (page'[q].at = "confirm" /\ page'[q].phase = page[q].phase)
  <2>1. page' = AfterReceipt(queue[1])
    BY <1>3 DEF Mine
  <2>2. Provisions(queue[1])
    BY <1>3
  <2>3. CASE queue[1].page = None
    <3>1. page' = page
      BY <2>1, <2>3 DEF AfterReceipt
    <3> QED
      BY <1>1, <3>1 DEF TypesOK
  <2>4. CASE queue[1].page # None
    <3>1. PICK p \in Pages : p = queue[1].page
      BY <1>3, <2>4 DEF Transaction
    <3>2. page' = [page EXCEPT ![p].at = "confirm"]
      BY <2>1, <2>2, <2>4, <3>1 DEF AfterReceipt
    <3>3. Goes(p, "confirm") /\ "confirm" \in Places
      BY <1>1, <3>2 DEF Goes, Turns, Places, TypesOK
    <3> QED
      BY <1>1, <3>3, GoesFields
  <2> QED
    BY <2>3, <2>4
<1>10. \A q \in Pages : Receives(q)
  BY <1>9 DEF Receives
<1>11. /\ Signing' \subseteq Signing /\ Sent' \subseteq Sent
       /\ \A S : S \cap {"confirm", "report"} = {} =>
              \A q \in At(S)' : q \in At(S) /\ q \in Pages /\ page'[q] = page[q]
  BY <1>1, <1>3, <1>10, ReceiptsOnly
<1>12. Out' = Out /\ (\A d : Live(d)' <=> Live(d)) /\ (Ended' <=> Ended)
  BY <1>2 DEF Out, Live, Ended, Horizon
<1>13. Afoot' \subseteq Afoot
  BY <1>11, <1>12 DEF Afoot
<1>14. TypesOK'
  BY <1>1, <1>2, <1>3, <1>9 DEF TypesOK, Shorter
<1>15. OneDraft'
  <2>1. \A d \in Afoot' : d \in Card /\ d.nonce = 0
    BY <1>1, <1>13 DEF OneDraft
  <2>2. \A d, f \in Afoot' : Live(d)' /\ Live(f)' => d = f
    BY <1>1, <1>12, <1>13 DEF OneDraft
  <2>3. \A d \in Sent' : Live(d)' => d = pact'.paycard
    BY <1>1, <1>2, <1>11, <1>12 DEF OneDraft
  <2>4. \A q \in At({"drafting"})' : q \in At({"drafting"})
    BY <1>11
  <2>5. \A q, r \in At({"drafting"})' : q = r
    BY <1>1, <2>4 DEF OneDraft
  <2>6. At({"drafting"})' # {} => \A d \in Out' : ~Live(d)'
    BY <1>1, <1>12, <2>4 DEF OneDraft
  <2> QED
    BY <2>1, <2>2, <2>3, <2>5, <2>6 DEF OneDraft
<1>16. OneCard'
  <2>1. \A d \in Afoot' : Live(d)' => d = pact'.paycard
    BY <1>1, <1>2, <1>4, <1>5, <1>12, <1>13 DEF OneDraft
  <2> QED
    BY <1>2, <1>5, <1>8, <2>1 DEF OneCard
<1>17. At(Busy)' = {}
  <2>1. At(Busy) = {}
    BY <1>1, <1>7 DEF InPhase, Busy
  <2>2. \A q \in Pages : page'[q].at \in Busy => page[q].at \in Busy
    BY <1>9 DEF Busy
  <2> QED
    BY <2>1, <2>2 DEF At
<1>18. InPhase'
  <2>1. \A i \in 1..Len(queue') : queue'[i].kind # "settle"
    BY <1>1, <1>3, <1>7 DEF InPhase, Shorter
  <2>2. \A q \in Pages : page'[q].phase \in {"pact", "left"}
    BY <1>1, <1>7, <1>9 DEF InPhase
  <2>3. At({"send"})' = {}
    BY <1>17 DEF At, Busy
  <2>4. (pact'.opened <=> pact'.status \notin Forming) /\ (pact'.approved => pact'.opened)
    BY <1>1, <1>2 DEF InPhase
  <2> QED
    BY <1>2, <1>7, <1>17, <2>1, <2>2, <2>3, <2>4 DEF InPhase, Busy
<1>19. Paycard' = e
  BY <1>2, <1>5, <1>8 DEF Paycard
<1>20. Life \in Nat \ {0} /\ c.genesis \in Nat
  BY <1>5 DEF Card
<1>21. e \in Entry /\ e.left = Life /\ e.since = c.genesis /\ e.payouts = <<>>
  BY <1>20 DEF Entry
<1> HIDE DEF e
<1>22. Payouts' = {} /\ pact'.paycard = c
  BY <1>2, <1>5, <1>19, <1>21, EmptySeq DEF Payouts
<1>23. Units(pact.paycard, Payouts)' = {}
  BY <1>22 DEF Units
<1>24. Total' = 0 /\ IsFiniteSet(Units(pact.paycard, Payouts)')
  <2>1. IsFiniteSet({}) /\ Cardinality({}) = 0
    BY FS_EmptySet
  <2> QED
    BY <1>23, <2>1 DEF Total, PayoutSum
<1>25. Horizon(pact.paycard)' = c.genesis + Life
  BY <1>22 DEF Horizon
<1>26. Balanced'
  <2>1. Total' + Paycard'.left = Life /\ Paycard'.since + Paycard'.left = Horizon(pact.paycard)'
    BY <1>19, <1>20, <1>21, <1>24, <1>25
  <2> QED
    BY <1>19, <1>20, <1>21, <1>24, <2>1 DEF Balanced
<1>27. Settling'
  <2>1. At({"report"})' = {} /\ At(Recording)' = {}
    BY <1>17 DEF At, Busy, Recording
  <2>2. pact'.status # "settled" /\ pact'.recorded = {}
    BY <1>2, <1>7 DEF Forming
  <2> QED
    BY <1>22, <2>1, <2>2 DEF Settling
<1> QED
  BY <1>14, <1>15, <1>16, <1>18, <1>26, <1>27 DEF Course

\* The settlement that the page sent: it comes after the term and takes all.
LEMMA SettlementKeeps ==
    ASSUME Course, Mine, Settles(Head(queue))
    PROVE  Course'
<1>1. TypesOK /\ OneCard /\ InPhase
  BY DEF Course
<1>2. /\ queue # <<>> /\ queue' = Tail(queue)
      /\ UNCHANGED <<now, pact, drafts>>
  BY DEF Mine
<1>3. Shorter /\ Head(queue) = queue[1] /\ 1 \in 1..Len(queue) /\ queue[1] \in Transaction
  BY <1>1, <1>2, TakenOff
<1>4. PICK tx \in Transaction : tx = Head(queue)
  BY <1>3
<1>5. tx.kind = "settle" /\ tx.card = pact.paycard /\ pact.opened /\ Ended
      /\ ~ChainFinal(tx.card)
  BY <1>1, <1>3, <1>4 DEF Settles, InPhase
<1> DEFINE c == pact.paycard
<1>6. DOMAIN cards = {c} /\ c \in Card /\ Balanced
  BY <1>1, <1>5 DEF OneCard, Course
<1>7. Paycard \in Entry /\ Paycard.left > 0
  BY <1>5, <1>6 DEF ChainFinal, Paycard, Balanced, Entry
<1>8. PICK e : e = SettledCard(c)
  OBVIOUS
<1>9. e \in Entry /\ Due(c) = Paycard.left /\ Due(c) > 0
  BY <1>1, <1>5, <1>6, <1>7, <1>8, SettledIs
<1>10. ~Provisions(tx) /\ Settles(tx)
  BY <1>4, <1>5 DEF Provisions
<1>11. DOMAIN cards' = DOMAIN cards /\ Paycard' = e
  <2>1. cards' = WithCard(c, e)
    BY <1>4, <1>5, <1>8, <1>10 DEF Mine
  <2>2. DOMAIN cards' = DOMAIN cards \cup {c} /\ cards'[c] = e
    BY <2>1, WithCardIs
  <2> QED
    BY <1>2, <1>6, <2>2 DEF Paycard
<1>12. /\ Balanced' /\ Latest \in Nat /\ Latest' = Latest + 1 /\ PaidUp'
  BY <1>1, <1>2, <1>5, <1>6, <1>7, <1>8, <1>9, <1>11, BalancedAfter
<1>13. Latest' \in Nat /\ Latest' >= Latest /\ Latest' > Latest
  BY <1>12
<1>14. page' = AfterReceipt(tx)
  BY <1>4 DEF Mine
<1>15. CASE tx.page = None
  <2>1. page' = page
    BY <1>14, <1>15 DEF AfterReceipt
  <2>2. page' \in [Pages -> PageState]
    BY <1>1, <2>1 DEF TypesOK
  <2> QED
    BY <1>2, <1>3, <1>6, <1>7, <1>11, <1>12, <1>13, <2>1, <2>2, GrowthKeeps
<1>16. CASE tx.page # None
  <2>1. PICK p \in Pages : p = tx.page
    BY <1>16 DEF Transaction
  <2>2. Len(cards[tx.card].payouts) + 1 = Latest'
    BY <1>5, <1>12 DEF Latest, Paycard
  <2>3. PICK n \in Nat : n = Latest'
    BY <1>13
  <2>4. page' = [page EXCEPT ![p].at = "report", ![p].todo = {n}]
    BY <1>5, <1>9, <1>10, <1>14, <1>16, <2>1, <2>2, <2>3 DEF AfterReceipt
  <2> DEFINE x == [page[p] EXCEPT !.at = "report", !.todo = {n}]
  <2>5. Turns(p, x)
    BY <1>1, <2>4 DEF Turns, TypesOK
  <2>6. x \in PageState /\ x.at = "report" /\ x.todo = {n} /\ x.phase = page[p].phase
    BY <1>1, PageFields DEF PageState, Places
  <2> HIDE DEF x
  <2>7. page' \in [Pages -> PageState] /\ page'[p] = x
        /\ \A q \in Pages : q # p => page'[q] = page[q]
    BY <1>1, <2>5, <2>6, OnePageTurns
  <2>8. \A q \in Pages :
            \/ page'[q] = page[q]
            \/ /\ page'[q].at = "report" /\ page'[q].phase = page[q].phase
               /\ page'[q].todo = {Latest'} /\ Latest' > Latest /\ PaidUp' /\ pact.opened
    BY <1>5, <1>12, <1>13, <2>3, <2>6, <2>7
  <2>9. \A q, r \in Pages : page'[q] # page[q] /\ page'[r] # page[r] => q = r
    BY <2>7
  <2> QED
    BY <1>2, <1>3, <1>6, <1>7, <1>11, <1>12, <1>13, <2>7, <2>8, <2>9, GrowthKeeps
<1> QED
  BY <1>15, <1>16

\* A transaction is mined: it opens, it settles or it is reverted.
LEMMA MineKeeps ==
    ASSUME Course, Mine
    PROVE  Course'
<1>1. CASE Provisions(Head(queue))
  BY <1>1, ProvisionKeeps
<1>2. CASE Settles(Head(queue))
  BY <1>2, SettlementKeeps
<1>3. CASE ~Provisions(Head(queue)) /\ ~Settles(Head(queue))
  <2>1. UNCHANGED <<now, cards, pact, drafts, page>>
    BY <1>3 DEF Mine, AfterReceipt
  <2>2. Shorter
    BY TakenOff DEF Course, Mine
  <2> QED
    BY <2>1, <2>2, RevertKeeps
<1> QED
  BY <1>1, <1>2, <1>3

-----------------------------------------------------------------------------
(* What holds whatever happens: types, and what the Pact, the pages and the *)
(* payer's queue go by.                                                     *)

Deed == [left : Int, since : Int, payouts : Seq(Int), flushed : BOOLEAN]
Later == {"opened", "proved", "settled"}

CardsOK ==
    /\ DOMAIN cards \subseteq Card /\ IsFiniteSet(DOMAIN cards)
    /\ \A c \in DOMAIN cards : cards[c] \in Deed

\* A Pact that is not prepared any more has its Paycard; before it is prepared
\* nothing has been sent.
PactOK ==
    /\ pact.opened \/ pact.approved => ~Preparable
    /\ ~Preparable => Opened(pact.paycard)
    /\ pact.status = "accepted" => Sent = {} /\ DOMAIN cards = {}

Screen(p) ==
    /\ page[p].at = "confirm" => Opened(page[p].card)
    /\ page[p].at \in Busy \/ page[p].phase \in Later => ~Preparable
    /\ page[p].at \in {"report"} \cup Recording => page[p].todo # {}
    /\ page[p].at \in {"sign", "submit"} => page[p].card \in Card

Sending(i) ==
    /\ queue[i].card \in Card
    /\ queue[i].kind = "settle" => Opened(queue[i].card) /\ ~Preparable
    /\ queue[i].page # None =>
          /\ page[queue[i].page].at = "wait"
          /\ queue[i].kind = "open" => page[queue[i].page].card = queue[i].card

\* A page waits for one transaction at most.
QueueOK ==
    /\ \A i \in 1..Len(queue) : Sending(i)
    /\ \A i, j \in 1..Len(queue) :
          queue[i].page = queue[j].page /\ queue[i].page # None => i = j

Sound ==
    /\ TypesOK /\ doubled \in Nat /\ overlapped \in BOOLEAN
    /\ CardsOK /\ PactOK /\ QueueOK
    /\ \A p \in Pages : Screen(p)

\* Whoever turns away is waited for no more.
LEMMA NobodyWaits ==
    ASSUME Sound, NEW p \in Pages,
           queue' = Unwatched(p) \/ (queue' = queue /\ page[p].at # "wait")
    PROVE  \A i \in 1..Len(queue) :
               \/ queue'[i].page = None
               \/ queue'[i].page = queue[i].page /\ queue[i].page # p
<1>1. queue \in Seq(Transaction) /\ QueueOK
  BY DEF Sound, TypesOK
<1>2. p # None
  OBVIOUS
<1>3. CASE queue' = queue /\ page[p].at # "wait"
  BY <1>1, <1>2, <1>3 DEF QueueOK, Sending
<1>4. CASE queue' = Unwatched(p)
  <2> SUFFICES ASSUME NEW i \in 1..Len(queue)
               PROVE  \/ queue'[i].page = None
                      \/ queue'[i].page = queue[i].page /\ queue[i].page # p
    OBVIOUS
  <2>1. queue[i] \in Transaction /\ i \in DOMAIN queue
    BY <1>1
  <2>2. queue'[i] = IF queue[i].page = p THEN [queue[i] EXCEPT !.page = None] ELSE queue[i]
    BY <1>4, <2>1 DEF Unwatched
  <2>3. [queue[i] EXCEPT !.page = None].page = None
    BY <2>1 DEF Transaction
  <2> QED
    BY <2>2, <2>3
<1> QED
  BY <1>3, <1>4

\* One page turns: what the others and the queue go by stays.
LEMMA TurnSound ==
    ASSUME Sound, NEW p \in Pages, NEW x \in PageState, Turns(p, x),
           now' = now, cards' = cards, drafts' \in Seq(Card), pact' \in PactState,
           doubled' \in Nat, overlapped' \in BOOLEAN,
           queue' = Unwatched(p) \/ (queue' = queue /\ page[p].at # "wait"),
           ~Preparable => ~Preparable',
           pact'.opened \/ pact'.approved => ~Preparable',
           ~Preparable' => pact'.paycard \in DOMAIN cards,
           pact'.status = "accepted" => pact.status = "accepted" /\ x.at # "submit",
           x.at # "confirm",
           x.at \in Busy \/ x.phase \in Later => ~Preparable',
           x.at \in {"report"} \cup Recording => x.todo # {},
           x.at \in {"sign", "submit"} => x.card \in Card
    PROVE  Sound'
<1>1. TypesOK /\ CardsOK /\ PactOK /\ QueueOK
  BY DEF Sound
<1>2. /\ page' \in [Pages -> PageState] /\ page'[p] = x
      /\ \A q \in Pages : q # p => page'[q] = page[q]
  BY <1>1, OnePageTurns
<1>3. SameQueue
  BY <1>1, UnwatchedSame
<1>4. \A i \in 1..Len(queue) :
          \/ queue'[i].page = None
          \/ queue'[i].page = queue[i].page /\ queue[i].page # p
  BY NobodyWaits
<1>5. TypesOK'
  BY <1>1, <1>2, <1>3 DEF TypesOK, SameQueue
<1>6. CardsOK'
  BY <1>1 DEF CardsOK
<1>7. PactOK'
  <2>1. ASSUME pact'.status = "accepted" PROVE Sent' = {} /\ DOMAIN cards' = {}
    <3>1. Sent = {} /\ DOMAIN cards = {} /\ x.at # "submit"
      BY <1>1, <2>1 DEF PactOK
    <3>2. \A i \in 1..Len(queue') : queue'[i].kind = "open" => queue'[i].card \in Sent
      BY <1>3 DEF SameQueue, Sent
    <3>3. Sent' \subseteq Sent
      BY <1>1, <3>1, <3>2, AfootAfterTurn
    <3> QED
      BY <3>1, <3>3
  <2> QED
    BY <2>1 DEF PactOK, Opened
<1>8. \A q \in Pages : Screen(q)'
  <2>1. Screen(p)'
    BY <1>2 DEF Screen
  <2>2. ASSUME NEW q \in Pages, q # p PROVE Screen(q)'
    <3>1. Screen(q) /\ page'[q] = page[q]
      BY <1>2, <2>2 DEF Sound
    <3> QED
      BY <3>1 DEF Screen, Opened
  <2> QED
    BY <2>1, <2>2
<1>9. QueueOK'
  <2>1. ASSUME NEW i \in 1..Len(queue) PROVE Sending(i)'
    <3>1. Sending(i) /\ queue'[i].kind = queue[i].kind /\ queue'[i].card = queue[i].card
      BY <1>1, <1>3 DEF QueueOK, SameQueue
    <3>2. queue[i].page \in Pages \cup {None}
      <4>1. queue[i] \in Transaction
        BY <1>1 DEF TypesOK
      <4> QED
        BY <4>1 DEF Transaction
    <3>3. queue'[i].page # None =>
              queue'[i].page = queue[i].page /\ page'[queue[i].page] = page[queue[i].page]
      BY <1>2, <1>4, <3>2
    <3> QED
      BY <3>1, <3>3 DEF Sending, Opened
  <2>2. ASSUME NEW i \in 1..Len(queue), NEW j \in 1..Len(queue),
               queue'[i].page = queue'[j].page, queue'[i].page # None
        PROVE  i = j
    BY <1>1, <1>4, <2>2 DEF QueueOK
  <2> QED
    BY <1>3, <2>1, <2>2 DEF QueueOK, SameQueue
<1> QED
  BY <1>5, <1>6, <1>7, <1>8, <1>9 DEF Sound

\* A transaction is sent.
LEMMA SendSound ==
    ASSUME Sound, NEW p \in Pages, NEW kind \in {"open", "settle"}, NEW c \in Card,
           Sends(p, kind, c), page[p].at # "wait",
           kind = "open" => page[p].card = c /\ pact.status # "accepted",
           kind = "settle" => c \in DOMAIN cards /\ ~Preparable
    PROVE  Sound' /\ Signing' \subseteq Signing /\ Sent' \subseteq Sent \cup {c}
           /\ (kind = "settle" => Sent' \subseteq Sent)
<1>1. TypesOK /\ CardsOK /\ PactOK /\ QueueOK
  BY DEF Sound
<1> DEFINE tx == [kind |-> kind, card |-> c, page |-> p]
<1>2. /\ queue' = Append(queue, tx) /\ Goes(p, "wait")
      /\ UNCHANGED <<now, cards, pact, drafts, doubled, overlapped>>
  BY DEF Sends, history
<1>3. tx \in Transaction /\ tx.kind = kind /\ tx.card = c /\ tx.page = p
  BY DEF Transaction
<1> HIDE DEF tx
<1>4. queue \in Seq(Transaction) /\ Len(queue) \in Nat
  BY <1>1 DEF TypesOK
<1>5. queue' \in Seq(Transaction) /\ Len(queue') = Len(queue) + 1
      /\ (\A i \in 1..Len(queue) : queue'[i] = queue[i])
      /\ queue'[Len(queue) + 1] = tx
  BY <1>2, <1>3, <1>4, AppendProperties
<1>6. \A i \in 1..Len(queue') : i \in 1..Len(queue) \/ i = Len(queue) + 1
  BY <1>4, <1>5
<1>7. /\ page' \in [Pages -> PageState] /\ page'[p].at = "wait"
      /\ page'[p].card = page[p].card /\ page'[p].phase = page[p].phase
      /\ \A q \in Pages : q # p => page'[q] = page[q]
  <2>1. "wait" \in Places
    BY DEF Places
  <2> QED
    BY <1>1, <1>2, <2>1, GoesFields
<1>8. TypesOK'
  BY <1>1, <1>2, <1>5, <1>7 DEF TypesOK
<1>9. CardsOK'
  BY <1>1, <1>2 DEF CardsOK
<1>10. Preparable' <=> Preparable
  BY <1>2 DEF Preparable
<1>11. pact.status # "accepted"
  BY DEF Preparable
<1>12. PactOK'
  BY <1>1, <1>2, <1>10, <1>11 DEF PactOK, Opened
<1>13. \A q \in Pages : Screen(q)'
  <2>1. Screen(p)'
    <3>1. Screen(p)
      BY DEF Sound
    <3> QED
      BY <1>7, <1>10, <3>1 DEF Screen, Busy, Recording
  <2>2. ASSUME NEW q \in Pages, q # p PROVE Screen(q)'
    <3>1. Screen(q) /\ page'[q] = page[q]
      BY <1>7, <2>2 DEF Sound
    <3> QED
      BY <1>2, <1>10, <3>1 DEF Screen, Opened
  <2> QED
    BY <2>1, <2>2
<1>14. \A i \in 1..Len(queue) : queue[i].page # p
  BY <1>1 DEF QueueOK, Sending
<1>15. QueueOK'
  <2>1. ASSUME NEW i \in 1..Len(queue) PROVE Sending(i)'
    <3>1. Sending(i) /\ queue'[i] = queue[i] /\ queue[i].page \in Pages \cup {None}
      <4>1. queue[i] \in Transaction
        BY <1>4
      <4> QED
        BY <1>1, <1>5, <4>1 DEF QueueOK, Transaction
    <3>2. queue[i].page # None => page'[queue[i].page] = page[queue[i].page]
      BY <1>7, <1>14, <3>1
    <3> QED
      BY <1>2, <1>10, <3>1, <3>2 DEF Sending, Opened
  <2>2. ASSUME NEW i, i = Len(queue) + 1 PROVE Sending(i)'
    BY <1>2, <1>3, <1>5, <1>7, <1>10, <2>2 DEF Sending, Opened
  <2>3. ASSUME NEW i \in 1..Len(queue'), NEW j \in 1..Len(queue'),
               queue'[i].page = queue'[j].page, queue'[i].page # None
        PROVE  i = j
    <3>1. CASE i \in 1..Len(queue) /\ j \in 1..Len(queue)
      BY <1>1, <1>5, <2>3, <3>1 DEF QueueOK
    <3>2. CASE i = Len(queue) + 1 /\ j = Len(queue) + 1
      BY <3>2
    <3>3. ~(i = Len(queue) + 1 /\ j \in 1..Len(queue))
          /\ ~(j = Len(queue) + 1 /\ i \in 1..Len(queue))
      BY <1>3, <1>5, <1>14, <2>3
    <3> QED
      BY <1>6, <3>1, <3>2, <3>3
  <2> QED
    BY <1>6, <2>1, <2>2, <2>3 DEF QueueOK
<1>16. Signing' \subseteq Signing
  BY <1>7 DEF Signing, At
<1>17. \A d \in Sent' : d \in Sent \/ (d = c /\ kind = "open")
  <2> SUFFICES ASSUME NEW d \in Sent' PROVE d \in Sent \/ (d = c /\ kind = "open")
    OBVIOUS
  <2>1. CASE d \in {page'[q].card : q \in At({"submit"})'}
    <3>1. \A q \in At({"submit"})' : q \in At({"submit"}) /\ page'[q] = page[q]
      BY <1>7 DEF At
    <3> QED
      BY <2>1, <3>1 DEF Sent
  <2>2. CASE d \in {queue'[i].card : i \in {j \in 1..Len(queue') : queue'[j].kind = "open"}}
    <3>1. PICK i \in 1..Len(queue') : queue'[i].kind = "open" /\ queue'[i].card = d
      BY <2>2
    <3>2. CASE i \in 1..Len(queue)
      BY <1>5, <3>1, <3>2 DEF Sent
    <3>3. CASE i = Len(queue) + 1
      BY <1>3, <1>5, <3>1, <3>3
    <3> QED
      BY <1>6, <3>2, <3>3
  <2> QED
    BY <2>1, <2>2 DEF Sent
<1> QED
  BY <1>2, <1>8, <1>9, <1>12, <1>13, <1>15, <1>16, <1>17 DEF Sound

\* A Paycard that is settled keeps its shape.
LEMMA SettledDeed ==
    ASSUME Sound, NEW c \in DOMAIN cards
    PROVE  SettledCard(c) \in Deed
<1>1. c \in Card /\ cards[c] \in Deed /\ now \in Int
  BY DEF Sound, CardsOK, TypesOK
<1>2. Horizon(c) \in Int /\ cards[c].since \in Int /\ cards[c].left \in Int
      /\ cards[c].payouts \in Seq(Int)
  BY <1>1 DEF Horizon, Card, Deed
<1>3. Due(c) \in Int
  BY <1>1, <1>2 DEF Due, Lesser
<1> DEFINE due == Due(c)
<1>4. Append(cards[c].payouts, due) \in Seq(Int)
  BY <1>2, <1>3, AppendProperties
<1>5. cards[c].left - due \in Int /\ cards[c].since + due \in Int
  BY <1>2, <1>3
<1> HIDE DEF due
<1>6. [cards[c] EXCEPT !.left = @ - due, !.since = @ + due,
                       !.payouts = Append(@, due)] \in Deed
  BY <1>1, <1>4, <1>5 DEF Deed
<1> QED
  BY <1>1, <1>6 DEF SettledCard, due

\* The Paycards when one of them is new or another.
LEMMA CardsAfter ==
    ASSUME Sound, NEW c \in Card, NEW e \in Deed, cards' = WithCard(c, e)
    PROVE  CardsOK' /\ DOMAIN cards' = DOMAIN cards \cup {c}
<1>1. CardsOK
  BY DEF Sound
<1>2. DOMAIN cards' = DOMAIN cards \cup {c}
      /\ \A d \in DOMAIN cards' : cards'[d] = IF d = c THEN e ELSE cards[d]
  BY DEF WithCard
<1>3. IsFiniteSet(DOMAIN cards \cup {c})
  BY <1>1, FS_AddElement DEF CardsOK
<1> QED
  BY <1>1, <1>2, <1>3 DEF CardsOK

\* Time passes, or others settle and flush.
LEMMA WorldSound ==
    ASSUME Sound, UNCHANGED <<queue, pact, drafts, page>>,
           now' \in Nat, doubled' \in Nat, overlapped' \in BOOLEAN,
           CardsOK', DOMAIN cards' = DOMAIN cards
    PROVE  Sound'
<1>1. TypesOK' /\ (Preparable' <=> Preparable) /\ Sent' = Sent
  BY DEF Sound, TypesOK, Preparable, Sent, At
<1>2. PactOK'
  BY <1>1 DEF Sound, PactOK, Opened
<1>3. \A p \in Pages : Screen(p)'
  BY <1>1 DEF Sound, Screen, Opened
<1>4. QueueOK'
  <2>1. ASSUME NEW i \in 1..Len(queue) PROVE Sending(i)'
    <3>1. Sending(i)
      BY DEF Sound, QueueOK
    <3> QED
      BY <1>1, <3>1 DEF Sending, Opened
  <2> QED
    BY <2>1 DEF Sound, QueueOK
<1> QED
  BY <1>1, <1>2, <1>3, <1>4 DEF Sound

\* Others settle and flush what is opened.
LEMMA OthersSound ==
    ASSUME Sound, NEW c \in DOMAIN cards, OthersSettle(c) \/ OthersFlush(c)
    PROVE  Sound' /\ DOMAIN cards' = DOMAIN cards
           /\ UNCHANGED <<now, queue, pact, drafts, page, doubled, overlapped>>
<1>1. UNCHANGED <<now, queue, pact, drafts, page, doubled, overlapped>>
  BY DEF OthersSettle, OthersFlush, history
<1> DEFINE e == SettledCard(c)
           b == e.left > 0
           f == [e EXCEPT !.left = 0, !.flushed = b]
<1>2. c \in Card /\ e \in Deed
  BY SettledDeed DEF Sound, CardsOK
<1>3. cards' = WithCard(c, e) \/ cards' = WithCard(c, f)
  BY DEF OthersSettle, OthersFlush
<1>4. b \in BOOLEAN /\ 0 \in Int
  OBVIOUS
<1>5. f \in Deed
  <2> HIDE DEF e, b
  <2> QED
    BY <1>2, <1>4 DEF Deed
<1> HIDE DEF e, b, f
<1>6. CardsOK' /\ DOMAIN cards' = DOMAIN cards
  BY <1>2, <1>3, <1>5, CardsAfter
<1>7. now \in Nat /\ doubled \in Nat /\ overlapped \in BOOLEAN
  BY DEF Sound, TypesOK
<1> QED
  BY <1>1, <1>6, <1>7, WorldSound

\* The server restarts: its requests are gone.
LEMMA RestartSound ==
    ASSUME Sound, Restart
    PROVE  Sound' /\ Signing' \subseteq Signing /\ Sent' \subseteq Sent
           /\ At({"draft"})' \subseteq At({"draft"})
           /\ At({"drafting"})' = {} /\ Out' = {}
           /\ UNCHANGED <<now, cards, pact>>
<1>1. TypesOK /\ CardsOK /\ PactOK /\ QueueOK /\ (\A p \in Pages : Screen(p))
  BY DEF Sound
<1>2. /\ UNCHANGED <<now, cards, pact, queue, overlapped>> /\ drafts' = <<>>
      /\ doubled' = doubled + Counted(Preparable /\ Reusable # {})
  BY DEF Restart, chain
<1>3. doubled' \in Nat
  BY <1>2 DEF Sound, Counted
<1>4. ASSUME NEW q \in Pages
      PROVE  /\ page'[q] \in PageState
             /\ \/ page'[q] = page[q] /\ page[q].at # "drafting"
                \/ /\ page[q].at \notin {"wait", "sign", "submit", "draft"}
                   /\ page'[q].at \in {"closed", "idle"}
                   /\ page'[q].phase \in {"pact", page[q].phase}
  <2>1. page[q] \in PageState /\ page[q].phase \in Phases
    BY <1>1, PageFields
  <2>2. page'[q] = IF page[q].at \notin Served THEN page[q]
            ELSE IF page[q].phase = "left" THEN Closed ELSE Idle(page[q].phase)
    BY DEF Restart
  <2>3. CASE page[q].at \notin Served
    BY <2>1, <2>2, <2>3 DEF Served
  <2>4. CASE page[q].at \in Served
    <3>1. page'[q] = Closed \/ page'[q] = Idle(page[q].phase)
      BY <2>2, <2>4
    <3>2. /\ page'[q] \in PageState /\ page'[q].at \in {"closed", "idle"}
          /\ page'[q].phase \in {"pact", page[q].phase}
      BY <2>1, <3>1, IdleIsPage
    <3> QED
      BY <2>4, <3>2 DEF Served
  <2> QED
    BY <2>3, <2>4
<1>5. page' \in [Pages -> PageState]
  BY <1>4 DEF Restart
<1>6. TypesOK' /\ CardsOK' /\ (Preparable' <=> Preparable)
  BY <1>1, <1>2, <1>5 DEF TypesOK, CardsOK, Preparable
<1>7. \A S : S \cap {"closed", "idle"} = {} =>
          \A q \in At(S)' : q \in At(S) /\ q \in Pages /\ page'[q] = page[q]
  BY <1>4 DEF At
<1>8. At({"drafting"})' = {}
  BY <1>4 DEF At
<1>9. \A q \in At({"sign"})' : q \in At({"sign"}) /\ page'[q] = page[q]
  BY <1>7
<1>10. \A q \in At({"submit"})' : q \in At({"submit"}) /\ page'[q] = page[q]
  BY <1>7
<1>11. At({"draft"})' \subseteq At({"draft"})
  BY <1>7
<1>12. Signing' \subseteq Signing /\ Sent' \subseteq Sent
  BY <1>2, <1>9, <1>10 DEF Signing, Sent
<1>13. PactOK'
  BY <1>1, <1>2, <1>6, <1>12 DEF PactOK, Opened
<1>14. ASSUME NEW q \in Pages PROVE Screen(q)'
  BY <1>1, <1>2, <1>4, <1>6, <1>14 DEF Screen, Opened, Busy, Later, Recording
<1>15. QueueOK'
  <2>1. ASSUME NEW i \in 1..Len(queue) PROVE Sending(i)'
    <3>1. Sending(i)
      BY <1>1 DEF QueueOK
    <3>2. queue[i].page \in Pages \cup {None}
      <4>1. queue[i] \in Transaction
        BY <1>1 DEF TypesOK
      <4> QED
        BY <4>1 DEF Transaction
    <3>3. queue[i].page # None => page'[queue[i].page] = page[queue[i].page]
      BY <1>4, <3>1, <3>2 DEF Sending
    <3> QED
      BY <1>2, <1>6, <3>1, <3>3 DEF Sending, Opened
  <2> QED
    BY <1>1, <1>2, <2>1 DEF QueueOK
<1>16. Out' = {}
  BY <1>2, EmptySeq DEF Out
<1> QED
  BY <1>2, <1>3, <1>6, <1>8, <1>11, <1>12, <1>13, <1>14, <1>15, <1>16 DEF Sound

\* The page that waits for it sees what has become of its transaction.
LEMMA ReceiptOnPage ==
    ASSUME Sound, Mine, NEW tx \in Transaction, tx = Head(queue), tx = queue[1],
           1 \in 1..Len(queue)
    PROVE  /\ page' \in [Pages -> PageState]
           /\ \A q \in Pages :
                  \/ page'[q] = page[q]
                  \/ /\ q = tx.page /\ page[q].at = "wait"
                     /\ page'[q].phase = page[q].phase /\ page'[q].card = page[q].card
                     /\ \/ page'[q].at = "confirm" /\ Provisions(tx)
                        \/ page'[q].at = "report" /\ page'[q].todo # {} /\ Settles(tx)
<1>1. TypesOK /\ QueueOK /\ CardsOK
  BY DEF Sound
<1>2. page' = AfterReceipt(tx)
  BY DEF Mine
<1>3. tx.page \in Pages \cup {None} /\ Sending(1)
  BY <1>1 DEF Transaction, QueueOK
<1>4. CASE page' = page
  BY <1>1, <1>4 DEF TypesOK
<1>5. CASE tx.page # None /\ Provisions(tx)
  <2>1. PICK p \in Pages : p = tx.page
    BY <1>3, <1>5
  <2>2. Goes(p, "confirm")
    BY <1>1, <1>2, <1>5, <2>1 DEF AfterReceipt, Goes, Turns, TypesOK
  <2>3. "confirm" \in Places
    BY DEF Places
  <2>4. page[p].at = "wait"
    BY <1>3, <2>1, <1>5 DEF Sending
  <2>5. /\ page' \in [Pages -> PageState] /\ page'[p].at = "confirm"
        /\ page'[p].phase = page[p].phase /\ page'[p].card = page[p].card
        /\ \A q \in Pages : q # p => page'[q] = page[q]
    BY <1>1, <2>2, <2>3, GoesFields
  <2> QED
    BY <1>5, <2>1, <2>4, <2>5
<1>6. CASE tx.page # None /\ ~Provisions(tx) /\ Settles(tx) /\ Due(tx.card) > 0
  <2>1. PICK p \in Pages : p = tx.page
    BY <1>3, <1>6
  <2>2. tx.card \in DOMAIN cards /\ page[p].at = "wait"
    BY <1>3, <1>6, <2>1 DEF Sending, Settles, Opened
  <2>3. cards[tx.card].payouts \in Seq(Int)
    BY <1>1, <2>2 DEF CardsOK, Deed
  <2>4. Len(cards[tx.card].payouts) + 1 \in Nat
    BY <2>3
  <2>5. PICK n \in Nat : n = Len(cards[tx.card].payouts) + 1
    BY <2>4
  <2>6. page' = [page EXCEPT ![p].at = "report", ![p].todo = {n}]
    BY <1>2, <1>6, <2>1, <2>5 DEF AfterReceipt
  <2> DEFINE x == [page[p] EXCEPT !.at = "report", !.todo = {n}]
  <2>7. Turns(p, x)
    BY <1>1, <2>6 DEF Turns, TypesOK
  <2>8. x \in PageState /\ x.at = "report" /\ x.todo = {n} /\ x.phase = page[p].phase
        /\ x.card = page[p].card
    BY <1>1, PageFields DEF PageState, Places
  <2> HIDE DEF x
  <2>9. page' \in [Pages -> PageState] /\ page'[p] = x
        /\ \A q \in Pages : q # p => page'[q] = page[q]
    BY <1>1, <2>7, <2>8, OnePageTurns
  <2> QED
    BY <1>6, <2>1, <2>2, <2>8, <2>9
<1> QED
  BY <1>2, <1>4, <1>5, <1>6 DEF AfterReceipt

\* A transaction is mined: what is opened has been sent before.
LEMMA MineSound ==
    ASSUME Sound, Mine
    PROVE  Sound' /\ Signing' \subseteq Signing /\ Sent' \subseteq Sent
           /\ UNCHANGED <<now, pact, drafts, doubled, overlapped>>
           /\ At({"draft"})' \subseteq At({"draft"})
           /\ At({"drafting"})' \subseteq At({"drafting"})
           /\ \/ DOMAIN cards' = DOMAIN cards
              \/ \E c \in Sent : Live(c) /\ DOMAIN cards' = DOMAIN cards \cup {c}
<1>1. TypesOK /\ CardsOK /\ PactOK /\ QueueOK /\ (\A p \in Pages : Screen(p))
  BY DEF Sound
<1>2. /\ queue # <<>> /\ queue' = Tail(queue)
      /\ UNCHANGED <<now, pact, drafts, doubled, overlapped>>
  BY DEF Mine, history
<1>3. Shorter /\ Head(queue) = queue[1] /\ 1 \in 1..Len(queue) /\ queue[1] \in Transaction
  BY <1>1, <1>2, TakenOff
<1>4. PICK tx \in Transaction : tx = Head(queue) /\ tx = queue[1]
  BY <1>3
<1>5. Sending(1) /\ tx.card \in Card
  BY <1>1, <1>3, <1>4 DEF QueueOK, Sending
<1>6. page' \in [Pages -> PageState]
  BY <1>3, <1>4, ReceiptOnPage
<1>7. \A q \in Pages :
          \/ page'[q] = page[q]
          \/ /\ q = tx.page /\ page[q].at = "wait"
             /\ page'[q].phase = page[q].phase /\ page'[q].card = page[q].card
             /\ \/ page'[q].at = "confirm" /\ Provisions(tx)
                \/ page'[q].at = "report" /\ page'[q].todo # {} /\ Settles(tx)
  BY <1>3, <1>4, ReceiptOnPage
<1>8. /\ CardsOK' /\ DOMAIN cards \subseteq DOMAIN cards'
      /\ \/ DOMAIN cards' = DOMAIN cards /\ ~Provisions(tx)
         \/ /\ tx.card \in Sent /\ Live(tx.card)
            /\ DOMAIN cards' = DOMAIN cards \cup {tx.card} /\ Provisions(tx)
  <2>1. CASE Provisions(tx)
    <3> DEFINE e == [left |-> Life, since |-> tx.card.genesis, payouts |-> <<>>,
                     flushed |-> FALSE]
    <3>1. cards' = WithCard(tx.card, e)
      BY <1>4, <2>1 DEF Mine
    <3>2. tx.card.genesis \in Int /\ Life \in Int /\ <<>> \in Seq(Int)
      BY <1>5, EmptySeq DEF Card
    <3>3. e \in Deed
      BY <3>2 DEF Deed
    <3> HIDE DEF e
    <3>4. CardsOK' /\ DOMAIN cards' = DOMAIN cards \cup {tx.card}
      BY <1>5, <3>1, <3>3, CardsAfter
    <3>5. tx.card \in Sent /\ Live(tx.card)
      BY <1>3, <1>4, <2>1 DEF Provisions, Sent, Live
    <3> QED
      BY <2>1, <3>4, <3>5
  <2>2. CASE ~Provisions(tx) /\ Settles(tx)
    <3>1. tx.card \in DOMAIN cards
      BY <1>4, <1>5, <2>2 DEF Settles, Sending, Opened
    <3>2. SettledCard(tx.card) \in Deed
      BY <3>1, SettledDeed
    <3>3. cards' = WithCard(tx.card, SettledCard(tx.card))
      BY <1>4, <2>2 DEF Mine
    <3>4. CardsOK' /\ DOMAIN cards' = DOMAIN cards \cup {tx.card}
      BY <1>5, <3>2, <3>3, CardsAfter
    <3> QED
      BY <2>2, <3>1, <3>4
  <2>3. CASE ~Provisions(tx) /\ ~Settles(tx)
    <3>1. cards' = cards
      BY <1>4, <2>3 DEF Mine
    <3> QED
      BY <1>1, <2>3, <3>1 DEF CardsOK
  <2> QED
    BY <2>1, <2>2, <2>3
<1>9. TypesOK' /\ (Preparable' <=> Preparable)
  BY <1>1, <1>2, <1>3, <1>6 DEF TypesOK, Shorter, Preparable
<1>10. Signing' \subseteq Signing /\ Sent' \subseteq Sent
       /\ \A S : S \cap {"confirm", "report"} = {} =>
              \A q \in At(S)' : q \in At(S) /\ q \in Pages /\ page'[q] = page[q]
  <2>1. \A q \in Pages : Receives(q)
    BY <1>7 DEF Receives
  <2> QED
    BY <1>1, <1>3, <2>1, ReceiptsOnly
<1>11. At({"draft"})' \subseteq At({"draft"}) /\ At({"drafting"})' \subseteq At({"drafting"})
  <2>1. {"draft"} \cap {"confirm", "report"} = {} /\ {"drafting"} \cap {"confirm", "report"} = {}
    OBVIOUS
  <2> QED
    BY <1>10, <2>1
<1>12. PactOK'
  <2>1. pact.status = "accepted" => ~Provisions(tx)
    BY <1>1, <1>8 DEF PactOK
  <2>2. ASSUME pact'.status = "accepted" PROVE Sent' = {} /\ DOMAIN cards' = {}
    <3>1. Sent = {} /\ DOMAIN cards = {} /\ DOMAIN cards' = DOMAIN cards
      BY <1>1, <1>2, <1>8, <2>1, <2>2 DEF PactOK
    <3> QED
      BY <1>10, <3>1
  <2> QED
    BY <1>1, <1>2, <1>8, <1>9, <2>2 DEF PactOK, Opened
<1>13. ASSUME NEW q \in Pages PROVE Screen(q)'
  <2>1. Screen(q)
    BY <1>1
  <2>2. CASE page'[q] = page[q]
    BY <1>8, <1>9, <2>1, <2>2 DEF Screen, Opened
  <2>3. CASE page'[q] # page[q]
    <3>1. q = tx.page /\ q # None /\ page'[q].card = page[q].card
          /\ page'[q].phase = page[q].phase
      BY <1>7, <2>3
    <3>2. CASE page'[q].at = "confirm" /\ Provisions(tx)
      <4>1. page[q].card = tx.card /\ Opened(tx.card)'
        BY <1>4, <1>5, <1>8, <3>1, <3>2 DEF Provisions, Sending, Opened
      <4> QED
        BY <1>9, <2>1, <3>1, <3>2, <4>1 DEF Screen, Busy, Recording
    <3>3. CASE page'[q].at = "report" /\ page'[q].todo # {} /\ Settles(tx)
      <4>1. ~Preparable'
        BY <1>4, <1>5, <1>9, <3>3 DEF Settles, Sending
      <4> QED
        BY <3>3, <4>1 DEF Screen
    <3> QED
      BY <1>7, <2>3, <3>2, <3>3
  <2> QED
    BY <2>2, <2>3
<1>14. /\ Len(queue) \in Nat /\ Len(queue') \in Nat
       /\ \A i \in 1..Len(queue') : i + 1 \in 1..Len(queue) /\ queue'[i] = queue[i + 1]
  <2>1. queue \in Seq(Transaction)
    BY <1>1 DEF TypesOK
  <2>2. Len(queue') = Len(queue) - 1 /\ Len(queue) \in Nat /\ queue' \in Seq(Transaction)
        /\ \A i \in 1..Len(queue') : queue'[i] = queue[i + 1]
    BY <1>2, <2>1, HeadTailProperties
  <2>3. Len(queue') \in Nat
    BY <2>2
  <2>4. \A i \in 1..Len(queue') : i + 1 \in 1..Len(queue)
    BY <2>2, <2>3
  <2> QED
    BY <2>2, <2>3, <2>4
<1>15. \A k \in 1..Len(queue) :
           k # 1 => queue[k].page = None \/ queue[k].page # tx.page
  BY <1>1, <1>3, <1>4 DEF QueueOK
<1>16. QueueOK'
  <2>1. ASSUME NEW i \in 1..Len(queue') PROVE Sending(i)'
    <3>1. PICK k \in 1..Len(queue) : k = i + 1 /\ queue'[i] = queue[k]
      BY <1>14
    <3>2. k # 1 /\ Sending(k) /\ queue[k].page \in Pages \cup {None}
      <4>1. queue[k] \in Transaction
        BY <1>1 DEF TypesOK
      <4>2. k # 1
        BY <1>14, <3>1
      <4> QED
        BY <1>1, <4>1, <4>2 DEF QueueOK, Transaction
    <3>3. queue[k].page # None => page'[queue[k].page] = page[queue[k].page]
      BY <1>7, <1>15, <3>2
    <3> QED
      BY <1>8, <1>9, <3>1, <3>2, <3>3 DEF Sending, Opened
  <2>2. ASSUME NEW i \in 1..Len(queue'), NEW j \in 1..Len(queue'),
               queue'[i].page = queue'[j].page, queue'[i].page # None
        PROVE  i = j
    <3>1. i + 1 \in 1..Len(queue) /\ j + 1 \in 1..Len(queue)
          /\ queue'[i] = queue[i + 1] /\ queue'[j] = queue[j + 1]
      BY <1>14
    <3>2. i + 1 = j + 1
      BY <1>1, <2>2, <3>1 DEF QueueOK
    <3> QED
      BY <3>2
  <2> QED
    BY <2>1, <2>2 DEF QueueOK
<1>17. Sound'
  <2>1. doubled' \in Nat /\ overlapped' \in BOOLEAN
    BY <1>2 DEF Sound
  <2> QED
    BY <1>8, <1>9, <1>12, <1>13, <1>16, <2>1 DEF Sound
<1>18. \/ DOMAIN cards' = DOMAIN cards
       \/ \E c \in Sent : Live(c) /\ DOMAIN cards' = DOMAIN cards \cup {c}
  BY <1>8
<1> QED
  BY <1>2, <1>10, <1>11, <1>17, <1>18

-----------------------------------------------------------------------------
(* What may be charged: the Paycards, the drafts that may still be mined,   *)
(* and the drafts that are being made.                                      *)

Usable == {c \in Afoot : Live(c)}
Chargeable == DOMAIN cards \cup Usable
Drafting == At({"drafting"})
Potential == Cardinality(Chargeable) + Cardinality(Drafting)

\* A draft that a page will be given before it can ask for a new one.
Hopeful(c) ==
    /\ c \in Out /\ Live(c) /\ ~Opened(c)
    /\ c = pact.paycard \/ c \notin Sent

\* The next page to ask will be given a new draft: the one the Pact is bound to
\* cannot be found, or was found too late and is forgotten.
Astray ==
    /\ Preparable /\ ~Opened(pact.paycard) /\ Drafting = {}
    /\ \A c \in Out : ~Hopeful(c)
LateDraft ==
    /\ Preparable /\ Opened(pact.paycard) /\ Drafting = {}
    /\ At({"draft"}) # {} /\ \A c \in Out : ~Live(c)

Renewing == Astray \/ LateDraft

\* Each charge beyond the first has its cause, and a new draft finds room.
Charges ==
    /\ Potential <= 1 + doubled
    /\ Renewing => Potential <= doubled

Kept == Sound /\ Charges

\* What part of a finite set has fewer elements.
LEMMA Fewer ==
    ASSUME NEW S, IsFiniteSet(S), NEW T \in SUBSET S
    PROVE  /\ Cardinality(S) \in Nat /\ Cardinality(T) \in Nat
           /\ Cardinality(T) <= Cardinality(S)
           /\ T # S => Cardinality(T) < Cardinality(S)
<1>1. IsFiniteSet(T) /\ Cardinality(T) <= Cardinality(S)
      /\ (Cardinality(S) = Cardinality(T) => S = T)
  BY FS_Subset
<1>2. Cardinality(S) \in Nat /\ Cardinality(T) \in Nat
  BY <1>1, FS_CardinalityType
<1> QED
  BY <1>1, <1>2

\* What a function makes of a finite set.
LEMMA ImageFinite ==
    ASSUME NEW S, IsFiniteSet(S), NEW T, NEW f \in [S -> T]
    PROVE  IsFiniteSet({f[x] : x \in S})
<1> DEFINE I == {f[x] : x \in S}
<1>1. f \in Surjection(S, I)
  BY DEF Surjection
<1> QED
  BY <1>1, FS_Surjection

\* Every draft about is a Paycard that could be.
LEMMA AfootCards ==
    ASSUME Sound, NEW c \in Afoot
    PROVE  c \in Card
<1>1. TypesOK /\ QueueOK /\ \A p \in Pages : Screen(p)
  BY DEF Sound
<1>2. \A i \in 1..Len(drafts) : drafts[i] \in Card
  BY <1>1 DEF TypesOK
<1>3. \A p \in At({"sign"}) \cup At({"submit"}) : page[p].card \in Card
  BY <1>1 DEF Screen, At
<1>4. \A i \in 1..Len(queue) : queue[i].card \in Card
  BY <1>1 DEF QueueOK, Sending
<1> QED
  BY <1>2, <1>3, <1>4 DEF Afoot, Out, Signing, Sent

\* There are finitely many drafts about.
LEMMA Countable ==
    ASSUME Sound
    PROVE  IsFiniteSet(Chargeable) /\ IsFiniteSet(Drafting)
<1>1. page \in [Pages -> PageState] /\ queue \in Seq(Transaction) /\ drafts \in Seq(Card)
      /\ IsFiniteSet(DOMAIN cards)
  BY DEF Sound, TypesOK, CardsOK
<1>2. IsFiniteSet(Pages)
  BY PagesAssumption
<1>3. IsFiniteSet(Out)
  <2>1. drafts \in [1..Len(drafts) -> Card] /\ Len(drafts) \in Int /\ 1 \in Int
    BY <1>1
  <2>2. IsFiniteSet(1..Len(drafts))
    BY <2>1, FS_Interval
  <2> QED
    BY <2>1, <2>2, ImageFinite DEF Out
<1> DEFINE onPage == [p \in Pages |-> page[p].card]
           inQueue == [i \in 1..Len(queue) |-> queue[i].card]
           Named == Card \cup {None}
<1>4. IsFiniteSet({onPage[p] : p \in Pages})
  <2> DEFINE I == {onPage[p] : p \in Pages}
  <2>1. onPage \in Surjection(Pages, I)
    BY DEF Surjection
  <2> HIDE DEF onPage, I
  <2>2. IsFiniteSet(I)
    BY <1>2, <2>1, FS_Surjection
  <2> QED
    BY <2>2 DEF I
<1>5. IsFiniteSet({inQueue[i] : i \in 1..Len(queue)})
  <2>1. inQueue \in [1..Len(queue) -> Named]
    <3>1. \A i \in 1..Len(queue) : queue[i] \in Transaction
      BY <1>1
    <3> QED
      BY <3>1 DEF Transaction
  <2>2. Len(queue) \in Int /\ 1 \in Int
    BY <1>1
  <2>3. IsFiniteSet(1..Len(queue))
    BY <2>2, FS_Interval
  <2> HIDE DEF inQueue, Named
  <2> QED
    BY <2>1, <2>3, ImageFinite
<1> DEFINE All == DOMAIN cards \cup (Out \cup ({onPage[p] : p \in Pages}
                                        \cup {inQueue[i] : i \in 1..Len(queue)}))
<1>6. IsFiniteSet(All)
  BY <1>1, <1>3, <1>4, <1>5, FS_Union
<1>7. Chargeable \subseteq All
  BY DEF Chargeable, Usable, Afoot, Signing, Sent, At
<1>8. Drafting \subseteq Pages
  BY DEF Drafting, At
<1> HIDE DEF All
<1> QED
  BY <1>2, <1>6, <1>7, <1>8, FS_Subset

\* Nothing more can be charged, and a new draft is due only where something was
\* lost or a cause was counted.
LEMMA ChargesFall ==
    ASSUME Sound, Charges,
           Chargeable' \subseteq Chargeable, Drafting' \subseteq Drafting,
           doubled' \in Nat, doubled' >= doubled,
           Renewing' => \/ Renewing \/ doubled' > doubled
                        \/ Chargeable' # Chargeable \/ Drafting' # Drafting
    PROVE  Charges'
<1>1. IsFiniteSet(Chargeable) /\ IsFiniteSet(Drafting)
  BY Countable
<1> DEFINE k == Cardinality(Chargeable)
           d == Cardinality(Drafting)
           l == Cardinality(Chargeable')
           e == Cardinality(Drafting')
<1>2. /\ k \in Nat /\ l \in Nat /\ l <= k /\ (Chargeable' # Chargeable => l < k)
      /\ d \in Nat /\ e \in Nat /\ e <= d /\ (Drafting' # Drafting => e < d)
  BY <1>1, Fewer
<1>3. Potential = k + d /\ Potential' = l + e /\ doubled \in Nat
  BY DEF Potential, Sound
<1>4. k + d <= 1 + doubled /\ (Renewing => k + d <= doubled)
  BY <1>3 DEF Charges
<1> HIDE DEF k, d, l, e
<1>5. l + e <= 1 + doubled'
  <2>1. k \in Nat /\ l \in Nat /\ l <= k /\ d \in Nat /\ e \in Nat /\ e <= d
    BY <1>2
  <2>2. k + d <= 1 + doubled /\ doubled \in Nat
    BY <1>3, <1>4
  <2>3. l + e <= 1 + doubled
    BY <2>1, <2>2
  <2> QED
    BY <2>1, <2>2, <2>3
<1>6. Renewing' => l + e <= doubled'
  <2>1. CASE Renewing
    BY <1>2, <1>3, <1>4, <2>1
  <2>2. CASE doubled' > doubled
    BY <1>2, <1>3, <1>4, <2>2
  <2>3. CASE Chargeable' # Chargeable \/ Drafting' # Drafting
    <3>1. l + e < k + d
      BY <1>2, <2>3
    <3> QED
      BY <1>2, <1>3, <1>4, <3>1
  <2> QED
    BY <2>1, <2>2, <2>3
<1> QED
  BY <1>3, <1>5, <1>6 DEF Charges

\* The same Paycards and no new draft, and nobody goes to ask for one late.
LEMMA QuietCharges ==
    ASSUME Sound, Charges, now' = now, doubled' = doubled, DOMAIN cards' = DOMAIN cards,
           Out' \subseteq Out, Signing' \cup Sent' \subseteq Afoot,
           At({"drafting"})' \subseteq At({"drafting"}),
           Preparable' => /\ Preparable /\ pact'.paycard = pact.paycard
                          /\ Out' = Out /\ Sent' \subseteq Sent
                          /\ \/ At({"draft"})' \subseteq At({"draft"})
                             \/ ~Opened(pact.paycard)
    PROVE  Charges'
<1>1. \A c : Live(c)' <=> Live(c)
  BY DEF Live, Horizon
<1>2. Chargeable' \subseteq Chargeable /\ Drafting' \subseteq Drafting
  BY <1>1 DEF Chargeable, Usable, Afoot, Drafting
<1>3. doubled' \in Nat /\ doubled' >= doubled
  BY DEF Sound
<1>4. ASSUME Renewing', Drafting' = Drafting PROVE Renewing
  <2>1. Preparable /\ pact'.paycard = pact.paycard /\ Out' = Out /\ Sent' \subseteq Sent
        /\ (At({"draft"})' \subseteq At({"draft"}) \/ ~Opened(pact.paycard))
    BY <1>4 DEF Renewing, Astray, LateDraft
  <2>2. \A c : Opened(c)' <=> Opened(c)
    BY DEF Opened
  <2>3. CASE Astray'
    <3>1. \A c \in Out : Hopeful(c) => Hopeful(c)'
      BY <1>1, <2>1, <2>2 DEF Hopeful
    <3> QED
      BY <1>4, <2>1, <2>2, <2>3, <3>1 DEF Renewing, Astray
  <2>4. CASE LateDraft'
    BY <1>1, <1>4, <2>1, <2>2, <2>4 DEF Renewing, LateDraft
  <2> QED
    BY <1>4, <2>3, <2>4 DEF Renewing
<1> QED
  BY <1>2, <1>3, <1>4, ChargesFall

-----------------------------------------------------------------------------
(* The steps of a page that add no draft.                                  *)

\* What the Pact and the server's drafts may do while one page turns.
Onward ==
    /\ now' = now /\ cards' = cards /\ doubled' = doubled /\ overlapped' \in BOOLEAN
    /\ drafts' \in Seq(Card) /\ Out' \subseteq Out
    /\ pact' \in PactState
    /\ ~Preparable => ~Preparable'
    /\ pact'.opened \/ pact'.approved => ~Preparable'
    /\ ~Preparable' => pact'.paycard \in DOMAIN cards
    /\ pact'.status = "accepted" => pact.status = "accepted"
    /\ Preparable' => pact'.paycard = pact.paycard /\ Out' = Out

\* Whoever turns away is waited for no more; nobody else's queue changes.
Leaves(p) == queue' = Unwatched(p) \/ (queue' = queue /\ page[p].at # "wait")

\* The Pact may stay as it is.
LEMMA StaysOnward ==
    ASSUME Sound, UNCHANGED <<now, cards, pact, drafts, doubled>>, overlapped' \in BOOLEAN
    PROVE  Onward
<1>1. TypesOK /\ PactOK
  BY DEF Sound
<1>2. (Preparable' <=> Preparable) /\ Out' = Out
  BY DEF Preparable, Out
<1> QED
  BY <1>1, <1>2 DEF Onward, TypesOK, PactOK, Opened

\* Once it is opened it may change, but for its Paycard.
LEMMA LaterOnward ==
    ASSUME Sound, UNCHANGED <<now, cards, drafts, doubled, overlapped>>, ~Preparable,
           pact' \in PactState, pact'.paycard = pact.paycard, ~Preparable'
    PROVE  Onward
<1>1. TypesOK /\ PactOK /\ overlapped \in BOOLEAN
  BY DEF Sound
<1>2. Out' = Out /\ pact'.status # "accepted"
  BY DEF Out, Preparable
<1> QED
  BY <1>1, <1>2 DEF Onward, TypesOK, PactOK, Opened

\* It may be bound to the opening of its Paycard.
LEMMA BindsOnward ==
    ASSUME Sound, NEW c \in DOMAIN cards, Bindable(c), pact' = Activated(c), Forget(c),
           UNCHANGED <<now, cards, doubled, overlapped>>
    PROVE  Onward
<1>1. TypesOK /\ PactOK /\ overlapped \in BOOLEAN
  BY DEF Sound
<1>2. pact \in PactState /\ drafts \in Seq(Card)
  BY <1>1 DEF TypesOK
<1>3. /\ pact' \in PactState /\ pact'.status = "active" /\ pact'.paycard = pact.paycard
      /\ pact.paycard = c
  BY <1>2 DEF Activated, PactState, Bindable
<1>4. ~Preparable'
  BY <1>3 DEF Preparable
<1>5. drafts' \in Seq(Card) /\ Out' \subseteq Out
  <2>1. drafts' = RemoveFirst(drafts, c)
    BY DEF Forget
  <2> QED
    BY <1>2, <2>1, RemovedIsLess DEF Out
<1> QED
  BY <1>1, <1>3, <1>4, <1>5 DEF Onward

\* One page turns and asks for no new draft.
LEMMA TurnKeeps ==
    ASSUME Kept, Onward, NEW p \in Pages, NEW x \in PageState, Turns(p, x), Leaves(p),
           x.at \notin {"confirm", "submit"},
           x.at \in Busy \/ x.phase \in Later => ~Preparable',
           x.at \in {"report"} \cup Recording => x.todo # {},
           x.at = "sign" => x.card \in Out,
           x.at = "drafting" => page[p].at = "drafting",
           x.at = "draft" => page[p].at = "draft" \/ ~Opened(pact.paycard)
    PROVE  Kept'
<1>1. Sound /\ Charges /\ TypesOK
  BY DEF Kept, Sound
<1>2. \A c \in Out : c \in Card
  BY <1>1 DEF TypesOK, Out
<1>3. Sound'
  <2>1. doubled' \in Nat
    BY <1>1 DEF Onward, Sound
  <2>2. x.at \in {"sign", "submit"} => x.card \in Card
    BY <1>2
  <2> QED
    BY <1>1, <2>1, <2>2, TurnSound DEF Onward, Leaves
<1>4. /\ Signing' \subseteq Signing \cup Out /\ Sent' \subseteq Sent
  <2>1. SameQueue
    BY <1>1, UnwatchedSame DEF Leaves
  <2>2. \A i \in 1..Len(queue') : queue'[i].kind = "open" => queue'[i].card \in Sent
    BY <2>1 DEF SameQueue, Sent
  <2> QED
    BY <1>1, <2>2, AfootAfterTurn
<1>5. /\ At({"drafting"})' \subseteq At({"drafting"})
      /\ At({"draft"})' \subseteq At({"draft"}) \/ ~Opened(pact.paycard)
  <2>1. /\ page'[p] = x /\ page' \in [Pages -> PageState]
        /\ \A q \in Pages : q # p => page'[q] = page[q]
    BY <1>1, OnePageTurns
  <2> QED
    BY <2>1 DEF At
<1>6. Charges'
  <2>1. now' = now /\ doubled' = doubled /\ DOMAIN cards' = DOMAIN cards /\ Out' \subseteq Out
    BY DEF Onward
  <2>2. Signing' \cup Sent' \subseteq Afoot
    BY <1>4 DEF Afoot
  <2>3. Preparable' => /\ Preparable /\ pact'.paycard = pact.paycard
                       /\ Out' = Out /\ Sent' \subseteq Sent
                       /\ \/ At({"draft"})' \subseteq At({"draft"})
                          \/ ~Opened(pact.paycard)
    BY <1>4, <1>5 DEF Onward
  <2> QED
    BY <1>1, <1>5, <2>1, <2>2, <2>3, QuietCharges
<1> QED
  BY <1>3, <1>6 DEF Kept

\* A request ends.
LEMMA ShowsKeep ==
    ASSUME Kept, Onward, NEW p \in Pages, Leaves(p), NEW phase \in Phases,
           Shows(p, phase), phase \in Later => ~Preparable'
    PROVE  Kept'
<1> DEFINE x == IF page[p].phase = "left" THEN Closed ELSE Idle(phase)
<1>1. Turns(p, x)
  BY DEF Shows
<1>2. x \in PageState /\ x.at \in {"closed", "idle"} /\ x.phase \in {"pact", phase}
  BY IdleIsPage
<1> HIDE DEF x
<1> QED
  BY <1>1, <1>2, TurnKeeps DEF Busy, Recording, Later

\* A request ends as it began.
LEMMA StopsKeep ==
    ASSUME Kept, Onward, NEW p \in Pages, Leaves(p), Stops(p)
    PROVE  Kept'
<1>1. page[p].phase \in Phases /\ Screen(p)
  BY PageFields DEF Kept, Sound
<1>2. page[p].phase \in Later => ~Preparable'
  BY <1>1 DEF Screen, Onward
<1> QED
  BY <1>1, <1>2, ShowsKeep DEF Stops

\* A page goes on.
LEMMA GoesOnKeep ==
    ASSUME Kept, Onward, NEW p \in Pages, Leaves(p), NEW at \in Places, Goes(p, at),
           at \notin {"confirm", "submit", "sign", "drafting"},
           at \in Busy => ~Preparable',
           at \in {"report"} \cup Recording => page[p].todo # {},
           at = "draft" => ~Opened(pact.paycard)
    PROVE  Kept'
<1> DEFINE x == [page[p] EXCEPT !.at = at]
<1>1. Turns(p, x) /\ TypesOK /\ Screen(p)
  BY DEF Goes, Kept, Sound
<1>2. /\ x \in PageState /\ x.at = at /\ x.phase = page[p].phase
      /\ x.todo = page[p].todo
  BY <1>1, PageFields DEF PageState
<1> HIDE DEF x
<1>3. x.phase \in Later => ~Preparable'
  BY <1>1, <1>2 DEF Screen, Onward
<1> QED
  BY <1>1, <1>2, <1>3, TurnKeeps

\* Pages come, go, give up and fail.
LEMMA VisitKept ==
    ASSUME Kept, NEW p \in Pages,
           \/ OpenPage(p) \/ Refresh(p) \/ ClosePage(p) \/ PressOpen(p)
           \/ GiveUp(p) \/ RequestFails(p)
    PROVE  Kept'
<1>1. Sound /\ TypesOK /\ PactOK /\ Screen(p) /\ overlapped \in BOOLEAN
  BY DEF Kept, Sound
<1>2. UNCHANGED <<now, cards, pact, drafts, doubled, overlapped>>
  BY DEF OpenPage, Refresh, ClosePage, PressOpen, GiveUp, RequestFails, Local, chain,
         history
<1>3. Onward /\ (Preparable' <=> Preparable)
  BY <1>1, <1>2, StaysOnward DEF Preparable
<1>4. CASE OpenPage(p) \/ Refresh(p)
  <2>1. PactPhase \in Phases /\ (PactPhase \in Later => ~Preparable)
    BY <1>1 DEF PactPhase, Phases, Later, PactOK, Preparable
  <2>2. Turns(p, Idle(PactPhase)) /\ Leaves(p)
    BY <1>4 DEF OpenPage, Refresh, Leaves, Local, chain
  <2>3. /\ Idle(PactPhase) \in PageState /\ Idle(PactPhase).at = "idle"
        /\ Idle(PactPhase).phase = PactPhase
    BY <2>1, IdleIsPage
  <2> QED
    BY <1>3, <2>1, <2>2, <2>3, TurnKeeps DEF Busy, Recording
<1>5. CASE ClosePage(p)
  <2> DEFINE x == [page[p] EXCEPT !.phase = "left"]
  <2>1. /\ x \in PageState /\ x.at = page[p].at /\ x.phase = "left"
        /\ x.todo = page[p].todo
    BY <1>1, PageFields DEF PageState, Phases
  <2>2. (Turns(p, x) /\ page[p].at \in Served) \/ Turns(p, Closed)
    BY <1>5 DEF ClosePage
  <2>3. Leaves(p)
    BY <1>5 DEF ClosePage, Leaves
  <2> HIDE DEF x
  <2>4. CASE Turns(p, x) /\ page[p].at \in Served
    <3>1. x.at \notin {"confirm", "submit", "sign", "draft"} /\ x.phase \notin Later
      BY <2>1, <2>4 DEF Served, Later
    <3>2. (x.at \in Busy => ~Preparable') /\ (x.at \in {"report"} \cup Recording => x.todo # {})
      BY <1>1, <1>3, <2>1 DEF Screen
    <3> QED
      BY <1>3, <2>1, <2>3, <2>4, <3>1, <3>2, TurnKeeps
  <2>5. CASE Turns(p, Closed)
    <3>1. "pact" \in Phases
      BY DEF Phases
    <3>2. Closed \in PageState /\ Closed.at = "closed" /\ Closed.phase = "pact"
      BY <3>1, IdleIsPage
    <3> QED
      BY <1>3, <2>3, <2>5, <3>2, TurnKeeps DEF Busy, Recording, Later
  <2> QED
    BY <2>2, <2>4, <2>5
<1>6. CASE PressOpen(p)
  <2>1. Leaves(p) /\ (Goes(p, "lookup") \/ (Goes(p, "draft") /\ pact.status = "accepted"))
    BY <1>6 DEF PressOpen, Leaves, Local, chain, Preparable
  <2>2. pact.status = "accepted" => ~Opened(pact.paycard)
    BY <1>1 DEF PactOK, Opened
  <2>3. "lookup" \in Places /\ "draft" \in Places
    BY DEF Places
  <2> QED
    BY <1>3, <2>1, <2>2, <2>3, GoesOnKeep DEF Busy, Recording
<1>7. CASE GiveUp(p) \/ RequestFails(p)
  <2>1. Stops(p) /\ Leaves(p)
    BY <1>7 DEF GiveUp, RequestFails, Leaves, chain
  <2> QED
    BY <1>3, <2>1, StopsKeep
<1> QED
  BY <1>4, <1>5, <1>6, <1>7

\* The server binds the Pact to the opening that it finds.
LEMMA OpeningKept ==
    ASSUME Kept, NEW p \in Pages, RecoverOpening(p) \/ ConfirmOpening(p)
    PROVE  Kept'
<1>1. Sound /\ TypesOK /\ Screen(p) /\ overlapped \in BOOLEAN
  BY DEF Kept, Sound
<1>2. UNCHANGED <<now, cards, doubled, overlapped>> /\ Leaves(p)
  BY DEF RecoverOpening, ConfirmOpening, Leaves, chain, history
<1>3. ASSUME UNCHANGED <<pact, drafts>> PROVE Onward
  BY <1>1, <1>2, <1>3, StaysOnward
<1>4. "opened" \in Phases /\ "draft" \in Places
  BY DEF Phases, Places
<1>5. CASE UNCHANGED <<pact, drafts>> /\ Stops(p)
  BY <1>2, <1>3, <1>5, StopsKeep
<1>6. CASE UNCHANGED <<pact, drafts>> /\ Shows(p, "opened") /\ pact.status = "active"
  <2>1. ~Preparable'
    BY <1>6 DEF Preparable
  <2> QED
    BY <1>2, <1>3, <1>4, <1>6, <2>1, ShowsKeep
<1>7. CASE UNCHANGED <<pact, drafts>> /\ Goes(p, "draft") /\ ~Opened(pact.paycard)
  BY <1>2, <1>3, <1>4, <1>7, GoesOnKeep DEF Busy, Recording
<1>8. CASE \E c \in DOMAIN cards :
             Bindable(c) /\ pact' = Activated(c) /\ Forget(c) /\ Shows(p, "opened")
  <2>1. Onward
    BY <1>1, <1>2, <1>8, BindsOnward
  <2>2. ~Preparable'
    BY <1>1, <1>8 DEF Activated, Preparable, TypesOK, PactState
  <2> QED
    BY <1>2, <1>4, <1>8, <2>1, <2>2, ShowsKeep
<1>9. CASE RecoverOpening(p)
  BY <1>5, <1>6, <1>7, <1>8, <1>9 DEF RecoverOpening, Opened
<1>10. CASE ConfirmOpening(p)
  BY <1>1, <1>5, <1>8, <1>10 DEF ConfirmOpening, Screen, Opened
<1> QED
  BY <1>9, <1>10

\* The proof.
LEMMA ProofKept ==
    ASSUME Kept, NEW p \in Pages, Prove(p) \/ Approve(p) \/ Reject(p)
    PROVE  Kept'
<1>1. Sound /\ TypesOK /\ Screen(p)
  BY DEF Kept, Sound
<1>2. UNCHANGED <<now, cards, drafts, doubled, overlapped>> /\ Leaves(p)
  BY DEF Prove, Approve, Reject, Leaves, chain, history
<1>3. ~Preparable
  BY <1>1 DEF Prove, Approve, Reject, Screen, Busy, Preparable
<1>4. /\ pact' \in PactState /\ pact'.paycard = pact.paycard
      /\ pact'.status \in {pact.status, "performing", "disputed"}
  BY <1>1, PactFields DEF TypesOK, PactState, Prove, Approve, Reject
<1>5. ~Preparable'
  BY <1>3, <1>4 DEF Preparable
<1>6. Onward
  BY <1>1, <1>2, <1>3, <1>4, <1>5, LaterOnward
<1>7. "verifying" \in Places /\ "proved" \in Phases
  BY DEF Places, Phases
<1> QED
  BY <1>2, <1>5, <1>6, <1>7, GoesOnKeep, ShowsKeep, StopsKeep
     DEF Prove, Approve, Reject, Recording

\* The settlement.
LEMMA SettleKept ==
    ASSUME Kept, NEW p \in Pages, PressSettle(p) \/ ReportSettlement(p)
    PROVE  Kept'
<1>1. Sound /\ TypesOK /\ PactOK /\ CardsOK /\ Screen(p) /\ overlapped \in BOOLEAN
  BY DEF Kept, Sound
<1>2. UNCHANGED <<now, cards, pact, drafts, doubled>> /\ Leaves(p)
  BY DEF PressSettle, ReportSettlement, Leaves, chain
<1>3. overlapped' \in BOOLEAN
  <2>1. overlapped' = (overlapped \/ Overlaps(p))
        \/ overlapped' = (overlapped \/ (pact.approved /\ Overlaps(p)))
    BY DEF PressSettle, ReportSettlement
  <2> QED
    BY <2>1
<1>4. Onward /\ (Preparable' <=> Preparable)
  BY <1>1, <1>2, <1>3, StaysOnward DEF Preparable
<1>5. ~Preparable
  BY <1>1 DEF PressSettle, ReportSettlement, Screen, Later, Busy
<1>6. "settled" \in Phases /\ "observing" \in Places /\ "send" \in Places
  BY DEF Places, Phases
<1>7. CASE Shows(p, "settled")
  BY <1>2, <1>4, <1>5, <1>6, <1>7, ShowsKeep
<1>8. CASE Goes(p, "send")
  BY <1>2, <1>4, <1>5, <1>6, <1>8, GoesOnKeep DEF Recording
<1>9. CASE Stops(p)
  BY <1>2, <1>4, <1>9, StopsKeep
<1>10. CASE Goes(p, "observing") /\ page[p].at = "report"
  <2>1. page[p].todo # {}
    BY <1>1, <1>10 DEF Screen
  <2> QED
    BY <1>2, <1>4, <1>5, <1>6, <1>10, <2>1, GoesOnKeep
<1> DEFINE U == Unrecorded
           x == [page[p] EXCEPT !.at = "observing", !.todo = U]
<1>11. CASE U # {} /\ Turns(p, x)
  <2>1. cards[pact.paycard].payouts \in Seq(Int)
    BY <1>1, <1>5 DEF PactOK, CardsOK, Opened, Deed
  <2>2. U \subseteq Nat
    BY <2>1 DEF Unrecorded
  <2> HIDE DEF U
  <2>3. x \in PageState /\ x.at = "observing" /\ x.todo = U
    BY <1>1, <1>6, <2>2, PageFields DEF PageState
  <2> HIDE DEF x
  <2> QED
    BY <1>2, <1>4, <1>5, <1>11, <2>3, TurnKeeps
<1> QED
  BY <1>7, <1>8, <1>9, <1>10, <1>11 DEF PressSettle, ReportSettlement

\* The recording of what was settled.
LEMMA RecordingKept ==
    ASSUME Kept, NEW p \in Pages, ObserveSettlement(p) \/ RecordSettlement(p)
    PROVE  Kept'
<1>1. Sound /\ TypesOK /\ Screen(p) /\ overlapped \in BOOLEAN
  BY DEF Kept, Sound
<1>2. UNCHANGED <<now, cards, drafts, doubled, overlapped>> /\ Leaves(p)
      /\ page[p].at \in Recording
  BY DEF ObserveSettlement, RecordSettlement, Leaves, Local, chain, history, Recording
<1>3. ~Preparable /\ page[p].todo # {} /\ page[p].todo \subseteq Nat
  BY <1>1, <1>2, PageFields DEF Screen, Busy, Recording
<1>4. "observed" \in Places /\ "observing" \in Places
      /\ "settled" \in Phases /\ "proved" \in Phases
  BY DEF Places, Phases
<1> DEFINE i == Min(page[p].todo)
<1>5. CASE ObserveSettlement(p)
  <2> DEFINE f == Reaches(i)
             x == [page[p] EXCEPT !.at = "observed", !.final = f]
  <2>1. f \in BOOLEAN
    BY DEF Reaches
  <2>2. Turns(p, x) /\ pact' = pact
    BY <1>5 DEF ObserveSettlement, Local
  <2> HIDE DEF f
  <2>3. x \in PageState /\ x.at = "observed" /\ x.todo = page[p].todo
    BY <1>1, <1>4, <2>1, PageFields DEF PageState
  <2> HIDE DEF x
  <2>4. Onward /\ ~Preparable'
    BY <1>1, <1>2, <1>3, <2>2, StaysOnward DEF Preparable
  <2> QED
    BY <1>2, <1>3, <2>2, <2>3, <2>4, TurnKeeps
<1>6. CASE RecordSettlement(p)
  <2>1. i \in page[p].todo
    BY <1>3, MinIsLeast
  <2>2. PICK n \in Nat : n = i
    BY <1>3, <2>1
  <2> DEFINE rest == page[p].todo \ {n}
             status == IF page[p].final THEN "settled" ELSE pact.status
             x == [page[p] EXCEPT !.at = "observing", !.todo = rest, !.final = FALSE]
  <2>3. /\ pact' = [pact EXCEPT !.recorded = @ \cup {n}, !.status = status]
        /\ \/ Shows(p, "settled") \/ Shows(p, "proved")
           \/ rest # {} /\ Turns(p, x)
    BY <1>6, <2>2 DEF RecordSettlement
  <2>4. pact' \in PactState /\ pact'.paycard = pact.paycard /\ pact'.status = status
    BY <1>1, <2>3, PactFields DEF TypesOK, PactState
  <2>5. ~Preparable'
    BY <1>3, <2>4 DEF Preparable
  <2>6. Onward
    BY <1>1, <1>2, <1>3, <2>4, <2>5, LaterOnward
  <2>7. CASE Shows(p, "settled") \/ Shows(p, "proved")
    BY <1>2, <1>4, <2>5, <2>6, <2>7, ShowsKeep
  <2>8. CASE rest # {} /\ Turns(p, x)
    <3>1. rest \subseteq Nat
      BY <1>3
    <3> HIDE DEF rest
    <3>2. x \in PageState /\ x.at = "observing" /\ x.todo = rest
      BY <1>1, <1>4, <3>1, PageFields DEF PageState
    <3> HIDE DEF x
    <3> QED
      BY <1>2, <2>5, <2>6, <2>8, <3>2, TurnKeeps
  <2> QED
    BY <2>3, <2>7, <2>8
<1> QED
  BY <1>5, <1>6

-----------------------------------------------------------------------------
(* The steps that add a draft, a Paycard or a cause.                       *)

\* A page asks for a draft: a new one takes the place of what was lost, or is
\* one of two that are made at once.
LEMMA RequestDraftKept ==
    ASSUME Kept, NEW p \in Pages, RequestDraft(p)
    PROVE  Kept'
<1>1. Sound /\ Charges /\ TypesOK /\ PactOK /\ Screen(p) /\ overlapped \in BOOLEAN
      /\ doubled \in Nat
  BY DEF Kept, Sound
<1>2. UNCHANGED <<now, cards, queue, pact, drafts, overlapped>> /\ page[p].at = "draft"
      /\ doubled' = doubled + Counted(Preparable /\ Reusable = {} /\ Drafting # {})
  BY DEF RequestDraft, chain, Drafting
<1>3. (Preparable' <=> Preparable) /\ Leaves(p) /\ Out' = Out
  BY <1>2 DEF Preparable, Leaves, Out
<1>4. CASE doubled' = doubled /\ Stops(p)
  BY <1>1, <1>2, <1>3, <1>4, StaysOnward, StopsKeep
<1>5. CASE /\ doubled' = doubled /\ Preparable /\ Reusable # {}
           /\ Turns(p, [page[p] EXCEPT !.at = "sign", !.card = drafts[Min(Reusable)]])
  <2> DEFINE c == drafts[Min(Reusable)]
             x == [page[p] EXCEPT !.at = "sign", !.card = c]
  <2>1. Min(Reusable) \in 1..Len(drafts)
    <3>1. DOMAIN drafts = 1..Len(drafts) /\ Len(drafts) \in Nat
      BY <1>1 DEF TypesOK
    <3>2. Reusable \subseteq Nat /\ Reusable \subseteq 1..Len(drafts)
      BY <3>1 DEF Reusable
    <3> QED
      BY <1>5, <3>2, MinIsLeast
  <2>2. c \in Out /\ c \in Card
    BY <1>1, <2>1 DEF Out, TypesOK
  <2> HIDE DEF c
  <2>3. x \in PageState /\ x.at = "sign" /\ x.card = c /\ x.phase = page[p].phase
    BY <1>1, <2>2, PageFields DEF PageState, Places
  <2>4. Turns(p, x)
    BY <1>5 DEF c
  <2> HIDE DEF x
  <2>5. Onward
    BY <1>1, <1>2, <1>5, StaysOnward
  <2>6. x.phase \in Later => ~Preparable'
    BY <1>1, <1>3, <2>3 DEF Screen
  <2> QED
    BY <1>3, <2>2, <2>3, <2>4, <2>5, <2>6, TurnKeeps DEF Busy, Recording
<1>6. CASE /\ Preparable /\ Reusable = {}
           /\ Turns(p, [page[p] EXCEPT !.at = "drafting", !.nonce = Nonce])
  <2> DEFINE m == Nonce
             x == [page[p] EXCEPT !.at = "drafting", !.nonce = m]
  <2>1. m \in Nat
    BY <1>1, FS_CardinalityType DEF Nonce, Sound, CardsOK
  <2>2. Turns(p, x)
    BY <1>6
  <2> HIDE DEF m
  <2>3. x \in PageState /\ x.at = "drafting" /\ x.phase = page[p].phase
    BY <1>1, <2>1, PageFields DEF PageState, Places
  <2> HIDE DEF x
  <2>4. /\ page'[p] = x
        /\ \A S : \A q \in At(S)' :
               /\ q \in Pages
               /\ \/ q = p /\ x.at \in S
                  \/ q # p /\ q \in At(S) /\ page'[q] = page[q]
    BY <1>1, <2>2, <2>3, PlacesAfterTurn
  <2>5. \A c \in Out : ~Live(c)
    <3> SUFFICES ASSUME NEW c \in Out PROVE ~Live(c)
      OBVIOUS
    <3>1. PICK i \in 1..Len(drafts) : drafts[i] = c
      BY DEF Out
    <3>2. i \in DOMAIN drafts /\ drafts[i] \in Card
      BY <1>1, <3>1 DEF TypesOK
    <3>3. ~(Horizon(drafts[i]) > now)
      BY <1>6, <3>2 DEF Reusable
    <3>4. Horizon(c) \in Nat /\ now \in Nat
      BY <1>1, <3>1, <3>2 DEF TypesOK, Horizon, Card
    <3> QED
      BY <3>1, <3>3, <3>4 DEF Live
  <2>6. doubled' = IF Drafting = {} THEN doubled ELSE doubled + 1
    BY <1>1, <1>2, <1>6 DEF Counted
  <2>7. doubled' \in Nat
    BY <1>1, <2>6
  <2>8. Sound'
    <3>1. x.phase \in Later => ~Preparable'
      BY <1>1, <1>3, <2>3 DEF Screen
    <3>2. x.at \notin Busy \cup {"confirm", "submit", "sign", "report"} \cup Recording
      BY <2>3 DEF Busy, Recording
    <3>3. pact' \in PactState /\ drafts' \in Seq(Card)
      BY <1>1, <1>2 DEF TypesOK
    <3>4. (pact'.opened \/ pact'.approved => ~Preparable')
          /\ (~Preparable' => pact'.paycard \in DOMAIN cards)
          /\ (pact'.status = "accepted" => pact.status = "accepted")
      BY <1>1, <1>2, <1>3 DEF PactOK, Opened
    <3> QED
      BY <1>1, <1>2, <1>3, <2>2, <2>3, <2>7, <3>1, <3>2, <3>3, <3>4, TurnSound
  <2>9. Chargeable' \subseteq Chargeable
    <3>1. Signing' \subseteq Signing /\ Sent' \subseteq Sent
      BY <1>1, <1>2, <2>2, <2>3, AfootAfterTurn, SameSent
    <3>2. \A c : Live(c)' <=> Live(c)
      BY <1>2 DEF Live, Horizon
    <3> QED
      BY <1>2, <1>3, <3>1, <3>2 DEF Chargeable, Usable, Afoot
  <2>10. Drafting' \subseteq Drafting \cup {p} /\ Drafting' # {}
    <3>1. p \in Drafting'
      <4>1. page'[p].at = "drafting"
        BY <2>3, <2>4
      <4> QED
        BY <4>1 DEF Drafting, At
    <3>2. \A q \in At({"drafting"})' : q \in At({"drafting"}) \/ q = p
      BY <2>4
    <3> QED
      BY <3>1, <3>2 DEF Drafting
  <2>11. Drafting = {} => Renewing
    <3>1. p \in At({"draft"})
      BY <1>2 DEF At
    <3> QED
      BY <1>6, <2>5, <3>1 DEF Renewing, Astray, LateDraft, Hopeful
  <2> DEFINE k == Cardinality(Chargeable)
             d == Cardinality(Drafting)
             l == Cardinality(Chargeable')
             e == Cardinality(Drafting')
  <2>12. k \in Nat /\ l \in Nat /\ l <= k
    BY <1>1, <2>9, Countable, Fewer
  <2>13. d \in Nat /\ e \in Nat /\ e <= d + 1
    <3>1. IsFiniteSet(Drafting)
      BY <1>1, Countable
    <3>2. IsFiniteSet(Drafting \cup {p}) /\ Cardinality(Drafting) \in Nat
          /\ Cardinality(Drafting \cup {p}) <= Cardinality(Drafting) + 1
      <4>1. IsFiniteSet(Drafting \cup {p})
            /\ Cardinality(Drafting \cup {p}) \in {Cardinality(Drafting), Cardinality(Drafting) + 1}
        BY <3>1, FS_AddElement
      <4>2. Cardinality(Drafting) \in Nat
        BY <3>1, FS_CardinalityType
      <4> QED
        BY <4>1, <4>2
    <3>3. Cardinality(Drafting') \in Nat /\ Cardinality(Drafting \cup {p}) \in Nat
          /\ Cardinality(Drafting') <= Cardinality(Drafting \cup {p})
      BY <2>10, <3>2, Fewer
    <3> QED
      BY <3>2, <3>3
  <2>14. Potential = k + d /\ Potential' = l + e
    BY DEF Potential
  <2>15. k + d <= 1 + doubled /\ (Drafting = {} => k + d <= doubled)
    BY <1>1, <2>11, <2>14 DEF Charges
  <2> HIDE DEF k, d, l, e
  <2>16. l + e <= 1 + doubled'
    <3>1. CASE Drafting = {}
      BY <1>1, <2>6, <2>12, <2>13, <2>15, <3>1
    <3>2. CASE Drafting # {}
      BY <1>1, <2>6, <2>12, <2>13, <2>15, <3>2
    <3> QED
      BY <3>1, <3>2
  <2>17. ~Renewing'
    BY <2>10 DEF Renewing, Astray, LateDraft
  <2> QED
    BY <2>8, <2>14, <2>16, <2>17 DEF Kept, Charges
<1>7. doubled + 0 = doubled
  BY <1>1
<1> QED
  BY <1>2, <1>4, <1>5, <1>6, <1>7 DEF RequestDraft, Counted

\* The draft that is made takes the place of its request.
LEMMA IssueDraftKept ==
    ASSUME Kept, NEW p \in Pages, IssueDraft(p)
    PROVE  Kept'
<1>1. Sound /\ Charges /\ TypesOK /\ PactOK /\ CardsOK /\ Screen(p) /\ doubled \in Nat
      /\ overlapped \in BOOLEAN
  BY DEF Kept, Sound
<1>2. UNCHANGED <<now, cards, queue, pact, doubled, overlapped>>
      /\ page[p].at = "drafting"
  BY DEF IssueDraft, chain, history
<1>3. now \in Nat /\ page[p].nonce \in Nat /\ Lead \in Nat /\ Life \in Nat \ {0}
  BY <1>1, PageFields DEF TypesOK
<1> DEFINE draft == [nonce |-> page[p].nonce, genesis |-> now + Lead]
<1>19. draft \in Card /\ Live(draft)
  BY <1>3 DEF Card, Live, Horizon
<1>4. PICK c \in Card : c = draft /\ Live(c)
  BY <1>19
<1> DEFINE x == IF page[p].phase = "left" THEN Closed
                ELSE [page[p] EXCEPT !.at = "sign", !.card = c, !.nonce = 0]
<1>5. /\ drafts' = (IF \E i \in DOMAIN drafts : drafts[i] = c THEN drafts
                    ELSE Append(drafts, c))
      /\ Turns(p, x)
  BY <1>4 DEF IssueDraft
<1>6. drafts' \in Seq(Card) /\ Out' = Out \cup {c}
  <2>1. drafts \in Seq(Card) /\ DOMAIN drafts = 1..Len(drafts)
    BY <1>1 DEF TypesOK
  <2>2. CASE \E i \in DOMAIN drafts : drafts[i] = c
    BY <1>5, <2>1, <2>2 DEF Out
  <2>3. CASE ~ \E i \in DOMAIN drafts : drafts[i] = c
    <3>1. drafts' = Append(drafts, c)
      BY <1>5, <2>3
    <3>2. drafts' \in Seq(Card) /\ Len(drafts') = Len(drafts) + 1
          /\ (\A i \in 1..Len(drafts) : drafts'[i] = drafts[i])
          /\ drafts'[Len(drafts) + 1] = c
      BY <1>4, <2>1, <3>1, AppendProperties
    <3>3. Len(drafts) \in Nat
      BY <2>1
    <3>4. \A i \in 1..Len(drafts') : i \in 1..Len(drafts) \/ i = Len(drafts) + 1
      BY <3>2, <3>3
    <3>5. (\A i \in 1..Len(drafts) : i \in 1..Len(drafts'))
          /\ Len(drafts) + 1 \in 1..Len(drafts')
      BY <3>2, <3>3
    <3> QED
      BY <3>2, <3>4, <3>5 DEF Out
  <2> QED
    BY <2>2, <2>3
<1>7. x \in PageState /\ (x.at = "closed" \/ (x.at = "sign" /\ x.card = c))
      /\ x.phase \in {"pact", page[p].phase}
  <2>1. CASE page[p].phase = "left"
    <3>1. "pact" \in Phases /\ x = Closed
      BY <2>1 DEF Phases
    <3> HIDE DEF x
    <3> QED
      BY <3>1, IdleIsPage
  <2>2. CASE page[p].phase # "left"
    <3> DEFINE y == [page[p] EXCEPT !.at = "sign", !.card = c, !.nonce = 0]
    <3>1. x = y
      BY <2>2
    <3> HIDE DEF x
    <3>2. page[p] \in PageState /\ c \in Card \cup {None} /\ 0 \in Nat
      BY <1>1, <1>4, PageFields
    <3>3. y \in PageState /\ y.at = "sign" /\ y.card = c /\ y.phase = page[p].phase
      BY <3>2 DEF PageState, Places
    <3> HIDE DEF y
    <3> QED
      BY <3>1, <3>3
  <2> QED
    BY <2>1, <2>2
<1> HIDE DEF x
<1>8. Preparable' <=> Preparable
  BY <1>2 DEF Preparable
<1>9. Sound'
  <2>1. x.phase \in Later => ~Preparable'
    BY <1>1, <1>7, <1>8 DEF Screen, Later
  <2>2. x.at \notin Busy \cup {"confirm", "submit", "report"} \cup Recording
    BY <1>7 DEF Busy, Recording
  <2>3. pact' \in PactState /\ (pact'.opened \/ pact'.approved => ~Preparable')
        /\ (~Preparable' => pact'.paycard \in DOMAIN cards)
        /\ (pact'.status = "accepted" => pact.status = "accepted")
    BY <1>1, <1>2, <1>8 DEF TypesOK, PactOK, Opened
  <2>4. doubled' \in Nat /\ overlapped' \in BOOLEAN /\ page[p].at # "wait"
        /\ (x.at \in {"sign", "submit"} => x.card \in Card)
    BY <1>1, <1>2, <1>4, <1>7
  <2> QED
    BY <1>1, <1>2, <1>5, <1>6, <1>7, <1>8, <2>1, <2>2, <2>3, <2>4, TurnSound
<1>10. Signing' \subseteq Signing \cup {c} /\ Sent' \subseteq Sent
  BY <1>1, <1>2, <1>5, <1>7, AfootAfterTurn, SameSent
<1>11. \A d : Live(d)' <=> Live(d)
  BY <1>2 DEF Live, Horizon
<1>12. Chargeable' \subseteq Chargeable \cup {c}
  BY <1>2, <1>6, <1>10, <1>11 DEF Chargeable, Usable, Afoot
<1>13. p \in Drafting /\ Drafting' \subseteq Drafting \ {p}
  <2>1. \A q \in At({"drafting"})' : q \in At({"drafting"}) /\ q # p
    BY <1>1, <1>5, <1>7, PlacesAfterTurn
  <2> QED
    BY <1>2, <2>1 DEF Drafting, At
<1>14. IsFiniteSet(Chargeable) /\ IsFiniteSet(Drafting)
  BY <1>1, Countable
<1> DEFINE k == Cardinality(Chargeable)
           d == Cardinality(Drafting)
           l == Cardinality(Chargeable')
           e == Cardinality(Drafting')
<1>15. d \in Nat /\ e \in Nat /\ e < d
  BY <1>13, <1>14, Fewer
<1>16. Potential = k + d /\ Potential' = l + e /\ k + d <= 1 + doubled
  BY <1>1 DEF Potential, Charges
<1>17. CASE c \in Chargeable
  <2>1. k \in Nat /\ l \in Nat /\ l <= k
    BY <1>12, <1>14, <1>17, Fewer
  <2> HIDE DEF k, d, l, e
  <2>2. l + e <= doubled
    BY <1>1, <1>15, <1>16, <2>1
  <2>3. l + e <= doubled' /\ l + e <= 1 + doubled'
    BY <1>1, <1>2, <1>15, <2>1, <2>2
  <2> QED
    BY <1>9, <1>16, <2>3 DEF Kept, Charges
<1>18. CASE c \notin Chargeable
  <2>1. c \notin DOMAIN cards /\ c \notin Sent
    BY <1>4, <1>18 DEF Chargeable, Usable, Afoot
  <2>2. c \in Out' /\ Live(c)' /\ ~Opened(c)' /\ c \notin Sent'
    BY <1>2, <1>4, <1>6, <1>10, <1>11, <2>1 DEF Opened
  <2>3. Hopeful(c)'
    BY <2>2 DEF Hopeful
  <2>4. ~Renewing'
    BY <2>2, <2>3 DEF Renewing, Astray, LateDraft
  <2>5. k \in Nat /\ l \in Nat /\ l <= k + 1
    <3>1. IsFiniteSet(Chargeable \cup {c}) /\ k \in Nat
          /\ Cardinality(Chargeable \cup {c}) = k + 1
      BY <1>14, <1>18, FS_AddElement, FS_CardinalityType
    <3>2. l \in Nat /\ l <= Cardinality(Chargeable \cup {c})
      BY <1>12, <3>1, Fewer
    <3> QED
      BY <3>1, <3>2
  <2> HIDE DEF k, d, l, e
  <2>6. l + e <= 1 + doubled'
    BY <1>1, <1>2, <1>15, <1>16, <2>5
  <2> QED
    BY <1>9, <1>16, <2>4, <2>6 DEF Kept, Charges
<1> QED
  BY <1>17, <1>18

\* The Pact is prepared for a draft that is out: the next to ask will find it.
LEMMA PreparePaymentKept ==
    ASSUME Kept, NEW p \in Pages, PreparePayment(p)
    PROVE  Kept'
<1>1. Sound /\ Charges /\ TypesOK /\ PactOK /\ Screen(p) /\ overlapped \in BOOLEAN
      /\ doubled \in Nat
  BY DEF Kept, Sound
<1>2. UNCHANGED <<now, cards, queue, drafts, doubled, overlapped>> /\ page[p].at = "sign"
  BY DEF PreparePayment, chain, history
<1>3. Leaves(p) /\ Out' = Out
  BY <1>2 DEF Leaves, Out
<1>4. CASE Stops(p) /\ pact' = pact
  BY <1>1, <1>2, <1>3, <1>4, StaysOnward, StopsKeep
<1>5. CASE /\ MayPrepare(page[p].card) /\ Goes(p, "submit")
           /\ pact' = [pact EXCEPT !.status = "payment_prepared", !.paycard = page[p].card,
                                   !.recorded = {}]
  <2>1. PICK c \in Card : c = page[p].card
    BY <1>1, <1>2 DEF Screen
  <2> DEFINE x == [page[p] EXCEPT !.at = "submit"]
  <2>2. x \in PageState /\ x.at = "submit" /\ x.card = c /\ x.phase = page[p].phase
    BY <1>1, <2>1, PageFields DEF PageState, Places
  <2>3. Turns(p, x)
    BY <1>5 DEF Goes
  <2> HIDE DEF x
  <2>4. Preparable /\ ~pact.opened /\ ~pact.approved
    BY <1>1, <1>5 DEF MayPrepare, PactOK
  <2>5. Live(c) /\ c \in Out
    <3>1. PICK i \in DOMAIN drafts : drafts[i] = c
      BY <1>5, <2>1 DEF MayPrepare, Issued
    <3>2. i \in 1..Len(drafts)
      BY <1>1, <3>1 DEF TypesOK
    <3>3. Horizon(c) > now
      BY <1>5, <2>1 DEF MayPrepare
    <3>4. Horizon(c) \in Nat /\ now \in Nat
      BY <1>1 DEF Horizon, Card, TypesOK
    <3> QED
      BY <3>1, <3>2, <3>3, <3>4 DEF Live, Out
  <2>6. pact' \in PactState /\ pact'.paycard = c /\ pact'.opened = pact.opened
        /\ pact'.status = "payment_prepared" /\ pact'.approved = pact.approved
    BY <1>1, <1>5, <2>1, PactFields DEF TypesOK, PactState, Forming
  <2>7. Preparable'
    BY <2>6 DEF Preparable
  <2>8. Sound'
    <3>1. x.phase \notin Later
      BY <1>1, <2>2, <2>4 DEF Screen
    <3>2. x.at \notin Busy \cup {"confirm", "report"} \cup Recording
      BY <2>2 DEF Busy, Recording
    <3>3. drafts' \in Seq(Card)
      BY <1>1, <1>2 DEF TypesOK
    <3> QED
      BY <1>1, <1>2, <2>2, <2>3, <2>4, <2>6, <2>7, <3>1, <3>2, <3>3, TurnSound
  <2>9. Signing' \subseteq Signing /\ Sent' \subseteq Sent \cup {c}
    BY <1>1, <1>2, <2>2, <2>3, AfootAfterTurn, SameSent
  <2>10. \A d : (Live(d)' <=> Live(d)) /\ (Opened(d)' <=> Opened(d))
    BY <1>2 DEF Live, Horizon, Opened
  <2>11. Chargeable' \subseteq Chargeable
    BY <1>2, <1>3, <2>5, <2>9, <2>10 DEF Chargeable, Usable, Afoot
  <2>12. Drafting' \subseteq Drafting
    <3>1. \A q \in At({"drafting"})' : q \in At({"drafting"})
      BY <1>1, <2>2, <2>3, PlacesAfterTurn
    <3> QED
      BY <3>1 DEF Drafting
  <2>13. ~Renewing'
    <3>1. ~LateDraft'
      BY <1>3, <2>5, <2>10 DEF LateDraft
    <3>2. CASE Opened(c)
      BY <2>6, <2>10, <3>1, <3>2 DEF Renewing, Astray
    <3>3. CASE ~Opened(c)
      <4>1. Hopeful(c)'
        BY <1>3, <2>5, <2>6, <2>10, <3>3 DEF Hopeful
      <4> QED
        BY <1>3, <2>5, <3>1, <4>1 DEF Renewing, Astray
    <3> QED
      BY <3>2, <3>3
  <2>14. doubled' \in Nat /\ doubled' >= doubled
    BY <1>1, <1>2
  <2>15. Charges'
    BY <1>1, <2>11, <2>12, <2>13, <2>14, ChargesFall
  <2> QED
    BY <2>8, <2>15 DEF Kept
<1> QED
  BY <1>4, <1>5 DEF PreparePayment

\* A transaction is sent: an opening is one that has been prepared.
LEMMA SubmitKept ==
    ASSUME Kept, NEW p \in Pages, SubmitOpening(p) \/ SubmitSettlement(p)
    PROVE  Kept'
<1>1. Sound /\ Charges /\ TypesOK /\ PactOK /\ CardsOK /\ Screen(p)
  BY DEF Kept, Sound
<1>2. Sound' /\ Signing' \subseteq Signing /\ Sent' \subseteq Sent
  <2>1. CASE SubmitOpening(p)
    <3>1. page[p].at = "submit" /\ Sends(p, "open", page[p].card)
      BY <2>1 DEF SubmitOpening
    <3>2. page[p].card \in Card /\ page[p].card \in Sent
      BY <1>1, <3>1 DEF Screen, Sent, At
    <3>3. pact.status # "accepted"
      BY <1>1, <3>2 DEF PactOK
    <3>4. Sound' /\ Signing' \subseteq Signing /\ Sent' \subseteq Sent \cup {page[p].card}
      BY <1>1, <3>1, <3>2, <3>3, SendSound
    <3> QED
      BY <3>2, <3>4
  <2>2. CASE SubmitSettlement(p)
    <3>1. page[p].at = "send" /\ Sends(p, "settle", pact.paycard)
      BY <2>2 DEF SubmitSettlement
    <3>2. ~Preparable
      BY <1>1, <3>1 DEF Screen, Busy
    <3>3. pact.paycard \in DOMAIN cards /\ pact.paycard \in Card
      BY <1>1, <3>2 DEF PactOK, CardsOK, Opened
    <3> QED
      BY <1>1, <3>1, <3>2, <3>3, SendSound
  <2> QED
    BY <2>1, <2>2
<1>3. Goes(p, "wait") /\ UNCHANGED <<now, cards, pact, drafts, doubled>>
  BY DEF SubmitOpening, SubmitSettlement, Sends, history
<1>4. At({"drafting"})' \subseteq At({"drafting"}) /\ At({"draft"})' \subseteq At({"draft"})
  <2>1. "wait" \in Places
    BY DEF Places
  <2>2. page'[p].at = "wait" /\ \A q \in Pages : q # p => page'[q] = page[q]
    BY <1>1, <1>3, <2>1, GoesFields
  <2> QED
    BY <2>2 DEF At
<1>5. Signing' \cup Sent' \subseteq Afoot /\ Out' = Out /\ (Preparable' <=> Preparable)
  BY <1>2, <1>3 DEF Afoot, Out, Preparable
<1> QED
  BY <1>1, <1>2, <1>3, <1>4, <1>5, QuietCharges DEF Kept

\* A transaction is mined: an opening was usable before, and whatever it leaves
\* to be made anew was so before.
LEMMA MineKept ==
    ASSUME Kept, Mine
    PROVE  Kept'
<1>1. Sound /\ Charges /\ PactOK /\ doubled \in Nat
  BY DEF Kept, Sound
<1>2. /\ Sound' /\ Signing' \subseteq Signing /\ Sent' \subseteq Sent
      /\ UNCHANGED <<now, pact, drafts, doubled, overlapped>>
      /\ At({"draft"})' \subseteq At({"draft"})
      /\ At({"drafting"})' \subseteq At({"drafting"})
      /\ \/ DOMAIN cards' = DOMAIN cards
         \/ \E c \in Sent : Live(c) /\ DOMAIN cards' = DOMAIN cards \cup {c}
  BY <1>1, MineSound
<1>3. Out' = Out /\ (Preparable' <=> Preparable) /\ Signing' \cup Sent' \subseteq Afoot
      /\ (\A d : Live(d)' <=> Live(d))
  BY <1>2 DEF Out, Preparable, Afoot, Live, Horizon
<1>4. CASE DOMAIN cards' = DOMAIN cards
  BY <1>1, <1>2, <1>3, <1>4, QuietCharges DEF Kept
<1>5. CASE \E c \in Sent : /\ Live(c) /\ c \notin DOMAIN cards
                           /\ DOMAIN cards' = DOMAIN cards \cup {c}
  <2>1. PICK c \in Sent : /\ Live(c) /\ ~Opened(c)
                          /\ DOMAIN cards' = DOMAIN cards \cup {c}
    BY <1>5 DEF Opened
  <2>2. Chargeable' \subseteq Chargeable
    BY <1>2, <1>3, <2>1 DEF Chargeable, Usable, Afoot
  <2>3. Drafting' \subseteq Drafting
    BY <1>2 DEF Drafting
  <2>4. \A d : Opened(d)' <=> Opened(d) \/ d = c
    BY <2>1 DEF Opened
  <2>5. ASSUME Renewing', Drafting' = Drafting PROVE Renewing
    <3>1. CASE c = pact.paycard
      <4>1. LateDraft'
        BY <1>2, <2>4, <2>5, <3>1 DEF Renewing, Astray
      <4>2. \A d \in Out : ~Live(d)
        BY <1>3, <4>1 DEF LateDraft
      <4> QED
        BY <1>3, <2>1, <2>5, <3>1, <4>1, <4>2 DEF LateDraft, Renewing, Astray, Hopeful
    <3>2. CASE c # pact.paycard
      <4>1. \A d \in Out : Hopeful(d) => Hopeful(d)'
        BY <1>2, <1>3, <2>1, <2>4, <3>2 DEF Hopeful
      <4>2. CASE Astray'
        BY <1>2, <1>3, <2>4, <2>5, <4>1, <4>2 DEF Renewing, Astray
      <4>3. CASE LateDraft'
        BY <1>2, <1>3, <2>4, <2>5, <3>2, <4>3 DEF Renewing, LateDraft
      <4> QED
        BY <2>5, <4>2, <4>3 DEF Renewing
    <3> QED
      BY <3>1, <3>2
  <2>6. doubled' \in Nat /\ doubled' >= doubled
    BY <1>1, <1>2
  <2>7. Charges'
    BY <1>1, <2>2, <2>3, <2>5, <2>6, ChargesFall
  <2> QED
    BY <1>2, <2>7 DEF Kept
<1> QED
  BY <1>2, <1>4, <1>5

\* Time passes: a draft that expires is one less, and a Paycard that ends before
\* it is found is counted.
LEMMA ClockTickKept ==
    ASSUME Kept, ClockTick
    PROVE  Kept'
<1>1. Sound /\ Charges /\ TypesOK /\ CardsOK /\ doubled \in Nat /\ overlapped \in BOOLEAN
      /\ now \in Nat
  BY DEF Kept, Sound, TypesOK
<1>2. /\ now' = now + 1 /\ UNCHANGED <<cards, queue, pact, drafts, page, overlapped>>
      /\ doubled' = doubled + Counted(OutlivedOnTheWay)
  BY DEF ClockTick, chain
<1>3. doubled' \in Nat /\ doubled' >= doubled /\ (OutlivedOnTheWay => doubled' > doubled)
  BY <1>1, <1>2 DEF Counted
<1>4. Sound'
  <2>1. CardsOK' /\ DOMAIN cards' = DOMAIN cards /\ now' \in Nat
    BY <1>1, <1>2 DEF CardsOK
  <2> QED
    BY <1>1, <1>2, <1>3, <2>1, WorldSound
<1>5. /\ Afoot' = Afoot /\ Out' = Out /\ Sent' = Sent /\ Drafting' = Drafting
      /\ (Preparable' <=> Preparable) /\ At({"draft"})' = At({"draft"})
      /\ \A d : Opened(d)' <=> Opened(d)
  BY <1>2 DEF Afoot, Out, Sent, Signing, Drafting, At, Preparable, Opened
<1>6. \A d \in Card : /\ Live(d)' => Live(d)
                      /\ Live(d) /\ ~Live(d)' => Horizon(d) = now + 1
  <2> SUFFICES ASSUME NEW d \in Card
               PROVE  /\ Live(d)' => Live(d)
                      /\ Live(d) /\ ~Live(d)' => Horizon(d) = now + 1
    OBVIOUS
  <2>1. Horizon(d) \in Nat /\ Horizon(d)' = Horizon(d)
    BY DEF Horizon, Card
  <2> QED
    BY <1>1, <1>2, <2>1 DEF Live
<1>7. \A d \in Out : d \in Card /\ d \in Afoot
  BY <1>1 DEF TypesOK, Out, Afoot
<1>8. Chargeable' \subseteq Chargeable
  <2>1. ASSUME NEW d \in Afoot, Live(d)' PROVE Live(d)
    <3>1. Horizon(d)' = Horizon(d) /\ now' = now + 1
      BY <1>2 DEF Horizon
    <3>2. d \in Card
      BY <1>1, <2>1, AfootCards
    <3> QED
      BY <1>6, <2>1, <3>2
  <2> QED
    BY <1>2, <1>5, <2>1 DEF Chargeable, Usable
<1>9. ASSUME NEW c \in Out, Live(c), ~Live(c)', ~Opened(c)
      PROVE  Chargeable' # Chargeable
  BY <1>2, <1>7, <1>9 DEF Chargeable, Usable, Opened
<1>10. Renewing' => Renewing \/ doubled' > doubled \/ Chargeable' # Chargeable
  <2>1. CASE Astray'
    <3>1. CASE \E c \in Out : Hopeful(c)
      <4>1. PICK c \in Out : Hopeful(c)
        BY <3>1
      <4>2. ~Live(c)'
        BY <1>2, <1>5, <2>1, <4>1 DEF Astray, Hopeful
      <4> QED
        BY <1>9, <4>1, <4>2 DEF Hopeful
    <3>2. CASE ~ \E c \in Out : Hopeful(c)
      BY <1>2, <1>5, <2>1, <3>2 DEF Renewing, Astray
    <3> QED
      BY <3>1, <3>2
  <2>2. CASE LateDraft'
    <3>1. CASE \E c \in Out : Live(c)
      <4>1. PICK c \in Out : Live(c) /\ ~Live(c)'
        BY <1>5, <2>2, <3>1 DEF LateDraft
      <4>2. CASE Opened(c)
        <5>1. Preparable /\ At({"draft"}) # {}
          BY <1>5, <2>2 DEF LateDraft
        <5>2. Horizon(c) = now + 1
          BY <1>6, <1>7, <4>1
        <5> QED
          BY <1>3, <4>2, <5>1, <5>2 DEF OutlivedOnTheWay, Opened
      <4>3. CASE ~Opened(c)
        BY <1>9, <4>1, <4>3
      <4> QED
        BY <4>2, <4>3
    <3>2. CASE ~ \E c \in Out : Live(c)
      BY <1>2, <1>5, <2>2, <3>2 DEF Renewing, LateDraft
    <3> QED
      BY <3>1, <3>2
  <2> QED
    BY <2>1, <2>2 DEF Renewing
<1>11. Charges'
  BY <1>1, <1>3, <1>5, <1>8, <1>10, ChargesFall
<1> QED
  BY <1>4, <1>11 DEF Kept

\* Others settle and flush what is charged already.
LEMMA OthersKept ==
    ASSUME Kept, NEW c \in DOMAIN cards, OthersSettle(c) \/ OthersFlush(c)
    PROVE  Kept'
<1>1. Sound /\ Charges
  BY DEF Kept
<1>2. Sound' /\ DOMAIN cards' = DOMAIN cards
      /\ UNCHANGED <<now, queue, pact, drafts, page, doubled, overlapped>>
  BY <1>1, OthersSound
<1>3. /\ Out' = Out /\ Signing' = Signing /\ Sent' = Sent /\ At({"draft"})' = At({"draft"})
      /\ At({"drafting"})' = At({"drafting"}) /\ (Preparable' <=> Preparable)
  BY <1>2 DEF Out, Signing, Sent, At, Preparable
<1> QED
  BY <1>1, <1>2, <1>3, QuietCharges DEF Kept, Afoot

\* The server restarts: a draft that it forgets is counted, a request that dies is
\* one less.
LEMMA RestartKept ==
    ASSUME Kept, Restart
    PROVE  Kept'
<1>1. Sound /\ Charges /\ TypesOK /\ doubled \in Nat
  BY DEF Kept, Sound
<1>2. /\ Sound' /\ Signing' \subseteq Signing /\ Sent' \subseteq Sent
      /\ At({"draft"})' \subseteq At({"draft"})
      /\ At({"drafting"})' = {} /\ Out' = {} /\ UNCHANGED <<now, cards, pact>>
  BY <1>1, RestartSound
<1>3. doubled' = doubled + Counted(Preparable /\ Reusable # {})
  BY DEF Restart
<1>4. doubled' \in Nat /\ doubled' >= doubled
      /\ (Preparable /\ Reusable # {} => doubled' > doubled)
  BY <1>1, <1>3 DEF Counted
<1>5. (\A d : Live(d)' <=> Live(d)) /\ (Preparable' <=> Preparable)
      /\ (\A d : Opened(d)' <=> Opened(d))
  BY <1>2 DEF Live, Horizon, Preparable, Opened
<1>6. Chargeable' \subseteq Chargeable
  BY <1>2, <1>5 DEF Chargeable, Usable, Afoot
<1>7. Drafting' \subseteq Drafting
  BY <1>2 DEF Drafting
<1>8. Renewing' => Renewing \/ doubled' > doubled \/ Drafting' # Drafting
  <2> SUFFICES ASSUME Renewing', ~(Preparable /\ Reusable # {}), Drafting' = Drafting
               PROVE  Renewing
    BY <1>4
  <2>1. Preparable /\ Drafting = {} /\ Reusable = {}
    BY <1>2, <1>5 DEF Renewing, Astray, LateDraft, Drafting
  <2>2. \A c \in Out : ~Live(c)
    <3> SUFFICES ASSUME NEW c \in Out PROVE ~Live(c)
      OBVIOUS
    <3>1. PICK i \in 1..Len(drafts) : drafts[i] = c
      BY DEF Out
    <3>2. i \in DOMAIN drafts /\ drafts[i] \in Card
      BY <1>1, <3>1 DEF TypesOK
    <3>3. ~(Horizon(drafts[i]) > now)
      BY <2>1, <3>2 DEF Reusable
    <3>4. Horizon(c) \in Nat /\ now \in Nat
      BY <1>1, <3>1, <3>2 DEF TypesOK, Horizon, Card
    <3> QED
      BY <3>1, <3>3, <3>4 DEF Live
  <2>3. CASE Opened(pact.paycard)
    <3>1. LateDraft'
      BY <1>2, <1>5, <2>3 DEF Renewing, Astray
    <3>2. At({"draft"}) # {}
      BY <1>2, <3>1 DEF LateDraft
    <3> QED
      BY <2>1, <2>2, <2>3, <3>2 DEF Renewing, LateDraft
  <2>4. CASE ~Opened(pact.paycard)
    BY <2>1, <2>2, <2>4 DEF Renewing, Astray, Hopeful
  <2> QED
    BY <2>3, <2>4
<1>9. Charges'
  BY <1>1, <1>4, <1>6, <1>7, <1>8, ChargesFall
<1> QED
  BY <1>2, <1>9 DEF Kept

-----------------------------------------------------------------------------
(* The theorems.                                                           *)

\* At first nothing is opened, sent or asked for.
LEMMA Beginning ==
    ASSUME Init
    PROVE  /\ TypesOK /\ Out = {} /\ Signing = {} /\ Sent = {} /\ DOMAIN cards = {}
           /\ \A S : "closed" \notin S => At(S) = {}
           /\ pact.status = "accepted" /\ ~pact.opened /\ ~pact.approved
           /\ pact.recorded = {}
           /\ \A p \in Pages : page[p].at = "closed" /\ page[p].phase = "pact"
<1> USE DEF Init
<1>1. Closed \in PageState /\ Closed.at = "closed" /\ Closed.phase = "pact"
  <2>1. "pact" \in Phases
    BY DEF Phases
  <2> QED
    BY <2>1, IdleIsPage
<1>2. pact \in PactState /\ pact.status = "accepted" /\ ~pact.opened
      /\ ~pact.approved /\ pact.recorded = {}
  BY DEF NewPact, PactState, Forming
<1>3. TypesOK
  BY <1>1, <1>2, EmptySeq DEF TypesOK
<1>4. \A S : "closed" \notin S => At(S) = {}
  BY <1>1 DEF At
<1>5. Out = {} /\ Signing = {} /\ Sent = {}
  <2>1. At({"sign"}) = {} /\ At({"submit"}) = {}
    BY <1>4
  <2>2. Out = {}
    BY EmptySeq DEF Out
  <2>3. {j \in 1..Len(queue) : queue[j].kind = "open"} = {}
    BY EmptySeq
  <2> QED
    BY <2>1, <2>2, <2>3 DEF Signing, Sent
<1> QED
  BY <1>1, <1>2, <1>3, <1>4, <1>5

\* Nothing is charged at first, and the first draft is due.
LEMMA KeptInit ==
    Init => Kept
<1> SUFFICES ASSUME Init PROVE Sound /\ Charges
  BY DEF Kept
<1>1. /\ TypesOK /\ Out = {} /\ Signing = {} /\ Sent = {} /\ DOMAIN cards = {}
      /\ \A S : "closed" \notin S => At(S) = {}
      /\ pact.status = "accepted" /\ ~pact.opened /\ ~pact.approved
      /\ pact.recorded = {}
      /\ \A p \in Pages : page[p].at = "closed" /\ page[p].phase = "pact"
  BY Beginning
<1>2. doubled = 0 /\ overlapped = FALSE /\ queue = <<>>
  BY DEF Init
<1>3. IsFiniteSet({}) /\ Cardinality({}) = 0
  BY FS_EmptySet
<1>4. CardsOK
  BY <1>1, <1>3 DEF CardsOK
<1>5. PactOK
  BY <1>1 DEF PactOK, Preparable
<1>6. QueueOK
  BY <1>2, EmptySeq DEF QueueOK
<1>7. \A p \in Pages : Screen(p)
  BY <1>1 DEF Screen, Busy, Later, Recording
<1>8. Chargeable = {} /\ Drafting = {}
  BY <1>1 DEF Chargeable, Usable, Afoot, Drafting
<1>9. Potential = 0
  BY <1>3, <1>8 DEF Potential
<1>10. Sound
  BY <1>1, <1>2, <1>4, <1>5, <1>6, <1>7 DEF Sound
<1>11. Charges
  BY <1>2, <1>9 DEF Charges
<1> QED
  BY <1>10, <1>11

\* Every step keeps what may be charged within its causes.
LEMMA KeptStep ==
    Kept /\ [Next]_vars => Kept'
<1> SUFFICES ASSUME Kept, [Next]_vars PROVE Kept'
  OBVIOUS
<1>1. CASE ClockTick \/ Mine \/ Restart
  BY <1>1, ClockTickKept, MineKept, RestartKept
<1>2. CASE \E c \in DOMAIN cards : OthersSettle(c) \/ OthersFlush(c)
  BY <1>2, OthersKept
<1>3. ASSUME NEW p \in Pages,
             \/ OpenPage(p) \/ Refresh(p) \/ ClosePage(p)
             \/ Press(p) \/ Proceed(p) \/ GiveUp(p)
             \/ Reject(p) \/ RequestFails(p)
      PROVE  Kept'
  <2>1. CASE OpenPage(p) \/ Refresh(p) \/ ClosePage(p) \/ GiveUp(p) \/ RequestFails(p)
    BY <2>1, VisitKept
  <2>2. CASE Press(p)
    BY <2>2, VisitKept, ProofKept, SettleKept DEF Press
  <2>3. CASE Proceed(p)
    BY <2>3, OpeningKept, RequestDraftKept, IssueDraftKept, PreparePaymentKept,
       SubmitKept, ProofKept, SettleKept, RecordingKept DEF Proceed
  <2>4. CASE Reject(p)
    BY <2>4, ProofKept
  <2> QED
    BY <1>3, <2>1, <2>2, <2>3, <2>4
<1>4. CASE UNCHANGED vars
  <2>1. UNCHANGED <<now, cards, queue, pact, drafts, page, doubled, overlapped>>
    BY <1>4 DEF vars
  <2>2. Sound /\ Charges
    BY DEF Kept
  <2>3. Sound'
    <3>1. CardsOK' /\ DOMAIN cards' = DOMAIN cards
      BY <2>1, <2>2 DEF Sound, CardsOK
    <3>2. now' \in Nat /\ doubled' \in Nat /\ overlapped' \in BOOLEAN
      BY <2>1, <2>2 DEF Sound, TypesOK
    <3> QED
      BY <2>1, <2>2, <3>1, <3>2, WorldSound
  <2>4. /\ Out' = Out /\ Signing' = Signing /\ Sent' = Sent
        /\ At({"draft"})' = At({"draft"}) /\ At({"drafting"})' = At({"drafting"})
        /\ (Preparable' <=> Preparable)
    BY <2>1 DEF Out, Signing, Sent, At, Preparable
  <2> QED
    BY <2>1, <2>2, <2>3, <2>4, QuietCharges DEF Kept, Afoot
<1> QED
  BY <1>1, <1>2, <1>3, <1>4 DEF Next

\* What may be charged stays within its causes, whatever happens.
LEMMA KeptAlways == Spec => []Kept
BY KeptInit, KeptStep, PTL DEF Spec

\* Before anything has gone wrong only the Pact's own Paycard is opened, and no
\* draft is made once it is.
LEMMA NothingSpare ==
    ASSUME Kept, doubled = 0
    PROVE  /\ DOMAIN cards \subseteq {pact.paycard}
           /\ Drafting # {} => DOMAIN cards = {}
<1>1. Sound /\ Charges /\ PactOK /\ IsFiniteSet(Chargeable) /\ IsFiniteSet(Drafting)
  BY Countable DEF Kept, Sound
<1> DEFINE k == Cardinality(Chargeable)
           d == Cardinality(Drafting)
<1>2. k \in Nat /\ d \in Nat /\ k + d <= 1 /\ (Renewing => k + d <= 0)
  <2>1. Potential = k + d /\ Potential <= 1 + 0 /\ (Renewing => Potential <= 0)
    BY <1>1 DEF Charges, Potential
  <2>2. k \in Nat /\ d \in Nat
    BY <1>1, FS_CardinalityType
  <2> HIDE DEF k, d
  <2> QED
    BY <2>1, <2>2
<1>3. ASSUME NEW c \in DOMAIN cards
      PROVE  k = 1 /\ d = 0 /\ ~Renewing /\ (\A e \in Chargeable : e = c)
  <2>1. c \in Chargeable
    BY DEF Chargeable
  <2>2. Cardinality({c}) = 1 /\ IsFiniteSet({c})
    BY FS_Singleton
  <2>3. 1 <= k /\ ({c} # Chargeable => 1 < k)
    BY <1>1, <2>1, <2>2, Fewer
  <2> HIDE DEF k, d
  <2>4. k = 1 /\ d = 0 /\ ~(1 < k)
    BY <1>2, <2>3
  <2>5. ~Renewing
    BY <1>2, <2>4
  <2> QED
    BY <2>3, <2>4, <2>5
<1>4. ASSUME d = 0 PROVE Drafting = {}
  <2>1. ASSUME NEW p \in Drafting PROVE FALSE
    <3>1. Cardinality({p}) = 1 /\ IsFiniteSet({p})
      BY FS_Singleton
    <3>2. 1 <= d
      BY <1>1, <3>1, Fewer
    <3> HIDE DEF d
    <3> QED
      BY <1>4, <3>2
  <2> QED
    BY <2>1
<1> HIDE DEF k, d
<1>5. Drafting # {} => DOMAIN cards = {}
  BY <1>3, <1>4
<1>6. ASSUME NEW c \in DOMAIN cards PROVE c = pact.paycard
  <2>1. (\A e \in Chargeable : e = c) /\ ~Renewing /\ Drafting = {}
    BY <1>3, <1>4
  <2>2. CASE Opened(pact.paycard)
    BY <2>1, <2>2 DEF Opened, Chargeable
  <2>3. CASE ~Opened(pact.paycard)
    <3>1. Preparable
      BY <1>1, <2>3 DEF PactOK
    <3>2. \A e \in Out : ~Hopeful(e)
      <4> SUFFICES ASSUME NEW e \in Out, Hopeful(e) PROVE FALSE
        OBVIOUS
      <4>1. e \in Chargeable /\ e \notin DOMAIN cards
        BY DEF Hopeful, Chargeable, Usable, Afoot, Opened
      <4> QED
        BY <2>1, <4>1
    <3> QED
      BY <2>1, <2>3, <3>1, <3>2 DEF Renewing, Astray
  <2> QED
    BY <2>2, <2>3
<1> QED
  BY <1>5, <1>6

\* The types of the variables hold (the state of every module of the app).
THEOREM TypesAlways == Spec => []TypesOK
<1>1. Kept => TypesOK
  BY DEF Kept, Sound
<1> QED
  BY <1>1, KeptAlways, PTL

\* However often pages are reloaded, requests repeated, fail and are cut off, and
\* transactions expire or revert, each Paycard beyond the first has a cause of its
\* own (openPayment, the drafts of the server, prepare and the vault's nonce).
THEOREM ChargedPerCauseAlways == Spec => []ChargedPerCause
<1>1. Kept => ChargedPerCause
  <2> SUFFICES ASSUME Kept PROVE ChargedPerCause
    OBVIOUS
  <2>1. Sound /\ Charges /\ IsFiniteSet(Chargeable) /\ IsFiniteSet(Drafting)
        /\ doubled \in Nat
    BY Countable DEF Kept, Sound
  <2>2. DOMAIN cards \subseteq Chargeable
    BY DEF Chargeable
  <2>3. /\ Cardinality(DOMAIN cards) \in Nat /\ Cardinality(Chargeable) \in Nat
        /\ Cardinality(DOMAIN cards) <= Cardinality(Chargeable)
    BY <2>1, <2>2, Fewer
  <2>4. Cardinality(Drafting) \in Nat
    BY <2>1, FS_CardinalityType
  <2>5. Cardinality(Chargeable) + Cardinality(Drafting) <= 1 + doubled
    BY <2>1 DEF Charges, Potential
  <2> QED
    BY <2>1, <2>3, <2>4, <2>5 DEF ChargedPerCause
<1> QED
  BY <1>1, KeptAlways, PTL

\* A Paycard that was opened is the one the Pact is bound to, until two drafts are
\* made at once, the server forgets a live draft, or a Paycard comes and goes while
\* a page is about to ask for a draft (openPayment and the server's drafts).
THEOREM ChargedOnceAlways == Spec => []ChargedOnce
<1>1. Kept => ChargedOnce
  BY NothingSpare DEF ChargedOnce
<1> QED
  BY <1>1, KeptAlways, PTL

\* The course starts with nothing opened.
LEMMA CourseInit ==
    Init => CourseInv
<1> SUFFICES ASSUME Init PROVE Course
  BY DEF CourseInv
<1>1. /\ TypesOK /\ Out = {} /\ Signing = {} /\ Sent = {} /\ DOMAIN cards = {}
      /\ \A S : "closed" \notin S => At(S) = {}
      /\ pact.status = "accepted" /\ ~pact.opened /\ ~pact.approved
      /\ pact.recorded = {}
      /\ \A p \in Pages : page[p].at = "closed" /\ page[p].phase = "pact"
  BY Beginning
<1>2. queue = <<>>
  BY DEF Init
<1>3. OneDraft /\ OneCard
  BY <1>1 DEF OneDraft, OneCard, Afoot
<1>4. InPhase
  <2>1. At({"verifying", "send", "report", "observing", "observed"}) = {} /\ At({"send"}) = {}
    BY <1>1
  <2>2. \A i \in 1..Len(queue) : FALSE
    BY <1>2, EmptySeq
  <2> QED
    BY <1>1, <2>1, <2>2 DEF InPhase, Forming
<1> QED
  BY <1>1, <1>3, <1>4 DEF Course

\* What has been disturbed stays so.
LEMMA DisturbedStays ==
    ASSUME Kept, [Next]_vars, ~disturbed'
    PROVE  ~disturbed /\ doubled' = doubled /\ doubled = 0
<1>1. doubled \in Nat
  BY DEF Kept, Sound
<1>2. doubled' >= doubled /\ (overlapped => overlapped')
  <2>1. doubled' = doubled \/ \E c : doubled' = doubled + Counted(c)
    BY DEF Next, Proceed, Press, ClockTick, Mine, OthersSettle, OthersFlush, OpenPage,
        Refresh, ClosePage, PressOpen, Prove, PressSettle, RecoverOpening, RequestDraft,
        IssueDraft, PreparePayment, SubmitOpening, ConfirmOpening, Approve,
        SubmitSettlement, ReportSettlement, ObserveSettlement, RecordSettlement, GiveUp,
        Reject, RequestFails, Restart, Local, Sends, history, vars
  <2>2. overlapped => overlapped'
    BY DEF Next, Proceed, Press, ClockTick, Mine, OthersSettle, OthersFlush, OpenPage,
        Refresh, ClosePage, PressOpen, Prove, PressSettle, RecoverOpening, RequestDraft,
        IssueDraft, PreparePayment, SubmitOpening, ConfirmOpening, Approve,
        SubmitSettlement, ReportSettlement, ObserveSettlement, RecordSettlement, GiveUp,
        Reject, RequestFails, Restart, Local, Sends, history, vars
  <2> QED
    BY <1>1, <2>1, <2>2 DEF Counted
<1>3. ~(doubled' > 0) /\ ~overlapped'
  BY DEF disturbed
<1>4. doubled' \in Nat
  BY KeptStep DEF Kept, Sound
<1> QED
  BY <1>1, <1>2, <1>3, <1>4 DEF disturbed

\* A step keeps the course, unless it disturbs it.
LEMMA CourseStep ==
    Kept /\ CourseInv /\ [Next]_vars => CourseInv'
<1> SUFFICES ASSUME Kept, CourseInv, [Next]_vars, ~disturbed' PROVE Course'
  BY DEF CourseInv
<1>1. ~disturbed /\ doubled' = doubled /\ doubled = 0
  BY DisturbedStays
<1>2. Course /\ ~overlapped'
  BY <1>1 DEF CourseInv, disturbed
<1>3. CASE ClockTick \/ Mine
  BY <1>2, <1>3, ClockTickKeeps, MineKeeps
<1>4. CASE \E c \in DOMAIN cards : OthersSettle(c) \/ OthersFlush(c)
  BY <1>2, <1>4, OthersKeep
<1>5. ASSUME NEW p \in Pages,
             \/ OpenPage(p) \/ Refresh(p) \/ ClosePage(p)
             \/ Press(p) \/ Proceed(p) \/ GiveUp(p)
             \/ Reject(p) \/ RequestFails(p)
      PROVE  Course'
  <2>1. CASE OpenPage(p) \/ Refresh(p) \/ ClosePage(p)
    BY <1>2, <2>1, OpenPageKeeps, ClosePageKeeps
  <2>2. CASE PressSettle(p)
    <3>1. ~Overlaps(p)
      BY <1>2, <2>2 DEF PressSettle
    <3> QED
      BY <1>2, <2>2, <3>1, PressSettleKeeps
  <2>3. CASE PressOpen(p) \/ Prove(p) \/ Approve(p) \/ Reject(p)
    BY <1>2, <2>3, PressOpenKeeps, ProofKeeps
  <2>4. CASE ReportSettlement(p)
    <3>1. pact.approved => ~Overlaps(p)
      BY <1>2, <2>4 DEF ReportSettlement
    <3> QED
      BY <1>2, <2>4, <3>1, ReportKeeps
  <2>5. CASE RequestDraft(p)
    <3>1. Preparable /\ Reusable = {} => At({"drafting"}) = {}
      BY <1>1, <2>5 DEF RequestDraft, Counted
    <3> QED
      BY <1>2, <2>5, <3>1, RequestDraftKeeps
  <2>6. CASE IssueDraft(p)
    <3>1. p \in Drafting
      BY <2>6 DEF IssueDraft, Drafting, At
    <3> QED
      BY <1>1, <1>2, <2>6, <3>1, NothingSpare, IssueDraftKeeps
  <2>7. CASE \/ RecoverOpening(p) \/ PreparePayment(p) \/ SubmitOpening(p)
             \/ ConfirmOpening(p) \/ SubmitSettlement(p)
             \/ ObserveSettlement(p) \/ RecordSettlement(p)
    BY <1>2, <2>7, OpeningKeeps, PreparePaymentKeeps, SubmitKeeps, ObserveKeeps, RecordKeeps
  <2>8. CASE GiveUp(p) \/ RequestFails(p)
    BY <1>2, <2>8, FailureKeeps
  <2> QED
    BY <1>5, <2>1, <2>2, <2>3, <2>4, <2>5, <2>6, <2>7, <2>8 DEF Press, Proceed
<1>6. CASE Restart
  <2>1. Preparable => Reusable = {}
    BY <1>1, <1>6 DEF Restart, Counted
  <2> QED
    BY <1>2, <1>6, <2>1, RestartKeeps
<1>7. CASE UNCHANGED vars
  <2>1. UNCHANGED <<now, cards, queue, pact, drafts, page>>
    BY <1>7 DEF vars
  <2>2. page' \in [Pages -> PageState] /\ (\A q \in Pages : Drops(q)) /\ SameQueue
    BY <1>2, <2>1 DEF Course, TypesOK, Drops, SameQueue
  <2> QED
    BY <1>2, <2>1, <2>2, OnlyDrops
<1> QED
  BY <1>3, <1>4, <1>5, <1>6, <1>7 DEF Next

\* Until something disturbs it, the course keeps to one draft and one Paycard,
\* and the books of that Paycard balance.
THEOREM CourseAlways == Spec => []CourseInv
<1>1. Init => Kept /\ CourseInv
  BY KeptInit, CourseInit
<1>2. Kept /\ CourseInv /\ [Next]_vars => (Kept /\ CourseInv)'
  BY KeptStep, CourseStep
<1> QED
  BY <1>1, <1>2, PTL DEF Spec

\* A Pact that reads settled was paid in full, with every payout on record, as long
\* as no second Paycard was made possible and no two recordings overlapped (settle
\* and recordPactSettlement).
THEOREM SettledInFullAlways == Spec => []SettledInFull
<1>1. CourseInv => SettledInFull
  <2> SUFFICES ASSUME Course, pact.status = "settled"
               PROVE  LET c == pact.paycard
                      IN  /\ pact.recorded = DOMAIN cards[c].payouts
                          /\ PayoutSum(c, pact.recorded) = Life
    BY DEF CourseInv, SettledInFull
  <2>1. pact.opened
    BY DEF Course, InPhase, Forming
  <2>2. DOMAIN cards # {}
    BY <2>1 DEF Course, OneCard
  <2>3. Balanced /\ PaidUp /\ AllRecorded
    BY <2>2 DEF Course, Settling
  <2>4. DOMAIN Paycard.payouts = Payouts
    BY <2>3 DEF Balanced, Entry, Payouts
  <2> QED
    BY <2>3, <2>4 DEF PaidUp, AllRecorded, Total, Paycard
<1> QED
  BY <1>1, CourseAlways, PTL

=============================================================================
