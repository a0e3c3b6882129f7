------------------------------ MODULE Royalties ------------------------------
(***************************************************************************)
(* Royalties for plays: music-scrobble-worker logs a play of a paycard in  *)
(* the D1 table plays; reconciliation-worker, in its d1 mode, locks the    *)
(* pending plays of a paycard, settles the stream and marks them.  Runs of *)
(* the reconciliation overlap (the cron's and POST /reconcile), fail at    *)
(* any call and end anywhere.  Every statement and every RPC call is       *)
(* atomic.                                                                 *)
(*                                                                         *)
(* Abstractions: a play is its source_event_id, so a delivery without one  *)
(* is a new play; the artists' KV registry, amounts and timestamps are     *)
(* left out; the webhook lets only bytes32 ids in, so the branch for       *)
(* invalid ids is not reached.                                             *)
(***************************************************************************)
EXTENDS Integers, FiniteSets

CONSTANTS
    Plays, Paycards,
    Runs,         \* reconciliations that may run side by side
    Cron,         \* the one the schedule starts again and again
    None,         \* no paycard
    MaxAttempts,  \* MAX_SETTLEMENT_ATTEMPTS
    BatchLimit,   \* RECONCILIATION_BATCH_LIMIT
    MaxByHand,    \* bounds of the model: runs started by hand,
    MaxCrashes    \* runs that end half way

ASSUME RoyaltiesAssumption ==
    /\ Cron \in Runs /\ None \notin Paycards
    /\ {MaxAttempts, BatchLimit} \subseteq Nat \ {0}
    /\ {MaxByHand, MaxCrashes} \subseteq Nat

VARIABLES
    stream,    \* status of every paycard in the hub, or "unopened"
    play,      \* the rows of the table plays
    run,
    byHand, crashes,
    \* history
    paidSince, \* plays followed by a successful settlement of their paycard
    overlaid,  \* paycards two runs have been working on at a time
    cutOff     \* paycards a run had locked plays of when it ended half way

vars == <<stream, play, run, byHand, crashes, paidSince, overlaid, cutOff>>
history == <<paidSince, overlaid, cutOff>>

\* plays.settled: 0, 1, 2 and 3 in the table.
Pending == "pending"
Settled == "settled"
Skipped == "skipped"
Locked  == "locked"

NoPlay == [settled |-> "none", paycard |-> None, attempts |-> 0]
Resting == [at |-> "idle", todo |-> {}, paycard |-> None]

Of(c, mark) == {p \in Plays : play[p].paycard = c /\ play[p].settled = mark}

-----------------------------------------------------------------------------
(* The hub and the webhook.                                                *)

Open(c) ==
    /\ stream[c] = "unopened"
    /\ stream' = [stream EXCEPT ![c] = "Active"]
    /\ UNCHANGED <<play, run, byHand, crashes, history>>

\* By a settlement of somebody else's that spends it, or by a flush.
Terminate(c) ==
    /\ stream[c] = "Active"
    /\ stream' = [stream EXCEPT ![c] = "Terminated"]
    /\ UNCHANGED <<play, run, byHand, crashes, history>>

\* INSERT OR IGNORE; that the paycard exists is not checked.
Scrobble(p, c) ==
    /\ play[p] = NoPlay
    /\ play' = [play EXCEPT ![p] = [settled |-> Pending, paycard |-> c, attempts |-> 0]]
    /\ UNCHANGED <<stream, run, byHand, crashes, history>>

-----------------------------------------------------------------------------
(* reconcileFromD1, statement by statement.                                *)

Goes(w, r) == run' = [run EXCEPT ![w] = r]

Eligible(p) == play[p].settled = Pending /\ play[p].attempts < MaxAttempts

Due == {play[p].paycard : p \in {q \in Plays : Eligible(q)}}

\* SELECT DISTINCT ... LIMIT returns any of the paycards that are due.
Begin(w) ==
    /\ run[w].at = "idle"
    /\ \/ w = Cron /\ UNCHANGED byHand
       \/ w # Cron /\ byHand < MaxByHand /\ byHand' = byHand + 1
    /\ \E batch \in SUBSET Due \ {{}} :
          /\ \/ Cardinality(batch) = BatchLimit
             \/ batch = Due /\ Cardinality(Due) < BatchLimit
          /\ Goes(w, [at |-> "row", todo |-> batch, paycard |-> None])
    /\ UNCHANGED <<stream, play, crashes, history>>

\* The rows of paycard c that carry one mark are replaced.
Remark(c, mark, new) ==
    play' = [p \in Plays |-> IF p \in Of(c, mark) THEN new[p] ELSE play[p]]

\* The loop is done with one paycard.
Onward(w) ==
    Goes(w, IF run[w].todo = {} THEN Resting
            ELSE [run[w] EXCEPT !.at = "row", !.paycard = None])

Working(w, c) == run[w].at \notin {"idle", "row"} /\ run[w].paycard = c

\* Faulty: the attempt is not counted.
LockedUncounted(p) == [play[p] EXCEPT !.settled = Locked]
LockedRow(p) == [play[p] EXCEPT !.settled = Locked, !.attempts = @ + 1]

\* UPDATE plays SET settled = 3: no row changed, no settlement.
Lock(w) ==
    /\ run[w].at = "row"
    /\ \E c \in run[w].todo :
          LET left == [run[w] EXCEPT !.todo = @ \ {c}]
          IN  IF \E p \in Of(c, Pending) : Eligible(p)
              THEN /\ Remark(c, Pending, [p \in Plays |-> IF Eligible(p) THEN LockedRow(p) ELSE play[p]])
                   /\ Goes(w, [left EXCEPT !.at = "check", !.paycard = c])
                   /\ overlaid' = IF \E v \in Runs \ {w} : Working(v, c)
                                  THEN overlaid \cup {c} ELSE overlaid
              ELSE /\ Goes(w, IF left.todo = {} THEN Resting ELSE left)
                   /\ UNCHANGED <<play, overlaid>>
    /\ UNCHANGED <<stream, byHand, crashes, paidSince, cutOff>>

\* hub.registry: an id nobody opened reads Active.
CheckStream(w) ==
    LET c == run[w].paycard
    IN  /\ run[w].at = "check"
        /\ Goes(w, [run[w] EXCEPT !.at = IF stream[c] = "Terminated" THEN "skip" ELSE "send"])
        /\ UNCHANGED <<stream, play, byHand, crashes, history>>

SkipTerminated(w) ==
    /\ run[w].at = "skip"
    /\ Remark(run[w].paycard, Locked, [p \in Plays |-> [play[p] EXCEPT !.settled = Skipped]])
    /\ Onward(w)
    /\ UNCHANGED <<stream, byHand, crashes, history>>

\* processDripSettle is mined: it may spend the stream.  On an id nobody opened
\* it succeeds and does nothing.
SettleStream(w) ==
    LET c == run[w].paycard
    IN  /\ run[w].at = "send"
        /\ IF stream[c] = "Terminated"
           THEN /\ Goes(w, [run[w] EXCEPT !.at = "failed"])
                /\ UNCHANGED <<stream, paidSince>>
           ELSE /\ Goes(w, [run[w] EXCEPT !.at = "mark"])
                /\ stream' \in {stream} \cup
                       (IF stream[c] = "Active"
                        THEN {[stream EXCEPT ![c] = "Terminated"]} ELSE {})
                /\ paidSince' = paidSince \cup {p \in Plays : play[p].paycard = c}
        /\ UNCHANGED <<play, byHand, crashes, overlaid, cutOff>>

\* Faulty: the plays that came in meanwhile are marked with the locked ones.
MarkedToo(p) == TRUE
Markable(p) == play[p].settled = Locked

MarkSettled(w) ==
    LET c == run[w].paycard
    IN  /\ run[w].at = "mark"
        /\ play' = [p \in Plays |->
               IF play[p].paycard = c /\ Markable(p)
               THEN [play[p] EXCEPT !.settled = Settled] ELSE play[p]]
        /\ Onward(w)
        /\ UNCHANGED <<stream, byHand, crashes, history>>

\* An RPC call or the marking fails: the catch, which may fail as well (Crash).
CallFails(w) ==
    /\ run[w].at \in {"check", "skip", "send", "mark"}
    /\ Goes(w, [run[w] EXCEPT !.at = "failed"])
    /\ UNCHANGED <<stream, play, byHand, crashes, history>>

\* The transaction is mined but its receipt never comes.
ReceiptLost(w) ==
    LET c == run[w].paycard
    IN  /\ run[w].at = "send" /\ stream[c] # "Terminated"
        /\ Goes(w, [run[w] EXCEPT !.at = "failed"])
        /\ paidSince' = paidSince \cup {p \in Plays : play[p].paycard = c}
        /\ UNCHANGED <<stream, play, byHand, crashes, overlaid, cutOff>>

GivenBack(p) ==
    [play[p] EXCEPT !.settled = IF play[p].attempts >= MaxAttempts THEN Skipped ELSE Pending]

GiveBack(w) ==
    /\ run[w].at = "failed"
    /\ Remark(run[w].paycard, Locked, [p \in Plays |-> GivenBack(p)])
    /\ Onward(w)
    /\ UNCHANGED <<stream, byHand, crashes, history>>

\* The worker is ended, or a statement of the catch fails.
Crash(w) ==
    /\ run[w].at # "idle" /\ crashes < MaxCrashes
    /\ crashes' = crashes + 1
    /\ Goes(w, Resting)
    /\ cutOff' = cutOff \cup ({run[w].paycard} \ {None})
    /\ UNCHANGED <<stream, play, byHand, paidSince, overlaid>>

-----------------------------------------------------------------------------
Init ==
    /\ stream = [c \in Paycards |-> "unopened"]
    /\ play = [p \in Plays |-> NoPlay]
    /\ run = [w \in Runs |-> Resting]
    /\ byHand = 0 /\ crashes = 0
    /\ paidSince = {} /\ overlaid = {} /\ cutOff = {}

Proceed(w) ==
    \/ Lock(w) \/ CheckStream(w) \/ SkipTerminated(w) \/ SettleStream(w)
    \/ MarkSettled(w) \/ CallFails(w) \/ ReceiptLost(w) \/ GiveBack(w)

Next ==
    \/ \E c \in Paycards : Open(c) \/ Terminate(c)
    \/ \E p \in Plays, c \in Paycards : Scrobble(p, c)
    \/ \E w \in Runs : Begin(w) \/ Proceed(w) \/ Crash(w)

\* The cron comes round while something is due; a run gets on with it, however
\* often its calls fail.
Fairness == WF_vars(Begin(Cron)) /\ \A w \in Runs : WF_vars(Proceed(w))

Spec == Init /\ [][Next]_vars
FairSpec == Spec /\ Fairness

-----------------------------------------------------------------------------
(* Properties.                                                             *)

Marks == {"none", Pending, Settled, Skipped, Locked}
Steps == {"idle", "row", "check", "skip", "send", "mark", "failed"}

Row == [settled : Marks, paycard : Paycards \cup {None}, attempts : 0..MaxAttempts]
RunState == [at : Steps, todo : SUBSET Paycards, paycard : Paycards \cup {None}]

\* The rows are well formed and a play that waits has an attempt left: the
\* SELECT passes over a pending play without one for ever.
RoyaltiesTypeOK ==
    /\ stream \in [Paycards -> {"unopened", "Active", "Terminated"}]
    /\ play \in [Plays -> Row]
    /\ run \in [Runs -> RunState]
    /\ \A p \in Plays :
          /\ play[p].settled = "none" <=> play[p].paycard = None
          /\ play[p].settled = Pending => play[p].attempts < MaxAttempts
          /\ play[p].settled = Locked => play[p].attempts > 0
    /\ \A w \in Runs : run[w].paycard = None <=> run[w].at \in {"idle", "row"}

\* A play marked settled was logged before a settlement of its paycard that
\* went through, unless two runs were working on the paycard at a time: the
\* one that ends first marks the plays the other has locked.  A play is given
\* up only when its stream has ended or it has used up its attempts, never
\* because another play, run or crash came in between.
ResolvedForCause ==
    \A p \in Plays :
        LET c == play[p].paycard IN
        /\ (play[p].settled = Settled /\ c \notin overlaid) => p \in paidSince
        /\ play[p].settled = Skipped
              => stream[c] = "Terminated" \/ play[p].attempts = MaxAttempts

\* A play on record stays on record and is never taken back once it is settled
\* or given up, so no royalty is paid for twice on its account.
ResolvedIsFinal ==
    [][\A p \in Plays : play[p].settled \in {Settled, Skipped} => play'[p] = play[p]]_vars

\* Every play is at last settled or given up, whatever fails, overlaps or comes
\* in beyond the batch limit; only a run cut off while it had plays of the
\* paycard locked may leave one behind.
EventuallyResolved ==
    \A p \in Plays :
        (play[p].settled = Pending)
            ~> (play[p].settled \in {Settled, Skipped} \/ play[p].paycard \in cutOff)
=============================================================================
