--------------------------- MODULE RoyaltiesProofs ---------------------------
(***************************************************************************)
(* What is true of the table plays for any number of plays, paycards,      *)
(* overlapping runs and crashes.                                           *)
(***************************************************************************)
EXTENDS Royalties, TLAPS

\* What a run knows of the paycard it works on: it skips a terminated stream
\* only, it has the paycard to itself unless that is on record as overlaid, and
\* by the time it marks, every row it would mark has been paid for.
RunsKnow ==
    /\ \A w \in Runs : run[w].at = "skip" => stream[run[w].paycard] = "Terminated"
    /\ \A v, w \in Runs, c \in Paycards :
          (v # w /\ Working(v, c) /\ Working(w, c)) => c \in overlaid
    /\ \A w \in Runs : (run[w].at = "mark" /\ run[w].paycard \notin overlaid) =>
          \A p \in Plays :
              (play[p].paycard = run[w].paycard /\ play[p].settled = Locked) => p \in paidSince

Ledger == RoyaltiesTypeOK /\ RunsKnow /\ ResolvedForCause

USE RoyaltiesAssumption DEF Pending, Settled, Skipped, Locked, Marks, Steps

\* An empty table and resting runs.
LEMMA LedgerInit == Init => Ledger
BY DEF Init, Ledger, RoyaltiesTypeOK, Row, RunState, RunsKnow, ResolvedForCause, NoPlay, Resting, Working

\* After its last step on a paycard a run is idle or at the next one.
LEMMA OnwardRests ==
    ASSUME RoyaltiesTypeOK, NEW w \in Runs, Onward(w)
    PROVE  /\ run' \in [Runs -> RunState]
           /\ run'[w].paycard = None /\ run'[w].at \in {"idle", "row"}
           /\ \A v \in Runs \ {w} : run'[v] = run[v]
<1>1. CASE run[w].todo = {}
  <2>1. run' = [run EXCEPT ![w] = Resting]
    BY <1>1 DEF Onward, Goes
  <2> QED
    BY <2>1 DEF RoyaltiesTypeOK, Resting, RunState
<1>2. CASE run[w].todo # {}
  <2>1. run' = [run EXCEPT ![w] = [run[w] EXCEPT !.at = "row", !.paycard = None]]
    BY <1>2 DEF Onward, Goes
  <2> QED
    BY <2>1 DEF RoyaltiesTypeOK, RunState
<1> QED
  BY <1>1, <1>2

\* A run that closes its work on a paycard gives each row it had locked a mark
\* for which there is cause.
LEMMA ClosesForCause ==
    ASSUME Ledger, NEW w \in Runs, NEW mark \in [Plays -> {Pending, Settled, Skipped}],
           run[w].at \notin {"idle", "row"}, Onward(w),
           UNCHANGED <<stream, overlaid, paidSince>>,
           play' = [p \in Plays |->
               IF play[p].paycard = run[w].paycard /\ play[p].settled = Locked
               THEN [play[p] EXCEPT !.settled = mark[p]] ELSE play[p]],
           \A p \in Plays :
               (play[p].paycard = run[w].paycard /\ play[p].settled = Locked) =>
                   /\ mark[p] = Pending => play[p].attempts < MaxAttempts
                   /\ mark[p] = Skipped => \/ stream[run[w].paycard] = "Terminated"
                                           \/ play[p].attempts = MaxAttempts
                   /\ mark[p] = Settled => \/ run[w].paycard \in overlaid
                                           \/ p \in paidSince
    PROVE  Ledger'
<1>1. /\ run' \in [Runs -> RunState]
      /\ run'[w].paycard = None /\ run'[w].at \in {"idle", "row"}
      /\ \A v \in Runs \ {w} : run'[v] = run[v]
  BY OnwardRests DEF Ledger
<1>2. ASSUME NEW p \in Plays
      PROVE  /\ play[p] \in Row /\ play'[p] \in Row
             /\ play'[p].paycard = play[p].paycard
             /\ play'[p].attempts = play[p].attempts
             /\ play'[p].settled =
                   IF play[p].paycard = run[w].paycard /\ play[p].settled = Locked
                   THEN mark[p] ELSE play[p].settled
  BY DEF Ledger, RoyaltiesTypeOK, Row
<1>3. RoyaltiesTypeOK'
  <2>1. play' \in [Plays -> Row]
    BY <1>2
  <2>2. ASSUME NEW p \in Plays
        PROVE  /\ play'[p].settled = "none" <=> play'[p].paycard = None
               /\ play'[p].settled = Pending => play'[p].attempts < MaxAttempts
               /\ play'[p].settled = Locked => play'[p].attempts > 0
    BY <1>2 DEF Ledger, RoyaltiesTypeOK
  <2>3. \A v \in Runs : run'[v].paycard = None <=> run'[v].at \in {"idle", "row"}
    BY <1>1 DEF Ledger, RoyaltiesTypeOK
  <2> QED
    BY <1>1, <2>1, <2>2, <2>3 DEF Ledger, RoyaltiesTypeOK
<1>4. RunsKnow'
  BY <1>1, <1>2 DEF Ledger, RunsKnow, Working
<1>5. ResolvedForCause'
  BY <1>2 DEF Ledger, ResolvedForCause
<1> QED
  BY <1>3, <1>4, <1>5 DEF Ledger

\* A run that locks the rows of a paycard it has not been working on.
LEMMA LocksInOrder ==
    ASSUME Ledger, NEW w \in Runs, NEW c \in Paycards, run[w].at = "row",
           UNCHANGED <<stream, paidSince>>,
           Remark(c, Pending, [p \in Plays |-> IF Eligible(p) THEN LockedRow(p) ELSE play[p]]),
           run' = [run EXCEPT ![w] = [at |-> "check", todo |-> run[w].todo \ {c}, paycard |-> c]],
           overlaid' = IF \E v \in Runs \ {w} : Working(v, c) THEN overlaid \cup {c} ELSE overlaid
    PROVE  Ledger'
<1>1. /\ run' \in [Runs -> RunState]
      /\ run'[w].paycard = c /\ run'[w].at = "check"
      /\ \A v \in Runs \ {w} : run'[v] = run[v]
  BY DEF Ledger, RoyaltiesTypeOK, RunState
<1>2. ASSUME NEW p \in Plays
      PROVE  /\ play[p] \in Row /\ play'[p] \in Row
             /\ play'[p].paycard = play[p].paycard
             /\ \/ /\ play[p].paycard = c /\ play[p].settled = Pending
                   /\ play'[p].settled = Locked
                   /\ play'[p].attempts = play[p].attempts + 1
                \/ play'[p] = play[p]
  <2>1. play[p] \in Row /\ (play[p].settled = Pending => play[p].attempts < MaxAttempts)
    BY DEF Ledger, RoyaltiesTypeOK
  <2>2. CASE p \in Of(c, Pending) /\ Eligible(p)
    <3>1. play'[p] = LockedRow(p)
      BY <2>2 DEF Remark
    <3>2. play'[p] = [settled |-> Locked, paycard |-> play[p].paycard,
                      attempts |-> play[p].attempts + 1]
      BY <2>1, <3>1 DEF LockedRow, Row
    <3> QED
      BY <2>1, <2>2, <3>2 DEF Of, Row
  <2>3. CASE ~(p \in Of(c, Pending) /\ Eligible(p))
    <3>1. play'[p] = play[p]
      BY <2>3 DEF Remark
    <3> QED
      BY <2>1, <3>1
  <2> QED
    BY <2>2, <2>3
<1>3. RoyaltiesTypeOK'
  <2>1. play' \in [Plays -> Row]
    BY <1>2 DEF Remark
  <2>2. ASSUME NEW p \in Plays
        PROVE  /\ play'[p].settled = "none" <=> play'[p].paycard = None
               /\ play'[p].settled = Pending => play'[p].attempts < MaxAttempts
               /\ play'[p].settled = Locked => play'[p].attempts > 0
    BY <1>2 DEF Ledger, RoyaltiesTypeOK, Row
  <2>3. \A v \in Runs : run'[v].paycard = None <=> run'[v].at \in {"idle", "row"}
    BY <1>1 DEF Ledger, RoyaltiesTypeOK
  <2> QED
    BY <1>1, <2>1, <2>2, <2>3 DEF Ledger, RoyaltiesTypeOK
<1>4. RunsKnow'
  <2>1. \A v \in Runs : run'[v].at = "skip" => stream'[run'[v].paycard] = "Terminated"
    BY <1>1 DEF Ledger, RunsKnow
  <2>2. ASSUME NEW u \in Runs, NEW v \in Runs, NEW d \in Paycards,
               u # v, Working(u, d)', Working(v, d)'
        PROVE  d \in overlaid'
    BY <1>1, <2>2 DEF Ledger, RunsKnow, Working
  <2>3. ASSUME NEW v \in Runs, run'[v].at = "mark", run'[v].paycard \notin overlaid',
               NEW p \in Plays, play'[p].paycard = run'[v].paycard, play'[p].settled = Locked
        PROVE  p \in paidSince'
    BY <1>1, <1>2, <2>3 DEF Ledger, RunsKnow, Working
  <2> QED
    BY <2>1, <2>2, <2>3 DEF RunsKnow
<1>5. ResolvedForCause'
  BY <1>2 DEF Ledger, ResolvedForCause
<1> QED
  BY <1>3, <1>4, <1>5 DEF Ledger

\* The ledger is inductive: one step per action of the hub, the webhook and the
\* runs.
THEOREM LedgerStep == Ledger /\ [Next]_vars => Ledger'
<1> SUFFICES ASSUME Ledger, [Next]_vars PROVE Ledger'
  OBVIOUS
<1>1. ASSUME NEW c \in Paycards, Open(c) PROVE Ledger'
  BY <1>1 DEF Open, history,
         Ledger, RoyaltiesTypeOK, Row, RunState, RunsKnow, ResolvedForCause, Working
<1>2. ASSUME NEW c \in Paycards, Terminate(c) PROVE Ledger'
  BY <1>2 DEF Terminate, history,
         Ledger, RoyaltiesTypeOK, Row, RunState, RunsKnow, ResolvedForCause, Working
<1>3. ASSUME NEW p \in Plays, NEW c \in Paycards, Scrobble(p, c) PROVE Ledger'
  BY <1>3 DEF Scrobble, history, NoPlay,
         Ledger, RoyaltiesTypeOK, Row, RunState, RunsKnow, ResolvedForCause, Working
<1>4. ASSUME NEW w \in Runs, Begin(w) PROVE Ledger'
  BY <1>4 DEF Begin, history, Goes, Due, Eligible,
         Ledger, RoyaltiesTypeOK, Row, RunState, RunsKnow, ResolvedForCause, Working
<1>5. ASSUME NEW w \in Runs, Lock(w) PROVE Ledger'
  <2>1. PICK c \in run[w].todo :
          IF \E p \in Of(c, Pending) : Eligible(p)
          THEN /\ Remark(c, Pending, [p \in Plays |-> IF Eligible(p) THEN LockedRow(p) ELSE play[p]])
               /\ Goes(w, [[run[w] EXCEPT !.todo = @ \ {c}] EXCEPT !.at = "check", !.paycard = c])
               /\ overlaid' = IF \E v \in Runs \ {w} : Working(v, c)
                              THEN overlaid \cup {c} ELSE overlaid
          ELSE /\ Goes(w, IF [run[w] EXCEPT !.todo = @ \ {c}].todo = {} THEN Resting
                          ELSE [run[w] EXCEPT !.todo = @ \ {c}])
               /\ UNCHANGED <<play, overlaid>>
    BY <1>5 DEF Lock
  <2>2. /\ run[w].at = "row" /\ run[w].paycard = None
        /\ c \in Paycards /\ run[w] \in RunState
        /\ UNCHANGED <<stream, paidSince>>
    BY <1>5 DEF Lock, Ledger, RoyaltiesTypeOK, RunState
  <2>3. CASE \E p \in Of(c, Pending) : Eligible(p)
    <3>1. run' = [run EXCEPT ![w] = [at |-> "check", todo |-> run[w].todo \ {c}, paycard |-> c]]
      BY <2>1, <2>2, <2>3 DEF Goes, RunState
    <3> QED
      BY <2>1, <2>2, <2>3, <3>1, LocksInOrder
  <2>4. CASE ~\E p \in Of(c, Pending) : Eligible(p)
    <3>1. PICK rest \in RunState :
            /\ run' = [run EXCEPT ![w] = rest]
            /\ rest.paycard = None /\ rest.at \in {"idle", "row"}
      BY <2>1, <2>2, <2>4 DEF Goes, Resting, RunState
    <3> QED
      BY <2>1, <2>2, <2>4, <3>1
         DEF Ledger, RoyaltiesTypeOK, RunsKnow, ResolvedForCause, Working
  <2> QED
    BY <2>3, <2>4
<1>6. ASSUME NEW w \in Runs, CheckStream(w) PROVE Ledger'
  BY <1>6 DEF CheckStream, Goes, history,
         Ledger, RoyaltiesTypeOK, Row, RunState, RunsKnow, ResolvedForCause, Working
<1>7. ASSUME NEW w \in Runs, SkipTerminated(w) PROVE Ledger'
  <2> DEFINE mark == [p \in Plays |-> Skipped]
  <2>1. /\ run[w].at \notin {"idle", "row"} /\ Onward(w)
        /\ UNCHANGED <<stream, overlaid, paidSince>>
        /\ play' = [p \in Plays |->
               IF play[p].paycard = run[w].paycard /\ play[p].settled = Locked
               THEN [play[p] EXCEPT !.settled = mark[p]] ELSE play[p]]
    BY <1>7 DEF SkipTerminated, history, Remark, Of
  <2>2. \A p \in Plays :
            (play[p].paycard = run[w].paycard /\ play[p].settled = Locked) =>
                /\ mark[p] = Pending => play[p].attempts < MaxAttempts
                /\ mark[p] = Skipped => \/ stream[run[w].paycard] = "Terminated"
                                        \/ play[p].attempts = MaxAttempts
                /\ mark[p] = Settled => \/ run[w].paycard \in overlaid
                                        \/ p \in paidSince
    BY <1>7 DEF SkipTerminated, Ledger, RoyaltiesTypeOK, RunsKnow, Row
  <2>3. mark \in [Plays -> {Pending, Settled, Skipped}]
    OBVIOUS
  <2> HIDE DEF mark
  <2> QED
    BY <2>1, <2>2, <2>3, ClosesForCause
<1>8. ASSUME NEW w \in Runs, SettleStream(w) PROVE Ledger'
  BY <1>8 DEF SettleStream, Goes,
         Ledger, RoyaltiesTypeOK, Row, RunState, RunsKnow, ResolvedForCause, Working
<1>9. ASSUME NEW w \in Runs, MarkSettled(w) PROVE Ledger'
  <2> DEFINE mark == [p \in Plays |-> Settled]
  <2>1. /\ run[w].at \notin {"idle", "row"} /\ Onward(w)
        /\ UNCHANGED <<stream, overlaid, paidSince>>
        /\ play' = [p \in Plays |->
               IF play[p].paycard = run[w].paycard /\ play[p].settled = Locked
               THEN [play[p] EXCEPT !.settled = mark[p]] ELSE play[p]]
    BY <1>9 DEF MarkSettled, history, Markable
  <2>2. \A p \in Plays :
            (play[p].paycard = run[w].paycard /\ play[p].settled = Locked) =>
                /\ mark[p] = Pending => play[p].attempts < MaxAttempts
                /\ mark[p] = Skipped => \/ stream[run[w].paycard] = "Terminated"
                                        \/ play[p].attempts = MaxAttempts
                /\ mark[p] = Settled => \/ run[w].paycard \in overlaid
                                        \/ p \in paidSince
    BY <1>9 DEF MarkSettled, Ledger, RoyaltiesTypeOK, RunsKnow, Row
  <2>3. mark \in [Plays -> {Pending, Settled, Skipped}]
    OBVIOUS
  <2> HIDE DEF mark
  <2> QED
    BY <2>1, <2>2, <2>3, ClosesForCause
<1>10. ASSUME NEW w \in Runs, CallFails(w) PROVE Ledger'
  BY <1>10 DEF CallFails, Goes, history,
         Ledger, RoyaltiesTypeOK, Row, RunState, RunsKnow, ResolvedForCause, Working
<1>11. ASSUME NEW w \in Runs, ReceiptLost(w) PROVE Ledger'
  BY <1>11 DEF ReceiptLost, Goes,
         Ledger, RoyaltiesTypeOK, Row, RunState, RunsKnow, ResolvedForCause, Working
<1>12. ASSUME NEW w \in Runs, GiveBack(w) PROVE Ledger'
  <2> DEFINE mark == [p \in Plays |-> IF play[p].attempts >= MaxAttempts THEN Skipped ELSE Pending]
  <2>1. /\ run[w].at \notin {"idle", "row"} /\ Onward(w)
        /\ UNCHANGED <<stream, overlaid, paidSince>>
        /\ play' = [p \in Plays |->
               IF play[p].paycard = run[w].paycard /\ play[p].settled = Locked
               THEN [play[p] EXCEPT !.settled = mark[p]] ELSE play[p]]
    BY <1>12 DEF GiveBack, history, Remark, Of, GivenBack
  <2>2. \A p \in Plays :
            (play[p].paycard = run[w].paycard /\ play[p].settled = Locked) =>
                /\ mark[p] = Pending => play[p].attempts < MaxAttempts
                /\ mark[p] = Skipped => \/ stream[run[w].paycard] = "Terminated"
                                        \/ play[p].attempts = MaxAttempts
                /\ mark[p] = Settled => \/ run[w].paycard \in overlaid
                                        \/ p \in paidSince
    <3>1. \A p \in Plays : play[p].attempts \in 0..MaxAttempts
      BY DEF Ledger, RoyaltiesTypeOK, Row
    <3> QED
      BY <3>1
  <2>3. mark \in [Plays -> {Pending, Settled, Skipped}]
    OBVIOUS
  <2> HIDE DEF mark
  <2> QED
    BY <2>1, <2>2, <2>3, ClosesForCause
<1>13. ASSUME NEW w \in Runs, Crash(w) PROVE Ledger'
  BY <1>13 DEF Crash, Goes, Resting,
         Ledger, RoyaltiesTypeOK, Row, RunState, RunsKnow, ResolvedForCause, Working
<1>14. CASE UNCHANGED vars
  BY <1>14 DEF vars,
         Ledger, RoyaltiesTypeOK, Row, RunState, RunsKnow, ResolvedForCause, Working
<1> QED
  BY <1>1, <1>2, <1>3, <1>4, <1>5, <1>6, <1>7, <1>8, <1>9, <1>10, <1>11, <1>12, <1>13, <1>14
     DEF Next, Proceed

\* The table and the runs keep their form whatever overlaps or ends half way.
THEOREM LedgerAlways == Spec => []Ledger
BY LedgerInit, LedgerStep, PTL DEF Spec

\* Every variable keeps its type, and no pending play is out of attempts.
THEOREM RoyaltiesTypeAlways == Spec => []RoyaltiesTypeOK
BY LedgerAlways, PTL DEF Ledger

\* Plays are marked settled or given up for cause, for any number of runs.
THEOREM ResolvedForCauseAlways == Spec => []ResolvedForCause
BY LedgerAlways, PTL DEF Ledger

\* A row that is settled or given up is never written again.
THEOREM ResolvedIsFinalAlways == Spec => ResolvedIsFinal
<1>1. ASSUME Ledger, Next, NEW p \in Plays, play[p].settled \in {Settled, Skipped}
      PROVE  play'[p] = play[p]
  <2> USE <1>1
  <2>1. ASSUME NEW w \in Runs, Proceed(w) PROVE play'[p] = play[p]
    BY <2>1 DEF Proceed, Lock, CheckStream, SkipTerminated, SettleStream, MarkSettled,
       CallFails, ReceiptLost, GiveBack, Remark, Of, Markable
  <2> QED
    BY <2>1 DEF Next, Open, Terminate, Scrobble, Begin, Crash, NoPlay, Ledger, RoyaltiesTypeOK
<1>2. Ledger /\ [Next]_vars =>
        [\A p \in Plays : play[p].settled \in {Settled, Skipped} => play'[p] = play[p]]_vars
  BY <1>1
<1> QED
  BY <1>2, LedgerAlways, PTL DEF Spec, ResolvedIsFinal
=============================================================================
