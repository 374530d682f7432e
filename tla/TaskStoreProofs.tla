--------------------------- MODULE TaskStoreProofs ---------------------------
(***************************************************************************)
(* The safety invariants and action properties of TaskStore, and that it   *)
(* implements TaskLifecycle, for every set of tasks, workers and           *)
(* connections and every value of the bounds.                              *)
(*                                                                         *)
(* Everything said of a single row is one predicate, RowOK. The first part *)
(* shows that each row operator preserves it, the second that each action  *)
(* applies such an operator to a row that may have it. What a step may     *)
(* never do follows from the same invariant.                               *)
(***************************************************************************)
EXTENDS TaskStore, TLAPS

\* The row-wise invariants, for one row.
RowOK(r) ==
  /\ r \in Row
  /\ r.status \in Active => r.claimedBy # NULL /\ r.age # NULL
  /\ r.status \in Absent \union Parked \union {"pending"} => r.claimedBy = NULL
  /\ r.completed # NULL <=> r.status = "completed"
  /\ r.status \in Active /\ r.note # NULL => r.note = r.claimedBy
  /\ r.attempts <= MaxLimit
  /\ r.status = "pending" => r.attempts < MaxLimit
  /\ r.status = "unborn" => r.attempts = 0

\* The inductive invariant: every row is sound, transactions are well formed,
\* logs and silent claims belong to rows that are there.
IInv ==
  /\ TypeOK
  /\ \A t \in Tasks : RowOK(row[t])
  /\ LogsHaveTask
  /\ \A t \in lost : Held(t)

-----------------------------------------------------------------------------
(* Row operators *)

\* The bounds contain what the operators put there.
LEMMA Bounds ==
  /\ 0 \in Ages /\ \A a \in Ages : a \in Nat /\ (a <= Visibility => a + 1 \in Ages)
  /\ 1 \in Limits /\ \A m \in Limits : m \in Nat /\ m <= MaxLimit
  /\ 0 \in Priorities
  /\ \A d \in Delays : d \in Nat
  /\ Errors = {"reported", "lease_expired"}
  /\ NULL \notin Workers /\ NULL \notin Nat /\ MaxLimit \in Nat /\ 0 < MaxLimit
  /\ NULL \notin Errors /\ NULL # "stamped" /\ BackoffUnit \in Nat
<1>1. 0 \in Ages /\ \A a \in Ages : a \in Nat /\ (a <= Visibility => a + 1 \in Ages)
  BY StoreAssumption DEF Ages
<1>2. 1 \in Limits /\ \A m \in Limits : m \in Nat /\ m <= MaxLimit
  BY StoreAssumption DEF Limits
<1>3. 0 \in Priorities /\ \A d \in Delays : d \in Nat
  BY StoreAssumption DEF Priorities, Delays
<1>4. NULL \notin Workers /\ NULL \notin Nat /\ NULL \notin Errors /\ NULL # "stamped"
  BY StoreAssumption DEF Errors
<1>5. MaxLimit \in Nat /\ 0 < MaxLimit /\ BackoffUnit \in Nat
  BY StoreAssumption
<1> QED
  BY <1>1, <1>2, <1>3, <1>4, <1>5 DEF Errors

\* The absent row is sound.
LEMMA BlankOK ==
  ASSUME NEW s \in Absent
  PROVE  RowOK(Blank(s)) /\ Blank(s).status = s
BY Bounds DEF RowOK, Row, Blank, Statuses, Absent, Settled, Terminal, Active, Parked

\* CreateTask inserts a sound row.
LEMMA FreshOK ==
  ASSUME births \in Nat, NEW m \in Limits, NEW p \in Priorities, NEW d \in Delays
  PROVE  RowOK(Fresh(m, p, d)) /\ Fresh(m, p, d).status = "pending"
<1> DEFINE b == Blank("pending")
<1>1. /\ b \in Row /\ b.status = "pending" /\ b.claimedBy = NULL
      /\ b.completed = NULL /\ b.attempts = 0
  BY Bounds DEF Row, Blank, Statuses, Settled
<1>2. Fresh(m, p, d) = [b EXCEPT !.limit = m, !.priority = p, !.delay = d, !.created = births]
  BY DEF Fresh
<1> HIDE DEF b
<1>3. Fresh(m, p, d) \in Row
  <2>1. d \in Nat
    BY Bounds
  <2> QED
    BY <1>1, <1>2, <2>1 DEF Row
<1>4. \A x \in {"status", "claimedBy", "completed", "attempts"} : Fresh(m, p, d)[x] = b[x]
  BY <1>1, <1>2 DEF Row
<1> QED
  BY <1>1, <1>3, <1>4, Bounds DEF RowOK, Active

\* UpdateTask edits a pending row; the budget may fall below the attempts.
LEMMA EditedOK ==
  ASSUME NEW r, RowOK(r), r.status = "pending",
         NEW m \in Limits, NEW p \in Priorities, NEW d \in Delays
  PROVE  RowOK(Edited(r, m, p, d)) /\ Edited(r, m, p, d).status = "pending"
BY Bounds DEF RowOK, Row, Edited, Statuses, Absent, Settled, Terminal, Active, Parked

\* RequeueTask resets any settled row.
LEMMA RequeuedOK ==
  ASSUME NEW r, RowOK(r)
  PROVE  RowOK(Requeued(r)) /\ Requeued(r).status = "pending"
<1>1. Requeued(r) \in Row
  BY Bounds DEF RowOK, Row, Requeued, Statuses, Settled
<1>2. /\ Requeued(r).status = "pending" /\ Requeued(r).claimedBy = NULL
      /\ Requeued(r).completed = NULL /\ Requeued(r).attempts = 0
  BY DEF RowOK, Row, Requeued
<1> QED
  BY <1>1, <1>2, Bounds DEF RowOK, Active

\* ClaimTask spends one attempt of a pending row and drops the old note.
LEMMA ClaimedOK ==
  ASSUME NEW r, RowOK(r), r.status = "pending", NEW w \in Workers
  PROVE  RowOK(Claimed(r, w)) /\ Claimed(r, w).status \in Active
<1>1. r.attempts \in Nat /\ r.attempts < MaxLimit /\ r.completed = NULL
  BY DEF RowOK, Row
<1>2. Claimed(r, w) \in Row
  <2>1. r.attempts + 1 \in Nat /\ w \in Workers \union {NULL} /\ 0 \in Ages \union {NULL}
    BY <1>1, Bounds
  <2> QED
    BY <2>1 DEF RowOK, Row, Claimed, Statuses, Active
<1>3. /\ Claimed(r, w).status = "claimed" /\ Claimed(r, w).claimedBy = w
      /\ Claimed(r, w).age = 0 /\ Claimed(r, w).note = NULL
      /\ Claimed(r, w).attempts = r.attempts + 1 /\ Claimed(r, w).completed = r.completed
  BY DEF RowOK, Row, Claimed
<1>4. w # NULL /\ 0 # NULL /\ r.attempts + 1 <= MaxLimit
  BY <1>1, Bounds
<1> QED
  BY <1>1, <1>2, <1>3, <1>4 DEF RowOK, Active, Absent, Parked

\* A heartbeat keeps an active row active.
LEMMA BeatenOK ==
  ASSUME NEW r, RowOK(r), r.status \in Active
  PROVE  RowOK(Beaten(r)) /\ Beaten(r).status \in Active
<1>1. Beaten(r) \in Row
  BY Bounds DEF RowOK, Row, Beaten, Beating, Statuses, Active
<1>2. /\ Beaten(r).status \in Active /\ Beaten(r).claimedBy = r.claimedBy /\ Beaten(r).age = 0
      /\ Beaten(r).completed = r.completed /\ Beaten(r).note = r.note
      /\ Beaten(r).attempts = r.attempts
  BY DEF RowOK, Row, Beaten, Beating, Active
<1>3. 0 # NULL
  BY Bounds
<1>4. \A s \in Active : s \notin Absent \union Parked \union {"unborn", "pending", "completed"}
  BY DEF Active, Absent, Parked
<1> QED
  BY <1>1, <1>2, <1>3, <1>4 DEF RowOK

\* A note of the holder, or none, replaces the old one.
LEMMA NotedOK ==
  ASSUME NEW r, RowOK(r), r.status \in Active, NEW n \in {r.claimedBy, NULL}
  PROVE  RowOK(Noted(r, n)) /\ Noted(r, n).status \in Active
<1> DEFINE b == Beaten(r)
<1>1. RowOK(b) /\ b.status \in Active /\ b.claimedBy = r.claimedBy
  BY BeatenOK DEF RowOK, Row, Beaten
<1>2. Noted(r, n) = [b EXCEPT !.note = n]
  BY DEF Noted
<1> HIDE DEF b
<1>3. n \in Workers \union {NULL}
  BY DEF RowOK, Row
<1> QED
  BY <1>1, <1>2, <1>3 DEF RowOK, Row, Absent, Parked, Active

\* SetJiraURL refreshes the lease and leaves the status alone.
LEMMA JiraLinkedOK ==
  ASSUME NEW r, RowOK(r), r.status \in Active
  PROVE  RowOK(JiraLinked(r)) /\ JiraLinked(r).status = r.status
BY Bounds DEF RowOK, Row, JiraLinked, Statuses, Absent, Settled, Terminal, Active, Parked

\* A success report completes an active row.
LEMMA CompletedOK ==
  ASSUME NEW r, RowOK(r), r.status \in Active
  PROVE  RowOK(Completed(r)) /\ Completed(r).status = "completed"
BY Bounds DEF RowOK, Row, Completed, Statuses, Absent, Settled, Terminal, Active, Parked

\* A failure report or an expired lease: the budget left over is what makes the
\* row pending again.
LEMMA FailedOK ==
  ASSUME NEW r, RowOK(r), r.status \in Active, NEW e \in Errors
  PROVE  RowOK(Failed(r, e)) /\ Failed(r, e).status \in {"pending", "failed"}
<1>1. r.attempts \in Nat /\ r.limit \in Limits /\ r.attempts <= MaxLimit /\ r.completed = NULL
  BY DEF RowOK, Row, Active
<1>2. CASE Exhausted(r)
  <2>1. Failed(r, e) = [r EXCEPT !.status = "failed", !.error = e]
    BY <1>2 DEF Failed
  <2>2. Failed(r, e) \in Row
    BY <2>1 DEF RowOK, Row, Statuses, Settled, Terminal
  <2>3. /\ Failed(r, e).status = "failed" /\ Failed(r, e).completed = r.completed
        /\ Failed(r, e).attempts = r.attempts
    BY <2>1 DEF RowOK, Row
  <2> QED
    BY <1>1, <2>2, <2>3 DEF RowOK, Active, Absent, Parked
<1>3. CASE ~Exhausted(r)
  <2>1. Failed(r, e) = [r EXCEPT !.status = "pending", !.delay = r.attempts * BackoffUnit,
                                 !.claimedBy = NULL, !.age = NULL, !.error = e]
    BY <1>3 DEF Failed
  <2>2. r.attempts * BackoffUnit \in Nat /\ r.attempts < MaxLimit
    BY <1>1, <1>3, Bounds DEF Exhausted
  <2>3. Failed(r, e) \in Row
    BY <2>1, <2>2 DEF RowOK, Row, Statuses, Settled
  <2>4. /\ Failed(r, e).status = "pending" /\ Failed(r, e).completed = r.completed
        /\ Failed(r, e).attempts = r.attempts /\ Failed(r, e).claimedBy = NULL
    BY <2>1 DEF RowOK, Row
  <2> QED
    BY <1>1, <2>2, <2>3, <2>4 DEF RowOK, Active
<1> QED
  BY <1>2, <1>3

\* OpenPR releases the claim of an active row.
LEMMA PROpenedOK ==
  ASSUME NEW r, RowOK(r), r.status \in Active
  PROVE  RowOK(PROpened(r)) /\ PROpened(r).status = "pr_opened"
BY Bounds DEF RowOK, Row, PROpened, Statuses, Absent, Settled, Terminal, Active, Parked

\* FinalizeTask terminates a parked row.
LEMMA FinalizedOK ==
  ASSUME NEW r, RowOK(r), r.status \in Parked,
         NEW outcome \in Terminal, NEW e \in {"reported", NULL}
  PROVE  RowOK(Finalized(r, outcome, e)) /\ Finalized(r, outcome, e).status = outcome
<1> DEFINE f == Finalized(r, outcome, e)
<1>1. r.completed = NULL
  BY DEF RowOK, Row, Parked
<1>2. f \in Row
  <2> DEFINE c  == IF outcome = "completed" THEN "stamped" ELSE r.completed
             er == IF e = NULL THEN r.error ELSE e
  <2>1. r \in Row
    BY DEF RowOK
  <2>2. c \in {"stamped", NULL} /\ er \in Errors \union {NULL} /\ outcome \in Statuses
    BY <2>1 DEF Row, Errors, Statuses, Settled
  <2>3. f = [r EXCEPT !.status = outcome, !.completed = c, !.error = er]
    BY <2>1 DEF Finalized, Row
  <2> HIDE DEF f, c, er
  <2> QED
    BY <2>1, <2>2, <2>3 DEF Row
<1>3. /\ f.status = outcome /\ f.attempts = r.attempts
      /\ f.completed = IF outcome = "completed" THEN "stamped" ELSE r.completed
      /\ f.claimedBy = r.claimedBy
  BY DEF RowOK, Row, Finalized
<1> QED
  BY <1>1, <1>2, <1>3, Bounds DEF RowOK, Active, Absent, Parked, Terminal

\* A log commit may hit a row in any state; it keeps every row sound all the same.
LEMMA LogBeatenOK ==
  ASSUME NEW r, RowOK(r), NEW a \in Ages
  PROVE  /\ RowOK(LogBeaten(r, a))
         /\ LogBeaten(r, a).status \in Active <=> r.status \in Active
         /\ LogBeaten(r, a).status \in Absent <=> r.status \in Absent
<1> DEFINE s == Beating(r)
           l == LogBeaten(r, a)
<1>1. r \in Row
  BY DEF RowOK
<1>2. /\ s \in Statuses
      /\ s = r.status \/ (r.status = "claimed" /\ s = "in_progress")
  BY <1>1 DEF Beating, Row, Statuses, Active
<1>3. l = [r EXCEPT !.age = a, !.status = s]
  BY DEF LogBeaten
<1> HIDE DEF s, l
<1>4. l \in Row
  BY <1>1, <1>2, <1>3 DEF Row
<1>5. /\ l.status = s /\ l.age = a /\ l.claimedBy = r.claimedBy /\ l.attempts = r.attempts
      /\ l.completed = r.completed /\ l.note = r.note
  BY <1>1, <1>3 DEF Row
<1>6. a # NULL
  BY Bounds
<1>7. RowOK(l)
  BY <1>1, <1>2, <1>4, <1>5, <1>6 DEF RowOK, Active, Absent, Parked
<1> QED
  BY <1>2, <1>5, <1>7 DEF Active, Absent, l

\* A tick moves the relative times only.
LEMMA AgedOK ==
  ASSUME NEW r, RowOK(r)
  PROVE  RowOK(Aged(r)) /\ Aged(r).status = r.status
<1> DEFINE d == IF r.delay > 0 THEN r.delay - 1 ELSE 0
           a == IF r.status \in Active /\ r.age # NULL /\ r.age <= Visibility
                THEN r.age + 1 ELSE r.age
<1>1. Aged(r) = [r EXCEPT !.delay = d, !.age = a]
  BY DEF RowOK, Row, Aged
<1>2. d \in Nat /\ a \in Ages \union {NULL} /\ (r.age # NULL => a # NULL)
  BY Bounds DEF RowOK, Row
<1>3. Aged(r) \in Row
  BY <1>1, <1>2 DEF RowOK, Row
<1>4. /\ Aged(r).status = r.status /\ Aged(r).claimedBy = r.claimedBy /\ Aged(r).age = a
      /\ Aged(r).completed = r.completed /\ Aged(r).attempts = r.attempts
      /\ Aged(r).note = r.note
  BY <1>1 DEF RowOK, Row
<1> QED
  BY <1>2, <1>3, <1>4 DEF RowOK

-----------------------------------------------------------------------------
(* Actions *)

\* A statement that leaves one existing row sound, and adds no silent claim but
\* on an active row, keeps the invariant.
LEMMA RowStep ==
  ASSUME IInv, NEW t \in Tasks, NEW r, RowOK(r), r.status \notin Absent, SetRow(t, r),
         UNCHANGED <<logged, tx>>, births' \in Nat,
         lost' \subseteq lost \union {t}, t \in lost' => r.status \in Active
  PROVE  IInv'
<1>1. /\ row' \in [Tasks -> Row] /\ row'[t] = r
      /\ \A u \in Tasks \ {t} : row'[u] = row[u]
  BY DEF IInv, TypeOK, SetRow, RowOK
<1>2. TypeOK'
  BY <1>1 DEF IInv, TypeOK
<1>3. (\A u \in Tasks : RowOK(row[u]))'
  BY <1>1 DEF IInv, RowOK
<1>4. LogsHaveTask'
  BY <1>1 DEF IInv, LogsHaveTask, KeyShared
<1>5. (\A u \in lost : Held(u))'
  BY <1>1 DEF IInv, TypeOK, Held
<1> QED
  BY <1>2, <1>3, <1>4, <1>5 DEF IInv

\* A step of the log transaction that writes nothing yet keeps the invariant: a
\* key-share lock is taken on existing rows only.
LEMMA TxStep ==
  ASSUME IInv, NEW c \in Conns, NEW x \in Transaction, SetTx(c, x),
         x.step # "idle" => x.task \in Tasks,
         x.step = "inserted" => row[x.task].status \notin Absent,
         UNCHANGED <<row, logged, births, lost>>
  PROVE  IInv'
<1>1. /\ tx' \in [Conns -> Transaction] /\ tx'[c] = x
      /\ \A d \in Conns \ {c} : tx'[d] = tx[d]
  BY DEF IInv, TypeOK, SetTx
<1>2. TypeOK'
  BY <1>1 DEF IInv, TypeOK
<1>3. LogsHaveTask'
  BY <1>1 DEF IInv, LogsHaveTask, KeyShared
<1> QED
  BY <1>2, <1>3 DEF IInv, Held, RowOK

\* The idle transaction is well formed.
LEMMA NoTxOK == NoTx \in Transaction /\ NoTx.step = "idle"
BY Bounds DEF NoTx, Transaction

\* The initial state satisfies the invariant.
LEMMA InitIInv == Init => IInv
<1> SUFFICES ASSUME Init PROVE IInv
  OBVIOUS
<1>1. \A t \in Tasks : RowOK(row[t]) /\ row[t] \in Row
  BY BlankOK DEF Init, Absent, RowOK
<1>2. TypeOK
  BY <1>1, NoTxOK DEF Init, TypeOK
<1>3. LogsHaveTask
  BY NoTxOK DEF Init, LogsHaveTask, KeyShared
<1> QED
  BY <1>1, <1>2, <1>3 DEF IInv, Init

\* Every operator call keeps the invariant.
LEMMA OperatorIInv ==
  ASSUME IInv, NEW t \in Tasks, OperatorNext(t)
  PROVE  IInv'
<1> USE DEF IInv, TypeOK
<1>0. /\ RowOK(row[t]) /\ births \in Nat
      /\ row[t].status \notin Active => t \notin lost
  BY DEF Held
<1>1. ASSUME NEW m \in Limits, NEW p \in Priorities, NEW d \in Delays, CreateTask(t, m, p, d)
      PROVE  IInv'
  <2>1. t \notin lost /\ births + 1 \in Nat /\ Fresh(m, p, d).status \notin Absent
    BY <1>0, <1>1, FreshOK DEF CreateTask, Active, Absent
  <2> QED
    BY <1>0, <1>1, <2>1, FreshOK, RowStep DEF CreateTask
<1>2. ASSUME NEW m \in Limits, NEW p \in Priorities, NEW d \in Delays, UpdateTask(t, m, p, d)
      PROVE  IInv'
  <2>1. t \notin lost /\ Edited(row[t], m, p, d).status \notin Absent
    BY <1>0, <1>2, EditedOK DEF UpdateTask, Active, Absent
  <2> QED
    BY <1>0, <1>2, <2>1, EditedOK, RowStep DEF UpdateTask
<1>3. CASE RequeueTask(t)
  <2>1. t \notin lost /\ Requeued(row[t]).status \notin Absent
    BY <1>0, <1>3, RequeuedOK DEF RequeueTask, Settled, Terminal, Active, Absent
  <2> QED
    BY <1>0, <1>3, <2>1, RequeuedOK, RowStep DEF RequeueTask
<1>4. CASE DeleteTask(t)
  <2>1. /\ row' \in [Tasks -> Row] /\ row'[t] = Blank("deleted")
        /\ \A u \in Tasks \ {t} : row'[u] = row[u]
        /\ RowOK(Blank("deleted"))
    BY <1>4, BlankOK DEF DeleteTask, SetRow, Absent, RowOK
  <2>2. t \notin lost
    BY <1>0, <1>4 DEF DeleteTask, Settled, Terminal, Active
  <2>3. TypeOK'
    BY <1>4, <2>1 DEF DeleteTask
  <2>4. (\A u \in Tasks : RowOK(row[u]))'
    BY <2>1 DEF RowOK
  <2>5. LogsHaveTask'
    BY <1>4, <2>1 DEF DeleteTask, LogsHaveTask, KeyShared
  <2>6. (\A u \in lost : Held(u))'
    BY <1>4, <2>1, <2>2 DEF DeleteTask, Held
  <2> QED
    BY <2>3, <2>4, <2>5, <2>6
<1>5. CASE RequestReview(t)
  <2> DEFINE r == [row[t] EXCEPT !.status = "review_requested"]
  <2>1. RowOK(r) /\ r.status = "review_requested"
    BY <1>0, <1>5 DEF RequestReview, RowOK, Row, Statuses, Active, Absent, Parked
  <2>2. t \notin lost /\ r.status \notin Absent
    BY <1>0, <1>5, <2>1 DEF RequestReview, Active, Absent
  <2> QED
    BY <1>5, <2>1, <2>2, RowStep DEF RequestReview
<1>6. ASSUME NEW outcome \in Terminal, NEW e \in {"reported", NULL}, FinalizeTask(t, outcome, e)
      PROVE  IInv'
  <2>1. t \notin lost /\ Finalized(row[t], outcome, e).status \notin Absent
    BY <1>0, <1>6, FinalizedOK DEF FinalizeTask, Parked, Terminal, Active, Absent
  <2> QED
    BY <1>0, <1>6, <2>1, FinalizedOK, RowStep DEF FinalizeTask
<1> QED
  BY <1>1, <1>2, <1>3, <1>4, <1>5, <1>6 DEF OperatorNext

\* Every worker call keeps the invariant.
LEMMA WorkerIInv ==
  ASSUME IInv, NEW w \in Workers, NEW t \in Tasks, WorkerNext(w, t)
  PROVE  IInv'
<1> USE DEF IInv, TypeOK
<1>0. RowOK(row[t]) /\ births \in Nat
  OBVIOUS
<1>a. Calls(w, t) => row[t].status \in Active /\ row[t].claimedBy = w /\ t \notin lost
  BY DEF Calls, HeldBy, Held
<1>1. ASSUME NEW delivered \in BOOLEAN, ClaimTask(w, t, delivered)
      PROVE  IInv'
  <2>1. row[t].status = "pending" /\ lost' \subseteq lost \union {t}
    BY <1>1 DEF ClaimTask, Eligible
  <2>2. Claimed(row[t], w).status \notin Absent
    BY <1>0, <2>1, ClaimedOK DEF Active, Absent
  <2> QED
    BY <1>0, <1>1, <2>1, <2>2, ClaimedOK, RowStep DEF ClaimTask
<1>2. CASE Heartbeat(w, t)
  <2>1. Beaten(row[t]).status \notin Absent
    BY <1>0, <1>2, <1>a, BeatenOK DEF Heartbeat, Active, Absent
  <2> QED
    BY <1>0, <1>2, <1>a, <2>1, BeatenOK, RowStep DEF Heartbeat
<1>3. CASE SetJiraURL(w, t)
  <2>1. JiraLinked(row[t]).status \notin Absent
    BY <1>0, <1>3, <1>a, JiraLinkedOK DEF SetJiraURL, Active, Absent
  <2> QED
    BY <1>0, <1>3, <1>a, <2>1, JiraLinkedOK, RowStep DEF SetJiraURL
<1>4. CASE OpenPR(w, t)
  <2>1. PROpened(row[t]).status \notin Absent
    BY <1>0, <1>4, <1>a, PROpenedOK DEF OpenPR, Absent
  <2> QED
    BY <1>0, <1>4, <1>a, <2>1, PROpenedOK, RowStep DEF OpenPR
<1>5. ASSUME NEW n \in {w, NULL}, UpdateProgress(w, t, n)
      PROVE  IInv'
  <2>1. Noted(row[t], n).status \notin Absent /\ RowOK(Noted(row[t], n))
    BY <1>0, <1>5, <1>a, NotedOK DEF UpdateProgress, Active, Absent
  <2> QED
    BY <1>0, <1>5, <1>a, <2>1, RowStep DEF UpdateProgress
<1>6. ASSUME NEW success \in BOOLEAN, ReportResult(w, t, success)
      PROVE  IInv'
  <2> DEFINE r == IF success THEN Completed(row[t]) ELSE Failed(row[t], "reported")
  <2>1. RowOK(r) /\ r.status \notin Absent
    <3>1. RowOK(Completed(row[t])) /\ Completed(row[t]).status = "completed"
      BY <1>0, <1>6, <1>a, CompletedOK DEF ReportResult
    <3>2. /\ RowOK(Failed(row[t], "reported"))
          /\ Failed(row[t], "reported").status \in {"pending", "failed"}
      BY <1>0, <1>6, <1>a, FailedOK DEF ReportResult, Errors
    <3> QED
      BY <3>1, <3>2 DEF Absent
  <2>2. SetRow(t, r) /\ UNCHANGED <<logged, tx, births, lost>> /\ t \notin lost
    BY <1>6, <1>a DEF ReportResult
  <2> HIDE DEF r
  <2> QED
    BY <1>0, <2>1, <2>2, RowStep
<1> QED
  BY <1>1, <1>2, <1>3, <1>4, <1>5, <1>6 DEF WorkerNext, HolderNext

\* Every step of a log transaction keeps the invariant, the late commit included.
LEMMA LogIInv ==
  ASSUME IInv, NEW c \in Conns, LogNext(c)
  PROVE  IInv'
<1> USE DEF IInv, TypeOK
<1>0. tx[c] \in Transaction /\ (tx[c].step # "idle" => tx[c].task \in Tasks)
  OBVIOUS
<1>1. ASSUME NEW w \in Workers, NEW t \in Tasks, LogBegin(c, w, t)
      PROVE  IInv'
  <2> DEFINE x == [step |-> "begun", worker |-> w, task |-> t, age |-> 0]
  <2>1. x \in Transaction /\ x.step = "begun" /\ x.task = t
    BY Bounds DEF Transaction
  <2>2. SetTx(c, x) /\ UNCHANGED <<row, logged, births, lost>>
    BY <1>1 DEF LogBegin
  <2> HIDE DEF x
  <2> QED
    BY <2>1, <2>2, TxStep
<1>2. CASE LogCheck(c)
  <2> DEFINE x == IF HeldBy(tx[c].task, tx[c].worker)
                  THEN [tx[c] EXCEPT !.step = "checked"] ELSE NoTx
  <2>1. x \in Transaction /\ x.step \in {"checked", "idle"}
    BY <1>0, NoTxOK DEF Transaction
  <2>2. x.step # "idle" => x.task \in Tasks
    BY <1>0, <1>2, NoTxOK DEF Transaction, LogCheck
  <2>3. SetTx(c, x) /\ UNCHANGED <<row, logged, births, lost>>
    BY <1>2 DEF LogCheck
  <2> HIDE DEF x
  <2> QED
    BY <2>1, <2>2, <2>3, TxStep
<1>3. CASE LogInsert(c)
  <2> DEFINE x == IF row[tx[c].task].status \in Absent
                  THEN NoTx ELSE [tx[c] EXCEPT !.step = "inserted"]
  <2>1. x \in Transaction
    BY <1>0, NoTxOK DEF Transaction
  <2>2. x.step # "idle" => x.task \in Tasks /\ row[x.task].status \notin Absent
    BY <1>0, <1>3, NoTxOK DEF Transaction, LogInsert
  <2>3. SetTx(c, x) /\ UNCHANGED <<row, logged, births, lost>>
    BY <1>3 DEF LogInsert
  <2> HIDE DEF x
  <2> QED
    BY <2>1, <2>2, <2>3, TxStep
<1>4. CASE LogCommit(c)
  <2> DEFINE t == tx[c].task
             r == LogBeaten(row[t], tx[c].age)
  <2>1. t \in Tasks /\ tx[c].age \in Ages /\ RowOK(row[t]) /\ KeyShared(t)
    BY <1>0, <1>4 DEF LogCommit, Transaction, KeyShared
  <2>2. /\ RowOK(r) /\ r.status \notin Absent
        /\ r.status \in Active <=> row[t].status \in Active
    BY <2>1, LogBeatenOK DEF LogsHaveTask
  <2>3. /\ SetRow(t, r) /\ SetTx(c, NoTx) /\ logged' = logged \union {t}
        /\ UNCHANGED <<births, lost>>
    BY <1>4 DEF LogCommit
  <2> HIDE DEF t, r
  <2>4. /\ row' \in [Tasks -> Row] /\ row'[t] = r
        /\ \A u \in Tasks \ {t} : row'[u] = row[u]
    BY <2>1, <2>2, <2>3 DEF SetRow, RowOK
  <2>5. /\ tx' \in [Conns -> Transaction] /\ tx'[c].step = "idle"
        /\ \A d \in Conns \ {c} : tx'[d] = tx[d]
    BY <2>3, NoTxOK DEF SetTx
  <2>6. TypeOK'
    BY <2>1, <2>3, <2>4, <2>5
  <2>7. (\A u \in Tasks : RowOK(row[u]))'
    BY <2>2, <2>4 DEF RowOK
  <2>8. LogsHaveTask'
    BY <2>2, <2>3, <2>4, <2>5 DEF LogsHaveTask, KeyShared
  <2>9. (\A u \in lost : Held(u))'
    BY <2>1, <2>2, <2>3, <2>4 DEF Held
  <2> QED
    BY <2>6, <2>7, <2>8, <2>9
<1>5. CASE LogAbort(c)
  BY <1>5, NoTxOK, TxStep DEF LogAbort
<1> QED
  BY <1>1, <1>2, <1>3, <1>4, <1>5 DEF LogNext

\* A reaper pass keeps the invariant, however many rows it reclaims.
LEMMA ReapIInv == IInv /\ ReapStale => IInv'
<1> SUFFICES ASSUME IInv, ReapStale PROVE IInv'
  OBVIOUS
<1>1. ASSUME NEW t \in Tasks
      PROVE  /\ RowOK(row'[t])
             /\ row'[t].status \in Absent <=> row[t].status \in Absent
             /\ t \notin Stale => row'[t] = row[t]
  <2>1. CASE t \in Stale
    <3>1. row'[t] = Failed(row[t], "lease_expired") /\ row[t].status \in Active
      BY <2>1 DEF ReapStale, Stale, Expired
    <3> QED
      BY <2>1, <3>1, FailedOK DEF IInv, Errors, Active, Absent
  <2>2. CASE t \notin Stale
    BY <2>2 DEF ReapStale, IInv
  <2> QED
    BY <2>1, <2>2
<1>2. TypeOK'
  BY <1>1 DEF ReapStale, IInv, TypeOK, RowOK
<1>3. (\A t \in Tasks : RowOK(row[t]))'
  BY <1>1 DEF RowOK
<1>4. LogsHaveTask'
  BY <1>1 DEF ReapStale, IInv, LogsHaveTask, KeyShared
<1>5. (\A t \in lost : Held(t))'
  BY <1>1 DEF ReapStale, IInv, TypeOK, Held
<1> QED
  BY <1>2, <1>3, <1>4, <1>5 DEF IInv

\* The passage of time keeps the invariant.
LEMMA TickIInv == IInv /\ Tick => IInv'
<1> SUFFICES ASSUME IInv, Tick PROVE IInv'
  OBVIOUS
<1>1. ASSUME NEW t \in Tasks
      PROVE  RowOK(row'[t]) /\ row'[t].status = row[t].status
  BY AgedOK DEF Tick, IInv
<1>2. ASSUME NEW c \in Conns
      PROVE  /\ tx'[c] \in Transaction
             /\ tx'[c].step = tx[c].step /\ tx'[c].task = tx[c].task
  <2>1. tx[c] \in Transaction
    BY DEF IInv, TypeOK
  <2>2. tx[c].age <= Visibility => tx[c].age + 1 \in Ages
    BY <2>1, Bounds DEF Transaction
  <2>3. tx'[c] = IF tx[c].step # "idle" /\ tx[c].age <= Visibility
                 THEN [tx[c] EXCEPT !.age = tx[c].age + 1] ELSE tx[c]
    BY <2>1 DEF Tick, Transaction
  <2> QED
    BY <2>1, <2>2, <2>3 DEF Transaction
<1>3. TypeOK'
  <2>1. row' \in [Tasks -> Row]
    BY <1>1 DEF Tick, RowOK
  <2>2. tx' \in [Conns -> Transaction]
    BY <1>2 DEF Tick
  <2> QED
    BY <2>1, <2>2, <1>2 DEF Tick, IInv, TypeOK
<1>4. (\A t \in Tasks : RowOK(row[t]))'
  BY <1>1 DEF RowOK
<1>5. LogsHaveTask'
  BY <1>1, <1>2 DEF Tick, IInv, LogsHaveTask, KeyShared
<1>6. (\A t \in lost : Held(t))'
  BY <1>1 DEF Tick, IInv, TypeOK, Held
<1> QED
  BY <1>3, <1>4, <1>5, <1>6 DEF IInv

\* The invariant is inductive.
LEMMA NextIInv == IInv /\ [Next]_vars => IInv'
<1> SUFFICES ASSUME IInv, [Next]_vars PROVE IInv'
  OBVIOUS
<1>1. ASSUME NEW t \in Tasks, OperatorNext(t) PROVE IInv'
  BY <1>1, OperatorIInv
<1>2. ASSUME NEW w \in Workers, Crash(w) PROVE IInv'
  BY <1>2 DEF Crash, IInv, TypeOK, RowOK, LogsHaveTask, KeyShared, Held, HeldBy
<1>3. ASSUME NEW w \in Workers, NEW t \in Tasks, WorkerNext(w, t) PROVE IInv'
  BY <1>3, WorkerIInv
<1>4. ASSUME NEW c \in Conns, LogNext(c) PROVE IInv'
  BY <1>4, LogIInv
<1>5. CASE ReapStale
  BY <1>5, ReapIInv
<1>6. CASE Tick
  BY <1>6, TickIInv
<1>7. CASE UNCHANGED vars
  BY <1>7 DEF vars, IInv, TypeOK, RowOK, LogsHaveTask, KeyShared, Held
<1> QED
  BY <1>1, <1>2, <1>3, <1>4, <1>5, <1>6, <1>7 DEF Next

-----------------------------------------------------------------------------
(* Theorems *)

\* The invariant holds in every reachable state.
LEMMA Invariant == Spec => []IInv
BY InitIInv, NextIInv, PTL DEF Spec

\* Every column stays in its domain and every open transaction names a task.
THEOREM TypeCorrect == Spec => []TypeOK
<1>1. IInv => TypeOK
  BY DEF IInv
<1> QED
  BY <1>1, Invariant, PTL

\* An active row always has a holder and a heartbeat for the reaper to compare;
\* a row that is free or parked never has a holder.
THEOREM LeaseIntegrityHolds == Spec => []LeaseIntegrity
<1>1. IInv => LeaseIntegrity
  BY DEF IInv, TypeOK, RowOK, LeaseIntegrity, Held
<1> QED
  BY <1>1, Invariant, PTL

\* completed_at is set exactly on completed tasks.
THEOREM CompletionStampHolds == Spec => []CompletionStamp
<1>1. IInv => CompletionStamp
  BY DEF IInv, RowOK, CompletionStamp
<1> QED
  BY <1>1, Invariant, PTL

\* The progress note of an active task is its holder's.
THEOREM NoteIsHoldersHolds == Spec => []NoteIsHolders
<1>1. IInv => NoteIsHolders
  BY DEF IInv, RowOK, NoteIsHolders, Held
<1> QED
  BY <1>1, Invariant, PTL

\* No sequence of edits, failures, lapses and requeues overspends the budget.
THEOREM AttemptBudgetHolds == Spec => []AttemptBudget
<1>1. IInv => AttemptBudget
  BY DEF IInv, RowOK, AttemptBudget
<1> QED
  BY <1>1, Invariant, PTL

\* No log outlives its task and none is written under a task that is gone.
THEOREM LogsHaveTaskHolds == Spec => []LogsHaveTask
<1>1. IInv => LogsHaveTask
  BY DEF IInv
<1> QED
  BY <1>1, Invariant, PTL

-----------------------------------------------------------------------------
(* Action properties *)

\* What a row that nothing claims, reaps or retries goes through in one step: a
\* review, a decision, a tick, or the late UPDATE of a log transaction.
LEMMA ParkedStep ==
  ASSUME IInv, [Next]_vars, NEW t \in Tasks, row[t].status \in Parked
  PROVE  /\ row'[t].status \in Parked \union Terminal
         /\ row'[t].attempts = row[t].attempts
         /\ row'[t].claimedBy = NULL
<1> DEFINE Goal == /\ row'[t].status \in Parked \union Terminal
                   /\ row'[t].attempts = row[t].attempts
                   /\ row'[t].claimedBy = NULL
<1>0. /\ row \in [Tasks -> Row] /\ row[t] \in Row /\ row[t].claimedBy = NULL
      /\ row[t].status \notin Settled \union Active \union Absent
  BY DEF IInv, TypeOK, RowOK, Parked, Settled, Terminal, Active, Absent
<1>1. ASSUME NEW u \in Tasks, NEW r, SetRow(u, r), u # t PROVE Goal
  BY <1>0, <1>1 DEF SetRow
<1>2. ASSUME NEW u \in Tasks, OperatorNext(u) PROVE Goal
  <2>1. ASSUME NEW m \in Limits, NEW p \in Priorities, NEW d \in Delays,
               CreateTask(u, m, p, d) \/ UpdateTask(u, m, p, d) PROVE Goal
    BY <1>0, <1>1, <2>1 DEF CreateTask, UpdateTask, Settled, Absent
  <2>2. CASE RequeueTask(u)
    BY <1>0, <1>1, <2>2 DEF RequeueTask
  <2>3. CASE DeleteTask(u)
    BY <1>0, <1>1, <2>3 DEF DeleteTask
  <2>4. CASE RequestReview(u)
    BY <1>0, <2>4 DEF RequestReview, SetRow, Row, Parked
  <2>5. ASSUME NEW outcome \in Terminal, NEW e \in {"reported", NULL},
               FinalizeTask(u, outcome, e) PROVE Goal
    BY <1>0, <2>5 DEF FinalizeTask, SetRow, Finalized, Row
  <2> QED
    BY <1>2, <2>1, <2>2, <2>3, <2>4, <2>5 DEF OperatorNext
<1>3. ASSUME NEW w \in Workers, NEW u \in Tasks, WorkerNext(w, u) PROVE Goal
  <2>1. row[u].status \in Active \union Settled
    BY <1>3 DEF WorkerNext, HolderNext, ClaimTask, Eligible, Heartbeat, SetJiraURL, OpenPR,
                UpdateProgress, ReportResult, Calls, HeldBy, Held, Settled
  <2>2. \E r : SetRow(u, r)
    BY <1>3 DEF WorkerNext, HolderNext, ClaimTask, Heartbeat, SetJiraURL, OpenPR, UpdateProgress, ReportResult
  <2> QED
    BY <1>0, <1>1, <2>1, <2>2
<1>4. ASSUME NEW c \in Conns, LogNext(c) PROVE Goal
  <2>1. CASE LogCommit(c)
    BY <1>0, <2>1 DEF LogCommit, SetRow, LogBeaten, Beating, Row, Active
  <2>2. CASE UNCHANGED row
    BY <1>0, <2>2
  <2> QED
    BY <1>4, <2>1, <2>2 DEF LogNext, LogBegin, LogCheck, LogInsert, LogAbort
<1>5. CASE ReapStale
  <2>1. t \notin Stale
    BY <1>0 DEF Stale, Expired
  <2> QED
    BY <1>0, <1>5, <2>1 DEF ReapStale
<1>6. CASE Tick
  <2>1. row'[t] = Aged(row[t])
    BY <1>6 DEF Tick
  <2> QED
    BY <1>0, <2>1 DEF Aged, Row
<1>7. CASE UNCHANGED row
  BY <1>0, <1>7
<1> QED
  BY <1>2, <1>3, <1>4, <1>5, <1>6, <1>7 DEF Next, vars, Crash

\* A parked task is never handed out, re-queued or charged, whatever log calls,
\* reports and reaper passes are still under way when it is parked.
THEOREM ParkedStaysHolds == Spec => ParkedStays
<1>1. IInv /\ [Next]_vars =>
        [\A t \in Tasks : row[t].status \in Parked =>
           /\ row'[t].status \in Parked \union Terminal
           /\ row'[t].attempts = row[t].attempts
           /\ row'[t].claimedBy = NULL]_vars
  BY ParkedStep
<1> QED
  BY <1>1, Invariant, PTL DEF Spec, ParkedStays

\* What one step can do to a finished row.
LEMMA TerminalStep ==
  ASSUME IInv, [Next]_vars, NEW t \in Tasks, row[t].status \in Terminal
  PROVE  \/ row'[t].status \in {row[t].status, "deleted"}
         \/ row'[t].status = "pending" /\ row'[t].attempts = 0
<1> DEFINE Goal == \/ row'[t].status \in {row[t].status, "deleted"}
                   \/ row'[t].status = "pending" /\ row'[t].attempts = 0
<1>0. /\ row \in [Tasks -> Row] /\ row[t] \in Row
      /\ row[t].status \notin Parked \union Active \union Absent \union {"pending"}
  BY DEF IInv, TypeOK, Parked, Terminal, Active, Absent
<1>1. ASSUME NEW u \in Tasks, NEW r, SetRow(u, r), u # t PROVE Goal
  BY <1>0, <1>1 DEF SetRow
<1>2. ASSUME NEW u \in Tasks, OperatorNext(u) PROVE Goal
  <2>1. ASSUME NEW m \in Limits, NEW p \in Priorities, NEW d \in Delays,
               CreateTask(u, m, p, d) \/ UpdateTask(u, m, p, d) PROVE Goal
    BY <1>0, <1>1, <2>1 DEF CreateTask, UpdateTask, Absent
  <2>2. CASE RequeueTask(u)
    BY <1>0, <2>2 DEF RequeueTask, SetRow, Requeued, Row
  <2>3. CASE DeleteTask(u)
    BY <1>0, <2>3 DEF DeleteTask, SetRow, Blank
  <2>4. CASE RequestReview(u)
    BY <1>0, <1>1, <2>4 DEF RequestReview, Parked
  <2>5. ASSUME NEW outcome \in Terminal, NEW e \in {"reported", NULL},
               FinalizeTask(u, outcome, e) PROVE Goal
    BY <1>0, <1>1, <2>5 DEF FinalizeTask
  <2> QED
    BY <1>2, <2>1, <2>2, <2>3, <2>4, <2>5 DEF OperatorNext
<1>3. ASSUME NEW w \in Workers, NEW u \in Tasks, WorkerNext(w, u) PROVE Goal
  <2>1. row[u].status \in Active \union {"pending"}
    BY <1>3 DEF WorkerNext, HolderNext, ClaimTask, Eligible, Heartbeat, SetJiraURL, OpenPR,
                UpdateProgress, ReportResult, Calls, HeldBy, Held
  <2>2. \E r : SetRow(u, r)
    BY <1>3 DEF WorkerNext, HolderNext, ClaimTask, Heartbeat, SetJiraURL, OpenPR, UpdateProgress, ReportResult
  <2> QED
    BY <1>0, <1>1, <2>1, <2>2
<1>4. ASSUME NEW c \in Conns, LogNext(c) PROVE Goal
  <2>1. CASE LogCommit(c)
    BY <1>0, <2>1 DEF LogCommit, SetRow, LogBeaten, Beating, Row, Active
  <2>2. CASE UNCHANGED row
    BY <1>0, <2>2
  <2> QED
    BY <1>4, <2>1, <2>2 DEF LogNext, LogBegin, LogCheck, LogInsert, LogAbort
<1>5. CASE ReapStale
  <2>1. t \notin Stale
    BY <1>0 DEF Stale, Expired
  <2> QED
    BY <1>0, <1>5, <2>1 DEF ReapStale
<1>6. CASE Tick
  <2>1. row'[t] = Aged(row[t])
    BY <1>6 DEF Tick
  <2> QED
    BY <1>0, <2>1 DEF Aged, Row
<1>7. CASE UNCHANGED row
  BY <1>0, <1>7
<1> QED
  BY <1>2, <1>3, <1>4, <1>5, <1>6, <1>7 DEF Next, vars, Crash

\* A finished task is reopened by RequeueTask alone: no late report, reaper pass
\* or log UPDATE brings it back.
THEOREM TerminalStaysHolds == Spec => TerminalStays
<1>1. IInv /\ [Next]_vars =>
        [\A t \in Tasks : row[t].status \in Terminal =>
           \/ row'[t].status \in {row[t].status, "deleted"}
           \/ row'[t].status = "pending" /\ row'[t].attempts = 0]_vars
  BY TerminalStep
<1> QED
  BY <1>1, Invariant, PTL DEF Spec, TerminalStays

\* One step ends the claim of a silent holder only if its lease had expired.
LEMMA SilentStep ==
  ASSUME IInv, [Next]_vars, NEW t \in lost, ~Held(t)'
  PROVE  Expired(row[t])
<1>0. t \in Tasks /\ row \in [Tasks -> Row] /\ row[t] \in Row /\ row[t].status \in Active
  BY DEF IInv, TypeOK, Held
<1>1. row'[t].status \notin Active
  BY DEF Held
<1>2. ASSUME NEW u \in Tasks, NEW r, SetRow(u, r), u # t PROVE FALSE
  BY <1>0, <1>1, <1>2 DEF SetRow
<1>3. ASSUME NEW u \in Tasks, OperatorNext(u) PROVE FALSE
  <2>1. row[u].status \notin Active
    BY <1>3 DEF OperatorNext, CreateTask, UpdateTask, RequeueTask, DeleteTask, RequestReview,
                FinalizeTask, Settled, Terminal, Parked, Active
  <2>2. \E r : SetRow(u, r)
    BY <1>3 DEF OperatorNext, CreateTask, UpdateTask, RequeueTask, DeleteTask, RequestReview,
                FinalizeTask
  <2> QED
    BY <1>0, <1>2, <2>1, <2>2
<1>4. ASSUME NEW w \in Workers, NEW u \in Tasks, WorkerNext(w, u) PROVE FALSE
  <2>1. row[u].status \notin Active \/ u \notin lost
    BY <1>4 DEF WorkerNext, HolderNext, ClaimTask, Eligible, Heartbeat, SetJiraURL, OpenPR,
                UpdateProgress, ReportResult, Calls, Active
  <2>2. \E r : SetRow(u, r)
    BY <1>4 DEF WorkerNext, HolderNext, ClaimTask, Heartbeat, SetJiraURL, OpenPR, UpdateProgress, ReportResult
  <2> QED
    BY <1>0, <1>2, <2>1, <2>2
<1>5. ASSUME NEW c \in Conns, LogNext(c) PROVE FALSE
  <2>1. CASE LogCommit(c)
    BY <1>0, <1>1, <2>1 DEF LogCommit, SetRow, LogBeaten, Beating, Row, Active
  <2>2. CASE UNCHANGED row
    BY <1>0, <1>1, <2>2
  <2> QED
    BY <1>5, <2>1, <2>2 DEF LogNext, LogBegin, LogCheck, LogInsert, LogAbort
<1>6. CASE ReapStale
  BY <1>0, <1>1, <1>6 DEF ReapStale, Stale
<1>7. CASE Tick
  <2>1. row'[t] = Aged(row[t])
    BY <1>0, <1>7 DEF Tick
  <2> QED
    BY <1>0, <1>1, <2>1 DEF Aged, Row
<1>8. CASE UNCHANGED row
  BY <1>0, <1>1, <1>8
<1> QED
  BY <1>3, <1>4, <1>5, <1>6, <1>7, <1>8 DEF Next, vars, Crash

\* A claim whose holder went silent ends by expiry and by nothing else.
THEOREM SilentClaimHolds == Spec => SilentClaimEndsByExpiry
<1>1. IInv /\ [Next]_vars => [\A t \in lost : ~Held(t)' => Expired(row[t])]_vars
  BY SilentStep
<1> QED
  BY <1>1, Invariant, PTL DEF Spec, SilentClaimEndsByExpiry

\* What the lease of one silent claim goes through in one step.
RunsOn(t) ==
  /\ Tick => row'[t].age > row[t].age \/ Expired(row[t])
  /\ MayWrite(t)' \subseteq MayWrite(t)
  /\ row'[t].age < row[t].age => MayWrite(t)' # MayWrite(t)

\* The lease columns of an active row.
LEMMA LeaseAt ==
  ASSUME IInv, NEW t \in lost
  PROVE  /\ t \in Tasks /\ row \in [Tasks -> Row] /\ row[t] \in Row
         /\ row[t].status \in Active /\ row[t].age \in Ages /\ row[t].age \in Nat
         /\ tx \in [Conns -> Transaction]
<1>1. /\ t \in Tasks /\ row \in [Tasks -> Row] /\ row[t] \in Row /\ tx \in [Conns -> Transaction]
      /\ row[t].status \in Active /\ row[t].age # NULL
  BY DEF IInv, TypeOK, Held, RowOK
<1> QED
  BY <1>1, Bounds DEF Row

\* A statement outside the log transactions that leaves the row alone.
LEMMA UntouchedRunsOn ==
  ASSUME IInv, NEW t \in lost, ~Tick, row'[t] = row[t], tx' = tx
  PROVE  RunsOn(t)
<1>1. MayWrite(t)' = MayWrite(t)
  BY DEF MayWrite, HeldBy, Held
<1> QED
  BY <1>1, LeaseAt DEF RunsOn

\* A statement on another row.
LEMMA ElsewhereRunsOn ==
  ASSUME IInv, NEW t \in lost, ~Tick, NEW u \in Tasks, u # t, NEW r, SetRow(u, r), tx' = tx
  PROVE  RunsOn(t)
<1>1. row'[t] = row[t]
  BY LeaseAt DEF SetRow
<1> QED
  BY <1>1, UntouchedRunsOn

\* A step of one log transaction adds none that may write to t, if it was one
\* of them when it still is.
LEMMA NoneAdded ==
  ASSUME IInv, NEW t \in lost, NEW c \in Conns, NEW x, SetTx(c, x),
         \A w \in Workers \union {NULL} : HeldBy(t, w)' <=> HeldBy(t, w),
         x.step # "idle" /\ x.task = t => c \in MayWrite(t) \/ (x.step = "begun" /\ ~HeldBy(t, x.worker)'),
         x.step \in {"idle", "begun", "checked", "inserted"}
  PROVE  MayWrite(t)' \subseteq MayWrite(t)
<1>1. tx'[c] = x /\ \A d \in Conns \ {c} : tx'[d] = tx[d] /\ tx[d].worker \in Workers \union {NULL}
  BY LeaseAt DEF SetTx, Transaction
<1>2. \A d \in Conns \ {c} : d \in MayWrite(t)' => d \in MayWrite(t)
  BY <1>1 DEF MayWrite
<1>3. c \in MayWrite(t)' => c \in MayWrite(t)
  BY <1>1 DEF MayWrite
<1> QED
  BY <1>2, <1>3 DEF MayWrite

\* One step of a log transaction: only its commit writes, and then it is over.
LEMMA LogRunsOn ==
  ASSUME IInv, NEW t \in lost, ~Tick, NEW c \in Conns, LogNext(c)
  PROVE  RunsOn(t)
<1>0. /\ t \in Tasks /\ row \in [Tasks -> Row] /\ row[t] \in Row /\ row[t].age \in Nat
      /\ row[t].status \in Active /\ tx \in [Conns -> Transaction] /\ tx[c] \in Transaction
  BY LeaseAt
<1>1. CASE LogCommit(c)
  <2> DEFINE u == tx[c].task
             r == LogBeaten(row[u], tx[c].age)
  <2>1. u \in Tasks /\ row[u] \in Row /\ SetRow(u, r) /\ SetTx(c, NoTx) /\ tx[c].step = "inserted"
    BY <1>0, <1>1 DEF LogCommit, IInv, TypeOK
  <2>2. r.claimedBy = row[u].claimedBy /\ (r.status \in Active <=> row[u].status \in Active)
    BY <2>1 DEF LogBeaten, Beating, Row, Active
  <2> HIDE DEF r, u
  <2>3. \A w \in Workers \union {NULL} : HeldBy(t, w)' <=> HeldBy(t, w)
    <3>1. u # t => row'[t] = row[t]
      BY <1>0, <2>1 DEF SetRow
    <3>2. u = t => row'[t] = r
      BY <1>0, <2>1 DEF SetRow
    <3> QED
      BY <2>2, <3>1, <3>2 DEF HeldBy, Held
  <2>4. MayWrite(t)' \subseteq MayWrite(t)
    <3>1. NoTx.step = "idle"
      BY DEF NoTx
    <3> QED
      BY <2>1, <2>3, <3>1, NoneAdded
  <2>5. row'[t].age < row[t].age => MayWrite(t)' # MayWrite(t)
    <3>1. CASE u # t
      <4>1. row'[t] = row[t]
        BY <1>0, <2>1, <3>1 DEF SetRow
      <4> QED
        BY <1>0, <4>1
    <3>2. CASE u = t
      <4>1. c \in MayWrite(t)
        BY <2>1, <3>2 DEF MayWrite, u
      <4>2. tx'[c].step = "idle"
        BY <1>0, <2>1, NoTxOK DEF SetTx
      <4>3. c \notin MayWrite(t)'
        BY <4>2 DEF MayWrite
      <4> QED
        BY <4>1, <4>3
    <3> QED
      BY <3>1, <3>2
  <2> QED
    BY <2>4, <2>5 DEF RunsOn
<1>2. CASE UNCHANGED row /\ ~LogCommit(c)
  <2>1. \A w \in Workers \union {NULL} : HeldBy(t, w)' <=> HeldBy(t, w)
    BY <1>2 DEF HeldBy, Held
  <2>2. \E x : /\ SetTx(c, x) /\ x.step \in {"idle", "begun", "checked", "inserted"}
               /\ x.step # "idle" /\ x.task = t =>
                    c \in MayWrite(t) \/ (x.step = "begun" /\ ~HeldBy(t, x.worker))
    <3>1. ASSUME NEW w \in Workers, NEW u \in Tasks, LogBegin(c, w, u)
          PROVE  \E x : /\ SetTx(c, x) /\ x.step = "begun"
                        /\ x.task = t => ~HeldBy(t, x.worker)
      <4>1. SetTx(c, [step |-> "begun", worker |-> w, task |-> u, age |-> 0])
            /\ (u = t => ~HeldBy(t, w))
        BY <3>1 DEF LogBegin
      <4> QED
        BY <4>1
    <3>2. ASSUME SetTx(c, NoTx)
          PROVE  \E x : SetTx(c, x) /\ x.step = "idle"
      BY <3>2, NoTxOK
    <3>3. ASSUME NEW s \in {"checked", "inserted"}, SetTx(c, [tx[c] EXCEPT !.step = s]),
                 tx[c].step = "checked" \/ (tx[c].step = "begun" /\ HeldBy(tx[c].task, tx[c].worker))
          PROVE  \E x : /\ SetTx(c, x) /\ x.step = s
                        /\ x.task = t => c \in MayWrite(t)
      <4> DEFINE x == [tx[c] EXCEPT !.step = s]
      <4>1. x.step = s /\ x.task = tx[c].task
        BY <1>0 DEF Transaction
      <4>2. tx[c].task = t => c \in MayWrite(t)
        BY <3>3 DEF MayWrite
      <4> HIDE DEF x
      <4>3. SetTx(c, x)
        BY <3>3 DEF x
      <4> QED
        BY <4>1, <4>2, <4>3
    <3>4. CASE LogCheck(c)
      <4>1. CASE HeldBy(tx[c].task, tx[c].worker)
        <5>1. SetTx(c, [tx[c] EXCEPT !.step = "checked"]) /\ tx[c].step = "begun"
          BY <3>4, <4>1 DEF LogCheck
        <5> QED
          BY <3>3, <4>1, <5>1
      <4>2. CASE ~HeldBy(tx[c].task, tx[c].worker)
        BY <3>2, <3>4, <4>2 DEF LogCheck
      <4> QED
        BY <4>1, <4>2
    <3>5. CASE LogInsert(c)
      <4>1. CASE row[tx[c].task].status \in Absent
        BY <3>2, <3>5, <4>1 DEF LogInsert
      <4>2. CASE row[tx[c].task].status \notin Absent
        <5>1. SetTx(c, [tx[c] EXCEPT !.step = "inserted"]) /\ tx[c].step = "checked"
          BY <3>5, <4>2 DEF LogInsert
        <5> QED
          BY <3>3, <5>1
      <4> QED
        BY <4>1, <4>2
    <3>6. CASE LogAbort(c)
      BY <3>2, <3>6 DEF LogAbort
    <3>7. CASE \E w \in Workers, u \in Tasks : LogBegin(c, w, u)
      BY <3>1, <3>7
    <3> QED
      BY <1>2, <3>4, <3>5, <3>6, <3>7 DEF LogNext
  <2>3. MayWrite(t)' \subseteq MayWrite(t)
    <3>1. PICK x : /\ SetTx(c, x) /\ x.step \in {"idle", "begun", "checked", "inserted"}
                   /\ x.step # "idle" /\ x.task = t =>
                        c \in MayWrite(t) \/ (x.step = "begun" /\ ~HeldBy(t, x.worker))
      BY <2>2
    <3>2. \A w : HeldBy(t, w)' <=> HeldBy(t, w)
      BY <1>2 DEF HeldBy, Held
    <3> QED
      BY <2>1, <3>1, <3>2, NoneAdded
  <2> QED
    BY <1>0, <1>2, <2>3 DEF RunsOn
<1>3. LogCommit(c) \/ UNCHANGED row
  BY DEF LogNext, LogBegin, LogCheck, LogInsert, LogAbort
<1> QED
  BY <1>1, <1>2, <1>3

\* The clock ages the lease, and touches nothing a log transaction looks at.
LEMMA TickRunsOn ==
  ASSUME IInv, NEW t \in lost, Tick
  PROVE  RunsOn(t)
<1>0. /\ t \in Tasks /\ row[t] \in Row /\ row[t].age \in Nat /\ row[t].age # NULL
      /\ row[t].status \in Active /\ tx \in [Conns -> Transaction]
  BY LeaseAt, Bounds
<1>1. row'[t] = Aged(row[t])
  BY <1>0 DEF Tick
<1>2. /\ row'[t].status = row[t].status /\ row'[t].claimedBy = row[t].claimedBy
      /\ row'[t].age = IF row[t].age <= Visibility THEN row[t].age + 1 ELSE row[t].age
  BY <1>0, <1>1 DEF Aged, Row
<1>3. row'[t].age > row[t].age \/ Expired(row[t])
  BY <1>0, <1>2, StoreAssumption DEF Expired
<1>4. MayWrite(t)' = MayWrite(t)
  <2>1. ASSUME NEW c \in Conns
        PROVE  /\ tx'[c].step = tx[c].step /\ tx'[c].task = tx[c].task
               /\ tx'[c].worker = tx[c].worker
    BY <1>0 DEF Tick, Transaction
  <2>2. \A w : HeldBy(t, w)' <=> HeldBy(t, w)
    BY <1>2 DEF HeldBy, Held
  <2> QED
    BY <2>1, <2>2 DEF MayWrite
<1> QED
  BY <1>0, <1>2, <1>3, <1>4 DEF RunsOn

\* One step of anybody on the claim of a silent holder, if it does not end it.
LEMMA SilentRunsOn ==
  ASSUME IInv, [Next]_vars, NEW t \in lost, t \in lost'
  PROVE  RunsOn(t)
<1>0. t \in Tasks /\ row \in [Tasks -> Row] /\ row[t].status \in Active
  BY LeaseAt
<1>1. CASE Tick
  BY <1>1, TickRunsOn
<1>2. ASSUME ~Tick, NEW u \in Tasks, OperatorNext(u) PROVE RunsOn(t)
  <2>1. row[u].status \notin Active
    BY <1>2 DEF OperatorNext, CreateTask, UpdateTask, RequeueTask, DeleteTask, RequestReview,
                FinalizeTask, Settled, Terminal, Parked, Active
  <2>2. \E r : SetRow(u, r)
    BY <1>2 DEF OperatorNext, CreateTask, UpdateTask, RequeueTask, DeleteTask, RequestReview,
                FinalizeTask
  <2>3. tx' = tx
    BY <1>2 DEF OperatorNext, CreateTask, UpdateTask, RequeueTask, DeleteTask, RequestReview,
                FinalizeTask
  <2> QED
    BY <1>0, <1>2, <2>1, <2>2, <2>3, ElsewhereRunsOn
<1>3. ASSUME ~Tick, NEW w \in Workers, NEW u \in Tasks, WorkerNext(w, u) PROVE RunsOn(t)
  <2>1. row[u].status \notin Active \/ u \notin lost
    BY <1>3 DEF WorkerNext, HolderNext, ClaimTask, Eligible, Heartbeat, SetJiraURL, OpenPR,
                UpdateProgress, ReportResult, Calls, Active
  <2>2. \E r : SetRow(u, r)
    BY <1>3 DEF WorkerNext, HolderNext, ClaimTask, Heartbeat, SetJiraURL, OpenPR, UpdateProgress, ReportResult
  <2>3. tx' = tx
    BY <1>3 DEF WorkerNext, HolderNext, ClaimTask, Heartbeat, SetJiraURL, OpenPR, UpdateProgress, ReportResult
  <2> QED
    BY <1>0, <1>3, <2>1, <2>2, <2>3, ElsewhereRunsOn
<1>4. ASSUME ~Tick, NEW c \in Conns, LogNext(c) PROVE RunsOn(t)
  BY <1>4, LogRunsOn
<1>5. CASE ~Tick /\ ReapStale
  <2>1. row'[t] = row[t] /\ tx' = tx
    BY <1>0, <1>5 DEF ReapStale
  <2> QED
    BY <1>5, <2>1, UntouchedRunsOn
<1>6. CASE ~Tick /\ UNCHANGED <<row, tx>>
  BY <1>6, UntouchedRunsOn
<1> QED
  BY <1>1, <1>2, <1>3, <1>4, <1>5, <1>6 DEF Next, vars, Crash

\* The lease of a silent holder runs down: nothing but log transactions that were
\* under way when it fell silent can put its heartbeat back, once each.
THEOREM SilentLeaseRunsDownHolds == Spec => SilentLeaseRunsDown
<1>1. IInv /\ [Next]_vars =>
        [\A t \in lost : t \in lost' =>
           /\ Tick => row'[t].age > row[t].age \/ Expired(row[t])
           /\ MayWrite(t)' \subseteq MayWrite(t)
           /\ row'[t].age < row[t].age => MayWrite(t)' # MayWrite(t)]_vars
  BY SilentRunsOn DEF RunsOn
<1> QED
  BY <1>1, Invariant, PTL DEF Spec, SilentLeaseRunsDown

-----------------------------------------------------------------------------
(* TaskStore implements TaskLifecycle. The refinement mapping forgets the    *)
(* clock, the queue order, the log transactions and the claim columns of     *)
(* rows that are not active. Each action is the lifecycle action of the same *)
(* meaning, or invisible.                                                    *)

\* The refinement mapping of TaskStore's LC.
HolderOf(r) == IF r.status \in Active THEN r.claimedBy ELSE NULL
St == [t \in Tasks |-> row[t].status]
Ho == [t \in Tasks |-> IF Held(t) THEN row[t].claimedBy ELSE NULL]
Tries == [t \in Tasks |-> row[t].attempts]
Lim == [t \in Tasks |-> row[t].limit]

Mapped == <<St, Ho, Tries, Lim>>

\* The lifecycle's variables are the mapped ones.
LEMMA LcVars == LC!lcVars = Mapped
BY DEF LC!lcVars, Mapped, St, Ho, Tries, Lim

\* The lifecycle's next-state relation, over the mapped variables.
LEMMA LcNext ==
  LC!LifecycleNext <=>
    \/ \E t \in Tasks :
         \/ \E m \in Limits : LC!Submit(t, m) \/ LC!Edit(t, m)
         \/ LC!Retry(t) \/ LC!Cancel(t) \/ LC!Review(t) \/ LC!Start(t)
         \/ \E outcome \in Terminal : LC!Finalize(t, outcome)
         \/ \E w \in Workers : LC!Claim(w, t) \/ LC!Complete(w, t) \/ LC!Park(w, t)
    \/ \E S \in SUBSET Tasks : LC!Lapse(S)
BY DEF LC!LifecycleNext, LC!Operates, Limits, LC!Limits, Terminal, LC!Terminal

-----------------------------------------------------------------------------
(* What writing a row means to the lifecycle *)

\* One row is written.
LEMMA MapRow ==
  ASSUME IInv, NEW t \in Tasks, NEW r, SetRow(t, r)
  PROVE  /\ St'    = [St    EXCEPT ![t] = r.status]
         /\ Ho'    = [Ho    EXCEPT ![t] = HolderOf(r)]
         /\ Tries' = [Tries EXCEPT ![t] = r.attempts]
         /\ Lim'   = [Lim   EXCEPT ![t] = r.limit]
<1>1. row'[t] = r /\ \A u \in Tasks \ {t} : row'[u] = row[u]
  BY DEF IInv, TypeOK, SetRow
<1>2. St' = [St EXCEPT ![t] = r.status]
  BY <1>1 DEF St
<1>3. Ho' = [Ho EXCEPT ![t] = HolderOf(r)]
  <2>1. Ho' = [u \in Tasks |-> HolderOf(row'[u])]
    BY DEF Ho, Held, HolderOf
  <2>2. Ho = [u \in Tasks |-> HolderOf(row[u])]
    BY DEF Ho, Held, HolderOf
  <2> QED
    BY <1>1, <2>1, <2>2
<1>4. Tries' = [Tries EXCEPT ![t] = r.attempts]
  BY <1>1 DEF Tries
<1>5. Lim' = [Lim EXCEPT ![t] = r.limit]
  BY <1>1 DEF Lim
<1> QED
  BY <1>2, <1>3, <1>4, <1>5

\* The values the mapped variables have.
LEMMA MapAt ==
  ASSUME IInv, NEW t \in Tasks
  PROVE  /\ St[t] = row[t].status /\ Tries[t] = row[t].attempts /\ Lim[t] = row[t].limit
         /\ Ho[t] = HolderOf(row[t])
BY DEF St, Ho, Tries, Lim, HolderOf, Held

\* A lifecycle column that is written back as it was is unchanged.
LEMMA MapKeep ==
  ASSUME IInv, NEW t \in Tasks, NEW r, SetRow(t, r)
  PROVE  /\ r.status = row[t].status => St' = St
         /\ HolderOf(r) = HolderOf(row[t]) => Ho' = Ho
         /\ r.attempts = row[t].attempts => Tries' = Tries
         /\ r.limit = row[t].limit => Lim' = Lim
<1>1. \A f, v : f = [u \in Tasks |-> f[u]] /\ v = f[t] => [f EXCEPT ![t] = v] = f
  OBVIOUS
<1>2. /\ St = [u \in Tasks |-> St[u]] /\ Ho = [u \in Tasks |-> Ho[u]]
      /\ Tries = [u \in Tasks |-> Tries[u]] /\ Lim = [u \in Tasks |-> Lim[u]]
  BY DEF St, Ho, Tries, Lim
<1> QED
  BY <1>1, <1>2, MapRow, MapAt

\* A row written back with the same lifecycle columns is invisible.
LEMMA MapSame ==
  ASSUME IInv, NEW t \in Tasks, NEW r, SetRow(t, r),
         r.status = row[t].status, HolderOf(r) = HolderOf(row[t]),
         r.attempts = row[t].attempts, r.limit = row[t].limit
  PROVE  UNCHANGED Mapped
BY MapKeep DEF Mapped

\* Rows that do not change are invisible.
LEMMA MapUnchanged == UNCHANGED row => UNCHANGED Mapped
BY DEF Mapped, St, Ho, Tries, Lim, Held

-----------------------------------------------------------------------------
(* Actions *)

Step == LC!LifecycleNext \/ UNCHANGED Mapped

\* What operators do is what the lifecycle lets them do.
LEMMA OperatorMaps ==
  ASSUME IInv, NEW t \in Tasks, OperatorNext(t)
  PROVE  Step
<1>0. row[t] \in Row /\ RowOK(row[t])
  BY DEF IInv, TypeOK
<1>1. ASSUME NEW m \in Limits, NEW p \in Priorities, NEW d \in Delays, CreateTask(t, m, p, d)
      PROVE  Step
  <2> DEFINE r == Fresh(m, p, d)
  <2>1. r.status = "pending" /\ r.limit = m /\ r.attempts = 0 /\ HolderOf(r) = NULL
    BY DEF Fresh, Blank, HolderOf, Active
  <2>2. /\ row[t].status = "unborn" /\ SetRow(t, r)
        /\ row[t].attempts = 0 /\ HolderOf(row[t]) = NULL
    BY <1>0, <1>1 DEF CreateTask, HolderOf, Active, RowOK
  <2> HIDE DEF r
  <2>3. LC!Submit(t, m)
    <3>1. /\ St[t] = "unborn" /\ St' = [St EXCEPT ![t] = "pending"]
          /\ Lim' = [Lim EXCEPT ![t] = m]
      BY <2>1, <2>2, MapRow, MapAt
    <3>2. Ho' = Ho /\ Tries' = Tries
      BY <2>1, <2>2, MapKeep
    <3> QED
      BY <3>1, <3>2 DEF LC!Submit, St, Ho, Tries, Lim
  <2> QED
    BY <2>3, LcNext DEF Step
<1>2. ASSUME NEW m \in Limits, NEW p \in Priorities, NEW d \in Delays, UpdateTask(t, m, p, d)
      PROVE  Step
  <2> DEFINE r == Edited(row[t], m, p, d)
  <2>1. /\ row[t].status = "pending" /\ SetRow(t, r)
        /\ r.status = row[t].status /\ r.limit = m /\ r.attempts = row[t].attempts
        /\ r.claimedBy = row[t].claimedBy
    BY <1>0, <1>2 DEF UpdateTask, Edited, Row
  <2> HIDE DEF r
  <2>2. LC!Edit(t, m)
    <3>1. St[t] = "pending" /\ Lim' = [Lim EXCEPT ![t] = m]
      BY <2>1, MapRow, MapAt
    <3>2. St' = St /\ Ho' = Ho /\ Tries' = Tries
      BY <2>1, MapKeep DEF HolderOf
    <3> QED
      BY <3>1, <3>2 DEF LC!Edit, St, Ho, Tries, Lim
  <2> QED
    BY <2>2, LcNext DEF Step
<1>3. CASE RequeueTask(t)
  <2> DEFINE r == Requeued(row[t])
  <2>1. /\ row[t].status \in Settled /\ SetRow(t, r)
        /\ r.status = "pending" /\ r.limit = row[t].limit /\ r.attempts = 0
        /\ HolderOf(r) = NULL /\ HolderOf(row[t]) = NULL
    BY <1>0, <1>3 DEF RequeueTask, Requeued, Row, HolderOf, Active, Settled, Terminal
  <2> HIDE DEF r
  <2>2. LC!Retry(t)
    <3>1. /\ St[t] \in Settled /\ St' = [St EXCEPT ![t] = "pending"]
          /\ Tries' = [Tries EXCEPT ![t] = 0]
      BY <2>1, MapRow, MapAt
    <3>2. Ho' = Ho /\ Lim' = Lim
      BY <2>1, MapKeep
    <3> QED
      BY <3>1, <3>2 DEF LC!Retry, LC!Settled, LC!Terminal, Settled, Terminal, St, Ho, Tries, Lim
  <2> QED
    BY <2>2, LcNext DEF Step
<1>4. CASE DeleteTask(t)
  <2> DEFINE r == Blank("deleted")
  <2>1. /\ row[t].status \in Settled /\ SetRow(t, r)
        /\ r.status = "deleted" /\ r.limit = 1 /\ r.attempts = 0
        /\ HolderOf(r) = NULL /\ HolderOf(row[t]) = NULL
    BY <1>0, <1>4 DEF DeleteTask, Blank, HolderOf, Active, Settled, Terminal
  <2> HIDE DEF r
  <2>2. LC!Cancel(t)
    <3>1. /\ St[t] \in Settled /\ St' = [St EXCEPT ![t] = "deleted"]
          /\ Tries' = [Tries EXCEPT ![t] = 0] /\ Lim' = [Lim EXCEPT ![t] = 1]
      BY <2>1, MapRow, MapAt
    <3>2. Ho' = Ho
      BY <2>1, MapKeep
    <3> QED
      BY <3>1, <3>2 DEF LC!Cancel, LC!Settled, LC!Terminal, Settled, Terminal, St, Ho, Tries, Lim
  <2> QED
    BY <2>2, LcNext DEF Step
<1>5. CASE RequestReview(t)
  <2> DEFINE r == [row[t] EXCEPT !.status = "review_requested"]
  <2>1. /\ row[t].status = "pr_opened" /\ SetRow(t, r)
        /\ r.status = "review_requested" /\ r.limit = row[t].limit
        /\ r.attempts = row[t].attempts
        /\ HolderOf(r) = NULL /\ HolderOf(row[t]) = NULL
    BY <1>0, <1>5 DEF RequestReview, Row, HolderOf, Active
  <2> HIDE DEF r
  <2>2. LC!Review(t)
    <3>1. St[t] = "pr_opened" /\ St' = [St EXCEPT ![t] = "review_requested"]
      BY <2>1, MapRow, MapAt
    <3>2. Ho' = Ho /\ Tries' = Tries /\ Lim' = Lim
      BY <2>1, MapKeep
    <3> QED
      BY <3>1, <3>2 DEF LC!Review, St, Ho, Tries, Lim
  <2> QED
    BY <2>2, LcNext DEF Step
<1>6. ASSUME NEW outcome \in Terminal, NEW e \in {"reported", NULL}, FinalizeTask(t, outcome, e)
      PROVE  Step
  <2> DEFINE r == Finalized(row[t], outcome, e)
  <2>1. /\ row[t].status \in Parked /\ SetRow(t, r)
        /\ r.status = outcome /\ r.limit = row[t].limit /\ r.attempts = row[t].attempts
        /\ HolderOf(r) = NULL /\ HolderOf(row[t]) = NULL
    BY <1>0, <1>6 DEF FinalizeTask, Finalized, Row, HolderOf, Active, Parked, Terminal
  <2> HIDE DEF r
  <2>2. LC!Finalize(t, outcome)
    <3>1. St[t] \in Parked /\ St' = [St EXCEPT ![t] = outcome]
      BY <2>1, MapRow, MapAt
    <3>2. Ho' = Ho /\ Tries' = Tries /\ Lim' = Lim
      BY <2>1, MapKeep
    <3> QED
      BY <1>6, <3>1, <3>2 DEF LC!Finalize, LC!Parked, LC!Terminal, Parked, Terminal, St, Ho, Tries, Lim
  <2> QED
    BY <2>2, LcNext DEF Step
<1> QED
  BY <1>1, <1>2, <1>3, <1>4, <1>5, <1>6 DEF OperatorNext

\* Rows that fail, one or many, lapse.
LEMMA FailedMaps ==
  ASSUME IInv, NEW S \in SUBSET Tasks, S # {}, NEW e,
         \A t \in S : row[t].status \in Active /\ row'[t] = Failed(row[t], e),
         \A t \in Tasks \ S : row'[t] = row[t]
  PROVE  Step
<1>1. ASSUME NEW t \in S
      PROVE  /\ row'[t].status = IF Exhausted(row[t]) THEN "failed" ELSE "pending"
             /\ row'[t].attempts = row[t].attempts /\ row'[t].limit = row[t].limit
             /\ row'[t].status \notin Active
  <2>1. row[t] \in Row
    BY DEF IInv, TypeOK
  <2>2. row'[t] = Failed(row[t], e)
    OBVIOUS
  <2>3. CASE Exhausted(row[t])
    BY <2>1, <2>2, <2>3 DEF Failed, Row, Active
  <2>4. CASE ~Exhausted(row[t])
    BY <2>1, <2>2, <2>4 DEF Failed, Row, Active
  <2> QED
    BY <2>3, <2>4
<1>2. \A t \in Tasks : /\ St[t] = row[t].status /\ Tries[t] = row[t].attempts
                       /\ Lim[t] = row[t].limit /\ Ho[t] = HolderOf(row[t])
  BY MapAt
<1>3. St' = [t \in Tasks |-> IF t \notin S THEN St[t]
                             ELSE IF Tries[t] >= Lim[t] THEN "failed" ELSE "pending"]
  BY <1>1, <1>2 DEF St, Exhausted
<1>4. Ho' = [t \in Tasks |-> IF t \in S THEN NULL ELSE Ho[t]]
  BY <1>1, <1>2 DEF Ho, Held, HolderOf
<1>5. Tries' = Tries /\ Lim' = Lim
  BY <1>1 DEF Tries, Lim
<1>6. \A t \in S : St[t] \in Active
  BY <1>2
<1>7. LC!Lapse(S)
  BY <1>3, <1>4, <1>5, <1>6
     DEF LC!Lapse, LC!Held, LC!Active, LC!Exhausted, Active, St, Ho, Tries, Lim
<1> QED
  BY <1>7, LcNext DEF Step

\* A row that is beaten starts, or nothing is seen.
LEMMA BeatenMaps ==
  ASSUME IInv, NEW t \in Tasks, NEW r, SetRow(t, r),
         r.status = Beating(row[t]), r.claimedBy = row[t].claimedBy,
         r.attempts = row[t].attempts, r.limit = row[t].limit
  PROVE  Step
<1>1. CASE row[t].status = "claimed"
  <2>1. r.status = "in_progress" /\ HolderOf(r) = HolderOf(row[t])
    BY <1>1 DEF Beating, HolderOf, Active
  <2>2. St[t] = "claimed" /\ St' = [St EXCEPT ![t] = "in_progress"]
    BY <1>1, <2>1, MapRow, MapAt
  <2>3. Ho' = Ho /\ Tries' = Tries /\ Lim' = Lim
    BY <2>1, MapKeep
  <2>4. LC!Start(t)
    BY <2>2, <2>3 DEF LC!Start, St, Ho, Tries, Lim
  <2> QED
    BY <2>4, LcNext DEF Step
<1>2. CASE row[t].status # "claimed"
  <2>1. r.status = row[t].status /\ HolderOf(r) = HolderOf(row[t])
    BY <1>2 DEF Beating, HolderOf
  <2> QED
    BY <2>1, MapSame DEF Step
<1> QED
  BY <1>1, <1>2

\* What workers do is what the lifecycle lets a holder do.
LEMMA WorkerMaps ==
  ASSUME IInv, NEW w \in Workers, NEW t \in Tasks, WorkerNext(w, t)
  PROVE  Step
<1>0. row[t] \in Row /\ RowOK(row[t]) /\ row \in [Tasks -> Row]
  BY DEF IInv, TypeOK
<1>a. Calls(w, t) => /\ row[t].status \in Active /\ row[t].claimedBy = w
                     /\ HolderOf(row[t]) = w
  BY DEF Calls, HeldBy, Held, HolderOf
<1>1. ASSUME NEW delivered \in BOOLEAN, ClaimTask(w, t, delivered)
      PROVE  Step
  <2> DEFINE r == Claimed(row[t], w)
  <2>1. /\ row[t].status = "pending" /\ SetRow(t, r)
        /\ r.status = "claimed" /\ r.limit = row[t].limit /\ r.attempts = row[t].attempts + 1
        /\ HolderOf(r) = w
    BY <1>0, <1>1 DEF ClaimTask, Eligible, Claimed, Row, HolderOf, Active
  <2> HIDE DEF r
  <2>2. /\ St[t] = "pending" /\ St' = [St EXCEPT ![t] = "claimed"]
        /\ Ho' = [Ho EXCEPT ![t] = w] /\ Tries' = [Tries EXCEPT ![t] = Tries[t] + 1]
    BY <2>1, MapRow, MapAt
  <2>3. Lim' = Lim
    BY <2>1, MapKeep
  <2>4. LC!Claim(w, t)
    BY <2>2, <2>3 DEF LC!Claim, St, Ho, Tries, Lim
  <2> QED
    BY <2>4, LcNext DEF Step
<1>2. CASE Heartbeat(w, t)
  <2> DEFINE r == Beaten(row[t])
  <2>1. /\ r.status = Beating(row[t]) /\ r.claimedBy = row[t].claimedBy
        /\ r.attempts = row[t].attempts /\ r.limit = row[t].limit /\ SetRow(t, r)
    BY <1>0, <1>2 DEF Heartbeat, Beaten, Row
  <2> HIDE DEF r
  <2> QED
    BY <2>1, BeatenMaps
<1>3. CASE SetJiraURL(w, t)
  <2> DEFINE r == JiraLinked(row[t])
  <2>1. /\ r.status = row[t].status /\ r.claimedBy = row[t].claimedBy
        /\ r.attempts = row[t].attempts /\ r.limit = row[t].limit /\ SetRow(t, r)
    BY <1>0, <1>3 DEF SetJiraURL, JiraLinked, Row
  <2> HIDE DEF r
  <2> QED
    BY <2>1, MapSame DEF Step, HolderOf
<1>4. CASE OpenPR(w, t)
  <2> DEFINE r == PROpened(row[t])
  <2>1. /\ row[t].status = "in_progress" /\ HolderOf(row[t]) = w /\ SetRow(t, r)
        /\ r.status = "pr_opened" /\ r.limit = row[t].limit /\ r.attempts = row[t].attempts
        /\ HolderOf(r) = NULL
    BY <1>0, <1>4, <1>a DEF OpenPR, PROpened, Row, HolderOf, Active
  <2> HIDE DEF r
  <2>2. /\ St[t] = "in_progress" /\ Ho[t] = w /\ St' = [St EXCEPT ![t] = "pr_opened"]
        /\ Ho' = [Ho EXCEPT ![t] = NULL]
    BY <2>1, MapRow, MapAt
  <2>3. Tries' = Tries /\ Lim' = Lim
    BY <2>1, MapKeep
  <2>4. LC!Park(w, t)
    BY <2>2, <2>3 DEF LC!Park, St, Ho, Tries, Lim
  <2> QED
    BY <2>4, LcNext DEF Step
<1>5. ASSUME NEW n \in {w, NULL}, UpdateProgress(w, t, n)
      PROVE  Step
  <2> DEFINE r == Noted(row[t], n)
  <2>1. /\ r.status = Beating(row[t]) /\ r.claimedBy = row[t].claimedBy
        /\ r.attempts = row[t].attempts /\ r.limit = row[t].limit /\ SetRow(t, r)
    BY <1>0, <1>5 DEF UpdateProgress, Noted, Beaten, Row
  <2> HIDE DEF r
  <2> QED
    BY <2>1, BeatenMaps
<1>6. ASSUME NEW success \in BOOLEAN, ReportResult(w, t, success)
      PROVE  Step
  <2>1. CASE success
    <3> DEFINE r == Completed(row[t])
    <3>1. /\ row[t].status \in Active /\ HolderOf(row[t]) = w /\ SetRow(t, r)
          /\ r.status = "completed" /\ r.limit = row[t].limit /\ r.attempts = row[t].attempts
          /\ HolderOf(r) = NULL
      BY <1>0, <1>6, <1>a, <2>1 DEF ReportResult, Completed, Row, HolderOf, Active
    <3> HIDE DEF r
    <3>2. /\ St[t] \in Active /\ Ho[t] = w /\ St' = [St EXCEPT ![t] = "completed"]
          /\ Ho' = [Ho EXCEPT ![t] = NULL]
      BY <3>1, MapRow, MapAt
    <3>3. Tries' = Tries /\ Lim' = Lim
      BY <3>1, MapKeep
    <3>4. LC!Complete(w, t)
      BY <3>2, <3>3 DEF LC!Complete, LC!Held, LC!Active, Active, St, Ho, Tries, Lim
    <3> QED
      BY <3>4, LcNext DEF Step
  <2>2. CASE ~success
    <3>1. SetRow(t, Failed(row[t], "reported")) /\ row[t].status \in Active
      BY <1>6, <1>a, <2>2 DEF ReportResult
    <3>2. /\ row'[t] = Failed(row[t], "reported")
          /\ \A u \in Tasks \ {t} : row'[u] = row[u]
      BY <1>0, <3>1 DEF SetRow
    <3> DEFINE S == {t}
    <3>3. /\ S \in SUBSET Tasks /\ S # {}
          /\ \A u \in S : row[u].status \in Active /\ row'[u] = Failed(row[u], "reported")
          /\ \A u \in Tasks \ S : row'[u] = row[u]
      BY <3>1, <3>2
    <3> HIDE DEF S
    <3> QED
      BY <3>3, FailedMaps
  <2> QED
    BY <2>1, <2>2
<1> QED
  BY <1>1, <1>2, <1>3, <1>4, <1>5, <1>6 DEF WorkerNext, HolderNext

\* Of a log transaction the lifecycle sees the commit, as a start, or nothing.
LEMMA LogMaps ==
  ASSUME IInv, NEW c \in Conns, LogNext(c)
  PROVE  Step
<1>1. CASE LogCommit(c)
  <2> DEFINE t == tx[c].task
             r == LogBeaten(row[t], tx[c].age)
  <2>1. t \in Tasks /\ row[t] \in Row
    BY <1>1 DEF IInv, TypeOK, LogCommit
  <2>2. /\ r.status = Beating(row[t]) /\ r.claimedBy = row[t].claimedBy
        /\ r.attempts = row[t].attempts /\ r.limit = row[t].limit /\ SetRow(t, r)
    BY <1>1, <2>1 DEF LogCommit, LogBeaten, Row
  <2> HIDE DEF r, t
  <2> QED
    BY <2>1, <2>2, BeatenMaps
<1>2. CASE UNCHANGED row
  BY <1>2, MapUnchanged DEF Step
<1> QED
  BY <1>1, <1>2 DEF LogNext, LogBegin, LogCheck, LogInsert, LogAbort

\* A reaper pass is one lapse of all the rows it touches.
LEMMA ReapMaps == IInv /\ ReapStale => Step
<1> SUFFICES ASSUME IInv, ReapStale PROVE Step
  OBVIOUS
<1>1. /\ Stale \in SUBSET Tasks /\ Stale # {}
      /\ \A t \in Stale : row[t].status \in Active /\ row'[t] = Failed(row[t], "lease_expired")
      /\ \A t \in Tasks \ Stale : row'[t] = row[t]
  BY DEF ReapStale, Stale, Expired
<1> QED
  BY <1>1, FailedMaps

\* The passage of time is invisible.
LEMMA TickMaps == IInv /\ Tick => Step
<1> SUFFICES ASSUME IInv, Tick PROVE Step
  OBVIOUS
<1>1. \A t \in Tasks : /\ row'[t].status = row[t].status
                       /\ row'[t].claimedBy = row[t].claimedBy
                       /\ row'[t].attempts = row[t].attempts /\ row'[t].limit = row[t].limit
  <2>1. \A t \in Tasks : row[t] \in Row /\ row'[t] = Aged(row[t])
    BY DEF Tick, IInv, TypeOK
  <2>2. \A r \in Row : /\ Aged(r).status = r.status /\ Aged(r).claimedBy = r.claimedBy
                       /\ Aged(r).attempts = r.attempts /\ Aged(r).limit = r.limit
    BY DEF Aged, Row
  <2> QED
    BY <2>1, <2>2
<1> QED
  BY <1>1 DEF Step, Mapped, St, Ho, Tries, Lim, Held

\* Every step of the store is a lifecycle step or invisible.
LEMMA NextMaps == IInv /\ [Next]_vars => [LC!LifecycleNext]_(LC!lcVars)
<1> SUFFICES ASSUME IInv, [Next]_vars PROVE Step
  BY LcVars DEF Step, Mapped, LC!lcVars, St, Ho, Tries, Lim
<1>1. CASE UNCHANGED row
  BY <1>1, MapUnchanged DEF Step
<1> QED
  BY <1>1, OperatorMaps, WorkerMaps, LogMaps, ReapMaps, TickMaps DEF Next, Crash, vars

\* The initial state is an initial state of the lifecycle.
LEMMA InitMaps == Init => LC!LifecycleInit
<1> SUFFICES ASSUME Init PROVE LC!LifecycleInit
  OBVIOUS
<1>1. \A t \in Tasks : row[t] = Blank("unborn")
  BY DEF Init
<1>2. /\ St = [t \in Tasks |-> "unborn"] /\ Ho = [t \in Tasks |-> NULL]
      /\ Tries = [t \in Tasks |-> 0] /\ Lim = [t \in Tasks |-> 1]
  BY <1>1 DEF St, Ho, Tries, Lim, Held, Active, Blank
<1> QED
  BY <1>2 DEF LC!LifecycleInit, St, Ho, Tries, Lim

\* The store keeps the queue's promise: every step of every statement, log
\* transaction and reaper pass is a step of the task lifecycle, or invisible.
THEOREM Refinement == Spec => ImplementsLifecycle
BY InitMaps, NextMaps, Invariant, PTL DEF Spec, ImplementsLifecycle, LC!LifecycleSpec

\* A task the lifecycle's step is not about.
Same(t) == row'[t].status = row[t].status /\ row'[t].attempts = row[t].attempts

\* What the lifecycle's actions on one task say of the rows.
LEMMA OperatesSays ==
  ASSUME NEW u \in Tasks, LC!Operates(u), NEW t \in Tasks \ {u}
  PROVE  Same(t)
<1>1. ASSUME NEW v, St' = [St EXCEPT ![u] = v] PROVE row'[t].status = row[t].status
  <2>1. St'[t] = St[t]
    BY <1>1 DEF St
  <2> QED
    BY <2>1 DEF St
<1>2. ASSUME NEW v, Tries' = [Tries EXCEPT ![u] = v] PROVE row'[t].attempts = row[t].attempts
  <2>1. Tries'[t] = Tries[t]
    BY <1>2 DEF Tries
  <2> QED
    BY <2>1 DEF Tries
<1>3. St' = St => row'[t].status = row[t].status
  <2>1. ASSUME St' = St PROVE St'[t] = St[t]
    BY <2>1
  <2> QED
    BY <2>1 DEF St
<1>4. Tries' = Tries => row'[t].attempts = row[t].attempts
  <2>1. ASSUME Tries' = Tries PROVE Tries'[t] = Tries[t]
    BY <2>1
  <2> QED
    BY <2>1 DEF Tries
<1>5. ASSUME NEW m, LC!Submit(u, m) \/ LC!Edit(u, m) PROVE Same(t)
  <2>1. ((\E v : St' = [St EXCEPT ![u] = v]) \/ St' = St) /\ Tries' = Tries
    BY <1>5 DEF LC!Submit, LC!Edit, St, Tries
  <2> QED
    BY <2>1, <1>1, <1>3, <1>4 DEF Same
<1>6. ASSUME LC!Retry(u) \/ LC!Cancel(u) PROVE Same(t)
  <2>1. /\ \E v : St' = [St EXCEPT ![u] = v]
        /\ \E v : Tries' = [Tries EXCEPT ![u] = v]
    BY <1>6 DEF LC!Retry, LC!Cancel, St, Tries
  <2> QED
    BY <2>1, <1>1, <1>2 DEF Same
<1>7. ASSUME LC!Review(u) \/ \E outcome : LC!Finalize(u, outcome) PROVE Same(t)
  <2>1. (\E v : St' = [St EXCEPT ![u] = v]) /\ Tries' = Tries
    BY <1>7 DEF LC!Review, LC!Finalize, St, Tries
  <2> QED
    BY <2>1, <1>1, <1>4 DEF Same
<1> QED
  BY <1>5, <1>6, <1>7 DEF LC!Operates

LEMMA WorkSays ==
  ASSUME NEW u \in Tasks, NEW w \in Workers,
         LC!Claim(w, u) \/ LC!Start(u) \/ LC!Complete(w, u) \/ LC!Park(w, u)
  PROVE  /\ \A t \in Tasks \ {u} : Same(t)
         /\ \/ /\ row[u].status = "pending" /\ row'[u].status = "claimed"
               /\ row'[u].attempts = row[u].attempts + 1
            \/ /\ row[u].status = "claimed" /\ row'[u].status = "in_progress"
               /\ row'[u].attempts = row[u].attempts
            \/ /\ row[u].status \in Active /\ row'[u].status \in {"completed", "pr_opened"}
               /\ row'[u].attempts = row[u].attempts
<1>1. ASSUME NEW v, St' = [St EXCEPT ![u] = v]
      PROVE  row'[u].status = v /\ \A t \in Tasks \ {u} : row'[t].status = row[t].status
  <2>1. St'[u] = v /\ \A t \in Tasks \ {u} : St'[t] = St[t]
    BY <1>1 DEF St
  <2> QED
    BY <2>1 DEF St
<1>2. ASSUME Tries' = Tries PROVE \A t \in Tasks : row'[t].attempts = row[t].attempts
  <2>1. \A t \in Tasks : Tries'[t] = Tries[t]
    BY <1>2
  <2> QED
    BY <2>1 DEF Tries
<1>3. CASE LC!Claim(w, u)
  <2>1. /\ St[u] = "pending" /\ St' = [St EXCEPT ![u] = "claimed"]
        /\ Tries' = [Tries EXCEPT ![u] = Tries[u] + 1]
    BY <1>3 DEF LC!Claim, St, Tries
  <2>2. Tries'[u] = Tries[u] + 1 /\ \A t \in Tasks \ {u} : Tries'[t] = Tries[t]
    BY <2>1 DEF Tries
  <2>3. /\ row'[u].attempts = row[u].attempts + 1
        /\ \A t \in Tasks \ {u} : row'[t].attempts = row[t].attempts
    BY <2>2 DEF Tries
  <2>4. row[u].status = "pending"
    BY <2>1 DEF St
  <2> QED
    BY <1>1, <2>1, <2>3, <2>4 DEF Same
<1>4. CASE LC!Start(u)
  <2>1. St[u] = "claimed" /\ St' = [St EXCEPT ![u] = "in_progress"] /\ Tries' = Tries
    BY <1>4 DEF LC!Start, St, Tries
  <2>2. row[u].status = "claimed"
    BY <2>1 DEF St
  <2> QED
    BY <1>1, <1>2, <2>1, <2>2 DEF Same
<1>5. CASE LC!Complete(w, u) \/ LC!Park(w, u)
  <2>1. /\ St[u] \in Active /\ Tries' = Tries
        /\ \E s \in {"completed", "pr_opened"} : St' = [St EXCEPT ![u] = s]
    BY <1>5 DEF LC!Complete, LC!Park, LC!Held, LC!Active, Active, St, Tries
  <2>2. row[u].status \in Active
    BY <2>1 DEF St
  <2> QED
    BY <1>1, <1>2, <2>1, <2>2 DEF Same
<1> QED
  BY <1>3, <1>4, <1>5

LEMMA LapseSays ==
  ASSUME NEW S \in SUBSET Tasks, LC!Lapse(S)
  PROVE  /\ \A t \in Tasks \ S : Same(t)
         /\ \A t \in S : /\ row[t].status \in Active /\ row'[t].status \in {"failed", "pending"}
                         /\ row'[t].attempts = row[t].attempts
<1>1. /\ \A t \in S : St[t] \in Active
      /\ Tries' = Tries
      /\ \A t \in Tasks : St'[t] = IF t \notin S THEN St[t]
                                   ELSE IF LC!Exhausted(t) THEN "failed" ELSE "pending"
  BY DEF LC!Lapse, LC!Held, LC!Active, Active, St, Tries
<1>2. \A t \in Tasks : Tries'[t] = Tries[t]
  BY <1>1
<1>3. \A t \in Tasks : /\ St[t] = row[t].status /\ St'[t] = row'[t].status
                       /\ Tries[t] = row[t].attempts /\ Tries'[t] = row'[t].attempts
  BY DEF St, Tries
<1> QED
  BY <1>1, <1>2, <1>3 DEF Same

\* The lifecycle's measure, over the rows.
Left(t) ==
  IF row[t].status \in Active \union {"pending"}
  THEN 3 * (MaxLimit - row[t].attempts)
       + CASE row[t].status = "claimed" -> 2 [] row[t].status = "in_progress" -> 1 [] OTHER -> 0
  ELSE 0

LEMMA LeftIs ==
  ASSUME NEW t \in Tasks
  PROVE  LC!WorkLeft(t) = Left(t) /\ LC!WorkLeft(t)' = Left(t)'
BY DEF LC!WorkLeft, LC!Active, Left, Active

\* Its values.
LEMMA LeftValue ==
  ASSUME NEW t \in Tasks, RowOK(row[t])
  PROVE  /\ row[t].attempts \in Nat /\ MaxLimit \in Nat /\ row[t].attempts <= MaxLimit
         /\ row[t].status = "pending" =>
              row[t].attempts < MaxLimit /\ Left(t) = 3 * (MaxLimit - row[t].attempts)
         /\ row[t].status = "claimed"     => Left(t) = 3 * (MaxLimit - row[t].attempts) + 2
         /\ row[t].status = "in_progress" => Left(t) = 3 * (MaxLimit - row[t].attempts) + 1
         /\ row[t].status \notin Active \union {"pending"} => Left(t) = 0
BY Bounds DEF RowOK, Row, Left, Active

LEMMA LeftValueNext ==
  ASSUME NEW t \in Tasks, RowOK(row[t])'
  PROVE  /\ row'[t].status = "pending" => Left(t)' = 3 * (MaxLimit - row'[t].attempts)
         /\ row'[t].status = "claimed"     => Left(t)' = 3 * (MaxLimit - row'[t].attempts) + 2
         /\ row'[t].status = "in_progress" => Left(t)' = 3 * (MaxLimit - row'[t].attempts) + 1
         /\ row'[t].status \notin Active \union {"pending"} => Left(t)' = 0
BY Bounds DEF RowOK, Row, Left, Active

\* A lifecycle step, taken by the store, uses up work of the task it is about.
LEMMA StepRunsDown ==
  ASSUME IInv, IInv', LC!LifecycleNext, NEW t \in Tasks
  PROVE  LC!RunsDown(t)
<1>0. RowOK(row[t]) /\ RowOK(row[t])'
  BY DEF IInv
<1>1. ASSUME Same(t) PROVE LC!RunsDown(t)
  BY <1>1 DEF Same, LC!RunsDown
<1>2. ASSUME Left(t)' \in 0 .. Left(t) - 1 PROVE LC!RunsDown(t)
  BY <1>2, LeftIs DEF LC!RunsDown
<1>3. ASSUME NEW u \in Tasks, LC!Operates(u) PROVE LC!RunsDown(t)
  BY <1>1, <1>3, OperatesSays DEF LC!RunsDown
<1>4. ASSUME NEW u \in Tasks, NEW w \in Workers,
             LC!Claim(w, u) \/ LC!Start(u) \/ LC!Complete(w, u) \/ LC!Park(w, u)
      PROVE  LC!RunsDown(t)
  <2>1. CASE t # u
    BY <1>1, <1>4, <2>1, WorkSays
  <2>2. CASE t = u
    <3>1. \/ /\ row[t].status = "pending" /\ row'[t].status = "claimed"
             /\ row'[t].attempts = row[t].attempts + 1
          \/ /\ row[t].status = "claimed" /\ row'[t].status = "in_progress"
             /\ row'[t].attempts = row[t].attempts
          \/ /\ row[t].status \in Active /\ row'[t].status \notin Active \union {"pending"}
             /\ row'[t].attempts = row[t].attempts
      <4>1. {"completed", "pr_opened"} \intersect (Active \union {"pending"}) = {}
        BY DEF Active
      <4> QED
        BY <1>4, <2>2, <4>1, WorkSays
    <3>2. Left(t)' \in 0 .. Left(t) - 1
      BY <1>0, <3>1, LeftValue, LeftValueNext DEF Active
    <3> QED
      BY <1>2, <3>2
  <2> QED
    BY <2>1, <2>2
<1>5. ASSUME NEW S \in SUBSET Tasks, LC!Lapse(S) PROVE LC!RunsDown(t)
  <2>1. CASE t \notin S
    BY <1>1, <1>5, <2>1, LapseSays
  <2>2. CASE t \in S
    <3>1. /\ row[t].status \in Active /\ row'[t].attempts = row[t].attempts
          /\ row'[t].status = "pending" \/ row'[t].status \notin Active \union {"pending"}
      BY <1>5, <2>2, LapseSays DEF Active
    <3>2. Left(t)' \in 0 .. Left(t) - 1
      BY <1>0, <3>1, LeftValue, LeftValueNext DEF Active
    <3> QED
      BY <1>2, <3>2
  <2> QED
    BY <2>1, <2>2
<1>6. ASSUME NEW u \in Tasks, LC!Start(u) PROVE Workers # {}
  <2>1. St[u] \in Active
    BY <1>6 DEF LC!Start, St, Active
  <2> QED
    BY <2>1, Bounds DEF IInv, RowOK, Row, St
<1> QED
  BY <1>3, <1>4, <1>5, <1>6 DEF LC!LifecycleNext

\* No task is handed out and handed back for ever by the statements of the store:
\* between two operator calls, claims, reports, lapses and log transactions use up
\* a finite amount of work.
THEOREM StoreRunsOut == Spec => LC!WorkRunsOut
<1>1. IInv /\ IInv' /\ [Next]_vars => [\A t \in Tasks : LC!RunsDown(t)]_(LC!lcVars)
  BY NextMaps, StepRunsDown
<1> QED
  BY <1>1, Invariant, PTL DEF Spec, LC!WorkRunsOut

-----------------------------------------------------------------------------
(* Handing over *)

\* A statement that leaves every claim where it was, or takes it away.
NoNewHolder ==
  \A t \in Tasks : row'[t].status \in Active =>
    row[t].status \in Active /\ row'[t].claimedBy = row[t].claimedBy

\* Writing one row gives no task a new holder if the row written does not.
LEMMA WriteHolder ==
  ASSUME IInv, NEW t \in Tasks, NEW r, SetRow(t, r),
         r.status \in Active => row[t].status \in Active /\ r.claimedBy = row[t].claimedBy
  PROVE  NoNewHolder
BY DEF IInv, TypeOK, SetRow, NoNewHolder

\* Nothing but ClaimTask gives a task a holder.
LEMMA OnlyClaims ==
  ASSUME IInv, [Next]_vars,
         \A w \in Workers, t \in Tasks, d \in BOOLEAN : ~ClaimTask(w, t, d)
  PROVE  NoNewHolder
<1>0. row \in [Tasks -> Row] /\ \A t \in Tasks : row[t] \in Row
  BY DEF IInv, TypeOK
<1>1. ASSUME NEW t \in Tasks, OperatorNext(t) PROVE NoNewHolder
  <2>1. ASSUME NEW m \in Limits, NEW p \in Priorities, NEW d \in Delays, CreateTask(t, m, p, d)
        PROVE  NoNewHolder
    <3>1. Fresh(m, p, d).status \notin Active
      BY DEF Fresh, Blank, Active
    <3> QED
      BY <2>1, <3>1, WriteHolder DEF CreateTask
  <2>2. ASSUME NEW m \in Limits, NEW p \in Priorities, NEW d \in Delays, UpdateTask(t, m, p, d)
        PROVE  NoNewHolder
    <3>1. Edited(row[t], m, p, d).status \notin Active
      BY <1>0, <2>2 DEF UpdateTask, Edited, Row, Active
    <3> QED
      BY <2>2, <3>1, WriteHolder DEF UpdateTask
  <2>3. CASE RequeueTask(t)
    <3>1. Requeued(row[t]).status \notin Active
      BY <1>0 DEF Requeued, Row, Active
    <3> QED
      BY <2>3, <3>1, WriteHolder DEF RequeueTask
  <2>4. CASE DeleteTask(t)
    <3>1. Blank("deleted").status \notin Active
      BY DEF Blank, Active
    <3> QED
      BY <2>4, <3>1, WriteHolder DEF DeleteTask
  <2>5. CASE RequestReview(t)
    <3>1. [row[t] EXCEPT !.status = "review_requested"].status \notin Active
      BY <1>0 DEF Row, Active
    <3> QED
      BY <2>5, <3>1, WriteHolder DEF RequestReview
  <2>6. ASSUME NEW outcome \in Terminal, NEW e \in {"reported", NULL}, FinalizeTask(t, outcome, e)
        PROVE  NoNewHolder
    <3>1. Finalized(row[t], outcome, e).status \notin Active
      BY <1>0 DEF Finalized, Row, Active, Terminal
    <3> QED
      BY <2>6, <3>1, WriteHolder DEF FinalizeTask
  <2> QED
    BY <1>1, <2>1, <2>2, <2>3, <2>4, <2>5, <2>6 DEF OperatorNext
<1>2. ASSUME NEW w \in Workers, NEW t \in Tasks, WorkerNext(w, t) PROVE NoNewHolder
  <2>1. row[t].status \in Active /\ Calls(w, t)
    BY <1>2 DEF WorkerNext, HolderNext, Heartbeat, SetJiraURL, OpenPR, UpdateProgress, ReportResult,
                Calls, HeldBy, Held
  <2>2. CASE Heartbeat(w, t)
    <3>1. Beaten(row[t]).claimedBy = row[t].claimedBy
      BY <1>0 DEF Beaten, Row
    <3> QED
      BY <2>1, <2>2, <3>1, WriteHolder DEF Heartbeat
  <2>3. CASE SetJiraURL(w, t)
    <3>1. JiraLinked(row[t]).claimedBy = row[t].claimedBy
      BY <1>0 DEF JiraLinked, Row
    <3> QED
      BY <2>1, <2>3, <3>1, WriteHolder DEF SetJiraURL
  <2>4. CASE OpenPR(w, t)
    <3>1. PROpened(row[t]).status \notin Active
      BY <1>0 DEF PROpened, Row, Active
    <3> QED
      BY <2>4, <3>1, WriteHolder DEF OpenPR
  <2>5. ASSUME NEW n \in {w, NULL}, UpdateProgress(w, t, n) PROVE NoNewHolder
    <3>1. Noted(row[t], n).claimedBy = row[t].claimedBy
      BY <1>0 DEF Noted, Beaten, Row
    <3> QED
      BY <2>1, <2>5, <3>1, WriteHolder DEF UpdateProgress
  <2>6. ASSUME NEW success \in BOOLEAN, ReportResult(w, t, success) PROVE NoNewHolder
    <3> DEFINE r == IF success THEN Completed(row[t]) ELSE Failed(row[t], "reported")
    <3>1. r.status \notin Active
      BY <1>0 DEF Completed, Failed, Row, Active
    <3>2. SetRow(t, r)
      BY <2>6 DEF ReportResult
    <3> HIDE DEF r
    <3> QED
      BY <3>1, <3>2, WriteHolder
  <2> QED
    BY <1>2, <2>2, <2>3, <2>4, <2>5, <2>6 DEF WorkerNext, HolderNext
<1>3. ASSUME NEW c \in Conns, LogNext(c) PROVE NoNewHolder
  <2>1. CASE LogCommit(c)
    <3> DEFINE t == tx[c].task
               r == LogBeaten(row[t], tx[c].age)
    <3>1. t \in Tasks /\ SetRow(t, r)
      BY <2>1 DEF LogCommit, IInv, TypeOK
    <3>2. r.claimedBy = row[t].claimedBy /\ (r.status \in Active => row[t].status \in Active)
      BY <1>0, <3>1 DEF LogBeaten, Beating, Row, Active
    <3> HIDE DEF r, t
    <3> QED
      BY <3>1, <3>2, WriteHolder
  <2>2. CASE UNCHANGED row
    BY <2>2 DEF NoNewHolder
  <2> QED
    BY <1>3, <2>1, <2>2 DEF LogNext, LogBegin, LogCheck, LogInsert, LogAbort
<1>4. CASE ReapStale
  <2>1. \A t \in Tasks : Failed(row[t], "lease_expired").status \notin Active
    BY <1>0 DEF Failed, Row, Active
  <2> QED
    BY <1>4, <2>1 DEF ReapStale, NoNewHolder
<1>5. CASE Tick
  <2>1. \A t \in Tasks : /\ row'[t].status = row[t].status
                         /\ row'[t].claimedBy = row[t].claimedBy
    BY <1>0, <1>5 DEF Tick, Aged, Row
  <2> QED
    BY <2>1 DEF NoNewHolder
<1>6. CASE UNCHANGED row
  BY <1>6 DEF NoNewHolder
<1> QED
  BY <1>1, <1>2, <1>3, <1>4, <1>5, <1>6 DEF Next, vars, Crash

\* One step gives a task to a new holder only by a claim.
LEMMA HandoverStep ==
  ASSUME IInv, [Next]_vars, NEW t \in Tasks, row'[t].status \in Active,
         ~HeldBy(t, row'[t].claimedBy)
  PROVE  Eligible(t) /\ row'[t].attempts = row[t].attempts + 1
<1>0. row \in [Tasks -> Row] /\ \A u \in Tasks : row[u] \in Row
  BY DEF IInv, TypeOK
<1>1. ~NoNewHolder
  BY DEF NoNewHolder, HeldBy, Held
<1>2. PICK w \in Workers, u \in Tasks, d \in BOOLEAN : ClaimTask(w, u, d)
  BY <1>1, OnlyClaims
<1>3. Eligible(u) /\ SetRow(u, Claimed(row[u], w))
  BY <1>2 DEF ClaimTask
<1>4. u = t
  BY <1>0, <1>3 DEF SetRow, HeldBy, Held
<1> QED
  BY <1>0, <1>3, <1>4 DEF SetRow, Claimed, Row
=============================================================================
