----------------------------- MODULE TaskStore -----------------------------
(***************************************************************************)
(* Package store: the `tasks` and `task_logs` tables and every statement   *)
(* the mastermind runs on them for its gRPC, HTTP and MCP callers and for  *)
(* its reaper. Each method is one UPDATE, INSERT or DELETE and so one      *)
(* action, except AppendTaskLog, a READ COMMITTED transaction of three     *)
(* statements: its steps interleave with everything else. ClaimOrder takes *)
(* the statement of ClaimTask apart and says which row it finds.           *)
(*                                                                         *)
(* Time is relative. A row carries the AGE of last_heartbeat_at and the    *)
(* DELAY left until scheduled_for; Tick advances both. An age stops at     *)
(* Visibility + 1, where the lease has expired, and only the leases of     *)
(* active rows age: no statement compares any other. A scheduled_for in    *)
(* the past and a NULL one are both delay 0.                               *)
(*                                                                         *)
(* claimed_at is written and cleared with claimed_by in every statement    *)
(* and is not kept apart. name, payload, updated_at and the two link       *)
(* columns never decide anything and are left out; UpdateTaskLinks, which  *)
(* writes nothing else, has no action here.                                *)
(***************************************************************************)
EXTENDS Naturals

CONSTANTS
  Tasks,        \* task ids (UUIDs, never reused)
  Workers,      \* worker ids
  Conns,        \* database connections that run log transactions
  MaxLimit,     \* largest max_attempts a client asks for
  MaxPriority,  \* priorities are 0 .. MaxPriority
  MaxDelay,     \* furthest scheduled_for a client asks for, in ticks
  Visibility,   \* VISIBILITY_TIMEOUT, in ticks
  BackoffUnit,  \* the 30 seconds of linear backoff, in ticks
  NULL          \* SQL NULL

ASSUME StoreAssumption ==
  /\ MaxLimit \in Nat \ {0}
  /\ MaxPriority \in Nat /\ MaxDelay \in Nat
  /\ Visibility \in Nat /\ BackoffUnit \in Nat
  /\ NULL \notin Workers /\ NULL \notin Nat
  /\ NULL \notin {"reported", "lease_expired", "stamped"}

VARIABLES
  row,      \* [Tasks -> Row]: the tasks table
  logged,   \* the tasks that have rows in task_logs
  tx,       \* [Conns -> Transaction]: AppendTaskLog calls in progress
  births,   \* tasks created so far: the next created_at
  lost      \* active tasks whose holder does not know, or no longer knows

vars == <<row, logged, tx, births, lost>>

-----------------------------------------------------------------------------
(* Rows *)

Active   == {"claimed", "in_progress"}
Parked   == {"pr_opened", "review_requested"}
Terminal == {"completed", "failed"}
Settled  == Terminal \union {"pending"}   \* what an admin may retry or cancel
Absent   == {"unborn", "deleted"}         \* there is no such row (yet, any more)
Statuses == Absent \union Settled \union Active \union Parked

Limits     == 1 .. MaxLimit
Priorities == 0 .. MaxPriority
Delays     == 0 .. MaxDelay
Ages       == 0 .. Visibility + 1
Errors     == {"reported", "lease_expired"}

Row ==
  [status    : Statuses,
   claimedBy : Workers \union {NULL},
   age       : Ages \union {NULL},       \* of last_heartbeat_at
   delay     : Nat,                      \* until scheduled_for
   attempts  : Nat,
   limit     : Limits,                   \* max_attempts
   priority  : Priorities,
   created   : Nat,
   completed : {"stamped", NULL},        \* completed_at
   error     : Errors \union {NULL},     \* last_error
   note      : Workers \union {NULL}]    \* progress_note, known by its author

Blank(s) ==
  [status |-> s, claimedBy |-> NULL, age |-> NULL, delay |-> 0, attempts |-> 0,
   limit |-> 1, priority |-> 0, created |-> 0, completed |-> NULL,
   error |-> NULL, note |-> NULL]

\* Operators named Mutant... are what a slip in the code would make of the
\* definition that follows them; no specification uses them.
Held(t)      == row[t].status \in Active

MutantAnyHeldBy(t, w) == Held(t)
HeldBy(t, w) == Held(t) /\ row[t].claimedBy = w

MutantInProgressExpired(r) == r.status = "in_progress" /\ r.age # NULL /\ r.age > Visibility
Expired(r)   == r.status \in Active /\ r.age # NULL /\ r.age > Visibility

MutantLateExhausted(r) == r.attempts > r.limit
Exhausted(r) == r.attempts >= r.limit

MutantReopenBeating(r) == "in_progress"
Beating(r)   == IF r.status = "claimed" THEN "in_progress" ELSE r.status

-----------------------------------------------------------------------------
(* What each statement SETs in the row it matches *)

MutantNoDefaultFresh(m, p, d) ==
  [Blank("pending") EXCEPT !.limit = 0, !.priority = p, !.delay = d, !.created = births]
Fresh(m, p, d) ==
  [Blank("pending") EXCEPT !.limit = m, !.priority = p, !.delay = d, !.created = births]

Edited(r, m, p, d) == [r EXCEPT !.limit = m, !.priority = p, !.delay = d]

MutantStampedRequeued(r) ==
  [r EXCEPT !.status = "pending", !.claimedBy = NULL, !.age = NULL,
            !.error = NULL, !.note = NULL, !.attempts = 0, !.delay = 0]
Requeued(r) ==
  [r EXCEPT !.status = "pending", !.claimedBy = NULL, !.age = NULL,
            !.completed = NULL, !.error = NULL, !.note = NULL,
            !.attempts = 0, !.delay = 0]

MutantNotedClaimed(r, w) ==
  [r EXCEPT !.status = "claimed", !.claimedBy = w, !.age = 0, !.attempts = @ + 1]
Claimed(r, w) ==
  [r EXCEPT !.status = "claimed", !.claimedBy = w, !.age = 0, !.note = NULL,
            !.attempts = @ + 1]

Beaten(r) == [r EXCEPT !.age = 0, !.status = Beating(r)]

Noted(r, n) == [Beaten(r) EXCEPT !.note = n]

JiraLinked(r) == [r EXCEPT !.age = 0]

Completed(r) == [r EXCEPT !.status = "completed", !.completed = "stamped", !.error = NULL]

MutantEndlessFailed(r, e) ==
  [r EXCEPT !.status = "pending", !.delay = r.attempts * BackoffUnit,
            !.claimedBy = NULL, !.age = NULL, !.error = e]

\* A failure report and an expired lease share their SET clauses. An exhausted
\* row keeps its claim columns.
Failed(r, e) ==
  IF Exhausted(r)
  THEN [r EXCEPT !.status = "failed", !.error = e]
  ELSE [r EXCEPT !.status = "pending", !.delay = r.attempts * BackoffUnit,
                 !.claimedBy = NULL, !.age = NULL, !.error = e]

MutantHeldPROpened(r) == [r EXCEPT !.status = "pr_opened"]
PROpened(r) == [r EXCEPT !.status = "pr_opened", !.claimedBy = NULL, !.age = NULL]

Finalized(r, outcome, e) ==
  [r EXCEPT !.status = outcome,
            !.completed = IF outcome = "completed" THEN "stamped" ELSE @,
            !.error = IF e = NULL THEN @ ELSE e]

\* The transaction's now() is its start, a ticks ago.
LogBeaten(r, a) == [r EXCEPT !.age = a, !.status = Beating(r)]

\* One tick of the clock.
Aged(r) ==
  [r EXCEPT !.delay = IF @ > 0 THEN @ - 1 ELSE 0,
            !.age = IF r.status \in Active /\ @ # NULL /\ @ <= Visibility
                    THEN @ + 1 ELSE @]

-----------------------------------------------------------------------------
(* The log transaction of a connection *)

Transaction ==
  [step   : {"idle", "begun", "checked", "inserted"},
   worker : Workers \union {NULL},
   task   : Tasks \union {NULL},
   age    : Ages]                 \* ticks since BEGIN

NoTx == [step |-> "idle", worker |-> NULL, task |-> NULL, age |-> 0]

MutantUnlockedKeyShared(t) == FALSE

\* The foreign key of an uncommitted task_logs row holds FOR KEY SHARE on its
\* task: DELETE waits for it, FOR UPDATE SKIP LOCKED passes over it, and an
\* UPDATE of other columns is not hindered.
KeyShared(t) == \E c \in Conns : tx[c].step = "inserted" /\ tx[c].task = t

-----------------------------------------------------------------------------
Init ==
  /\ row = [t \in Tasks |-> Blank("unborn")]
  /\ logged = {}
  /\ tx = [c \in Conns |-> NoTx]
  /\ births = 0
  /\ lost = {}

SetRow(t, r) == row' = [row EXCEPT ![t] = r]

(* Operators: CLI, admin UI and mastermind-mcp *)

CreateTask(t, m, p, d) ==
  /\ row[t].status = "unborn"
  /\ SetRow(t, Fresh(m, p, d))
  /\ births' = births + 1
  /\ UNCHANGED <<logged, tx, lost>>

UpdateTask(t, m, p, d) ==
  /\ row[t].status = "pending"
  /\ SetRow(t, Edited(row[t], m, p, d))
  /\ UNCHANGED <<logged, tx, births, lost>>

MutantParkedRequeueTask(t) ==
  /\ row[t].status \in Settled \union Parked
  /\ SetRow(t, Requeued(row[t]))
  /\ UNCHANGED <<logged, tx, births, lost>>

RequeueTask(t) ==
  /\ row[t].status \in Settled
  /\ SetRow(t, Requeued(row[t]))
  /\ UNCHANGED <<logged, tx, births, lost>>

\* ON DELETE CASCADE takes the log along.
DeleteTask(t) ==
  /\ row[t].status \in Settled
  /\ ~KeyShared(t)
  /\ SetRow(t, Blank("deleted"))
  /\ logged' = logged \ {t}
  /\ UNCHANGED <<tx, births, lost>>

RequestReview(t) ==
  /\ row[t].status = "pr_opened"
  /\ SetRow(t, [row[t] EXCEPT !.status = "review_requested"])
  /\ UNCHANGED <<logged, tx, births, lost>>

\* Only a failure carries a message, and it may be empty: stored as NULL.
FinalizeTask(t, outcome, e) ==
  /\ row[t].status \in Parked
  /\ outcome \in Terminal
  /\ e \in IF outcome = "failed" THEN {"reported", NULL} ELSE {NULL}
  /\ SetRow(t, Finalized(row[t], outcome, e))
  /\ UNCHANGED <<logged, tx, births, lost>>

-----------------------------------------------------------------------------
(* Workers. A call of a worker that does not hold the task matches no row;  *)
(* a holder that lost track of its claim makes no further call on it.       *)

MutantUnscheduledEligible(t) == row[t].status = "pending" /\ row[t].attempts = 0 /\ ~KeyShared(t)
\* What the sub-select of a claim may return.
Eligible(t) == row[t].status = "pending" /\ row[t].delay = 0 /\ ~KeyShared(t)

\* ORDER BY priority DESC, created_at ASC
Before(t, u) ==
  \/ row[t].priority > row[u].priority
  \/ row[t].priority = row[u].priority /\ row[t].created < row[u].created

\* SKIP LOCKED passes over every row that a statement under way has locked, and
\* such statements are one step here: any eligible row may be the first that is
\* not locked. The reply may never reach the worker.
ClaimTask(w, t, delivered) ==
  /\ Eligible(t)
  /\ SetRow(t, Claimed(row[t], w))
  /\ lost' = IF delivered THEN lost ELSE lost \union {t}
  /\ UNCHANGED <<logged, tx, births>>

Calls(w, t) == HeldBy(t, w) /\ t \notin lost

Heartbeat(w, t) ==
  /\ Calls(w, t)
  /\ SetRow(t, Beaten(row[t]))
  /\ UNCHANGED <<logged, tx, births, lost>>

UpdateProgress(w, t, n) ==
  /\ Calls(w, t)
  /\ SetRow(t, Noted(row[t], n))
  /\ UNCHANGED <<logged, tx, births, lost>>

SetJiraURL(w, t) ==
  /\ Calls(w, t)
  /\ SetRow(t, JiraLinked(row[t]))
  /\ UNCHANGED <<logged, tx, births, lost>>

MutantEarlyOpenPR(w, t) ==
  /\ Calls(w, t)
  /\ SetRow(t, PROpened(row[t]))
  /\ UNCHANGED <<logged, tx, births, lost>>

OpenPR(w, t) ==
  /\ Calls(w, t) /\ row[t].status = "in_progress"
  /\ SetRow(t, PROpened(row[t]))
  /\ UNCHANGED <<logged, tx, births, lost>>

ReportResult(w, t, success) ==
  /\ Calls(w, t)
  /\ SetRow(t, IF success THEN Completed(row[t]) ELSE Failed(row[t], "reported"))
  /\ UNCHANGED <<logged, tx, births, lost>>

\* A worker process dies, or forgets its claims at shutdown.
Crash(w) ==
  /\ lost' = lost \union {t \in Tasks : HeldBy(t, w)}
  /\ UNCHANGED <<row, logged, tx, births>>

-----------------------------------------------------------------------------
(* AppendTaskLog, statement by statement. Any worker may call it for any     *)
(* task it ever heard of.                                                    *)

SetTx(c, s) == tx' = [tx EXCEPT ![c] = s]

LogBegin(c, w, t) ==
  /\ tx[c].step = "idle"
  /\ row[t].status # "unborn"
  /\ HeldBy(t, w) => t \notin lost
  /\ SetTx(c, [step |-> "begun", worker |-> w, task |-> t, age |-> 0])
  /\ UNCHANGED <<row, logged, births, lost>>

MutantUncheckedLogCheck(c) ==
  /\ tx[c].step = "begun"
  /\ SetTx(c, [tx[c] EXCEPT !.step = "checked"])
  /\ UNCHANGED <<row, logged, births, lost>>

\* A plain SELECT: it sees the last committed row and locks nothing.
LogCheck(c) ==
  /\ tx[c].step = "begun"
  /\ SetTx(c, IF HeldBy(tx[c].task, tx[c].worker)
              THEN [tx[c] EXCEPT !.step = "checked"] ELSE NoTx)
  /\ UNCHANGED <<row, logged, births, lost>>

\* The foreign key rejects an entry for a task deleted since.
LogInsert(c) ==
  /\ tx[c].step = "checked"
  /\ SetTx(c, IF row[tx[c].task].status \in Absent
              THEN NoTx ELSE [tx[c] EXCEPT !.step = "inserted"])
  /\ UNCHANGED <<row, logged, births, lost>>

\* The UPDATE matches by id alone; it and COMMIT are one step because its row
\* lock makes every other writer of the row wait for the COMMIT.
LogCommit(c) ==
  LET t == tx[c].task IN
  /\ tx[c].step = "inserted"
  /\ SetRow(t, LogBeaten(row[t], tx[c].age))
  /\ logged' = logged \union {t}
  /\ SetTx(c, NoTx)
  /\ UNCHANGED <<births, lost>>

\* The caller's context ends or the connection breaks: rollback.
LogAbort(c) ==
  /\ tx[c].step # "idle"
  /\ SetTx(c, NoTx)
  /\ UNCHANGED <<row, logged, births, lost>>

-----------------------------------------------------------------------------
(* The reaper and the clock *)

MutantEarlyStale == {t \in Tasks : Held(t) /\ row[t].age >= Visibility}
Stale == {t \in Tasks : Expired(row[t])}

\* One UPDATE over all rows whose lease expired.
ReapStale ==
  /\ Stale # {}
  /\ row' = [t \in Tasks |-> IF t \in Stale THEN Failed(row[t], "lease_expired") ELSE row[t]]
  /\ lost' = lost \ Stale
  /\ UNCHANGED <<logged, tx, births>>

Tick ==
  /\ row' = [t \in Tasks |-> Aged(row[t])]
  /\ tx' = [c \in Conns |->
              IF tx[c].step # "idle" /\ tx[c].age <= Visibility
              THEN [tx[c] EXCEPT !.age = @ + 1] ELSE tx[c]]
  /\ UNCHANGED <<logged, births, lost>>

-----------------------------------------------------------------------------
OperatorNext(t) ==
  \/ \E m \in Limits, p \in Priorities, d \in Delays : CreateTask(t, m, p, d) \/ UpdateTask(t, m, p, d)
  \/ RequeueTask(t) \/ DeleteTask(t) \/ RequestReview(t)
  \/ \E outcome \in Terminal, e \in {"reported", NULL} : FinalizeTask(t, outcome, e)

HolderNext(w, t) ==
  \/ Heartbeat(w, t) \/ SetJiraURL(w, t) \/ OpenPR(w, t)
  \/ \E n \in {w, NULL} : UpdateProgress(w, t, n)
  \/ \E success \in BOOLEAN : ReportResult(w, t, success)

WorkerNext(w, t) ==
  \/ \E delivered \in BOOLEAN : ClaimTask(w, t, delivered)
  \/ HolderNext(w, t)

LogNext(c) ==
  \/ \E w \in Workers, t \in Tasks : LogBegin(c, w, t)
  \/ LogCheck(c) \/ LogInsert(c) \/ LogCommit(c) \/ LogAbort(c)

Next ==
  \/ \E t \in Tasks : OperatorNext(t)
  \/ \E w \in Workers : Crash(w) \/ \E t \in Tasks : WorkerNext(w, t)
  \/ \E c \in Conns : LogNext(c)
  \/ ReapStale \/ Tick

Spec == Init /\ [][Next]_vars

-----------------------------------------------------------------------------
(* Properties *)

\* Every column stays in its domain, and a running log transaction names its
\* caller and its task.
TypeOK ==
  /\ row \in [Tasks -> Row]
  /\ logged \subseteq Tasks
  /\ tx \in [Conns -> Transaction]
  /\ \A c \in Conns : tx[c].step # "idle" => tx[c].task \in Tasks
  /\ births \in Nat
  /\ lost \subseteq Tasks

\* Lease columns and status agree: an active row has a holder and a heartbeat,
\* without which ReapStale's comparison would be NULL and never match it; a
\* row that is pending or parked has no holder, so no late worker call does.
LeaseIntegrity ==
  \A t \in Tasks :
    /\ Held(t) => row[t].claimedBy # NULL /\ row[t].age # NULL
    /\ row[t].status \in Absent \union Parked \union {"pending"} => row[t].claimedBy = NULL
    /\ t \in lost => Held(t)

\* completed_at is set exactly on completed tasks, through every path into and
\* out of completion: ReportResult, FinalizeTask, RequeueTask.
CompletionStamp ==
  \A t \in Tasks : row[t].completed # NULL <=> row[t].status = "completed"

\* The progress note shown with an active task was written by its holder: a
\* note does not survive into the next claim, whatever path led there.
NoteIsHolders ==
  \A t \in Tasks : Held(t) /\ row[t].note # NULL => row[t].note = row[t].claimedBy

\* Edits of max_attempts between attempts, requeues and lapses together never
\* let a task be handed out more often than the largest budget allows.
AttemptBudget ==
  \A t \in Tasks :
    /\ row[t].attempts <= MaxLimit
    /\ row[t].status = "pending" => row[t].attempts < MaxLimit

\* A task under an uncommitted log entry cannot disappear, and no log outlives
\* its task (foreign key of task_logs, ON DELETE CASCADE).
LogsHaveTask ==
  \A t \in Tasks : t \in logged \/ KeyShared(t) => row[t].status \notin Absent

\* A claim whose holder went silent ends only by the expiry of its lease: no
\* operator call, foreign worker or early reaper pass takes it away.
SilentClaimEndsByExpiry ==
  [][\A t \in lost : ~Held(t)' => Expired(row[t])]_vars

\* Log transactions that may still write to the row of a task as it is held now.
MayWrite(t) ==
  {c \in Conns :
     /\ tx[c].task = t
     /\ \/ tx[c].step \in {"checked", "inserted"}
        \/ tx[c].step = "begun" /\ HeldBy(t, tx[c].worker)}

\* The lease of a silent holder runs down: the clock ages it until it is expired,
\* nobody renews it, and only a log transaction that was under way can put
\* last_heartbeat_at back, at most once each; no such transaction is added.
SilentLeaseRunsDown ==
  [][\A t \in lost : t \in lost' =>
       /\ Tick => row'[t].age > row[t].age \/ Expired(row[t])
       /\ MayWrite(t)' \subseteq MayWrite(t)
       /\ row'[t].age < row[t].age => MayWrite(t)' # MayWrite(t)]_vars

\* A parked task is the operators' alone: it is never handed out or re-queued,
\* no attempt is charged and it gains no holder, also when a log transaction
\* from before OpenPR commits late.
ParkedStays ==
  [][\A t \in Tasks : row[t].status \in Parked =>
       /\ row'[t].status \in Parked \union Terminal
       /\ row'[t].attempts = row[t].attempts
       /\ row'[t].claimedBy = NULL]_vars

\* A finished task is reopened by RequeueTask alone, with a fresh budget.
TerminalStays ==
  [][\A t \in Tasks : row[t].status \in Terminal =>
       \/ row'[t].status \in {row[t].status, "deleted"}
       \/ row'[t].status = "pending" /\ row'[t].attempts = 0]_vars

\* What the queue promises.
LC == INSTANCE TaskLifecycle WITH
        status   <- [t \in Tasks |-> row[t].status],
        holder   <- [t \in Tasks |-> IF Held(t) THEN row[t].claimedBy ELSE NULL],
        attempts <- [t \in Tasks |-> row[t].attempts],
        limit    <- [t \in Tasks |-> row[t].limit]

\* Every step of the store is a lifecycle step or invisible, under interleaved
\* log transactions and multi-row reaps: no column but status, holder, attempts
\* and budget decides what may happen next. These are the transitions the
\* UPDATEs make; the matrix in transitions.go is narrower, see MatrixFollowed.
ImplementsLifecycle == LC!LifecycleSpec

-----------------------------------------------------------------------------
(* What comments and design documents say, and the code does not do *)

\* store/logs.go: a reaped or stolen claim cannot continue writing into the
\* log. Here: an entry is committed only while its author holds the task.
LogGated ==
  [][\A c \in Conns : LogCommit(c) => HeldBy(tx[c].task, tx[c].worker)]_vars

\* transitions.go: the states each transition may start from
AllowedFrom ==
  [open_pr        |-> {"in_progress"},
   set_jira_url   |-> {"claimed", "in_progress"},
   complete       |-> {"in_progress"},
   fail           |-> {"in_progress"},
   request_review |-> {"pr_opened"},
   finalize       |-> {"pr_opened", "review_requested"},
   retry          |-> {"pending", "completed", "failed"}]

\* store/transitions.go: every conditional UPDATE consults this map. ReportResult
\* does not: it also ends a task that is still claimed.
MatrixFollowed ==
  [][\A t \in Tasks :
       LET From(action) == row[t].status \in AllowedFrom[action] IN
       /\ \A w \in Workers :
            /\ OpenPR(w, t) => From("open_pr")
            /\ SetJiraURL(w, t) => From("set_jira_url")
            /\ ReportResult(w, t, TRUE) => From("complete")
            /\ ReportResult(w, t, FALSE) => From("fail")
       /\ RequestReview(t) => From("request_review")
       /\ \A outcome \in Terminal, e \in {"reported", NULL} :
            FinalizeTask(t, outcome, e) => From("finalize")
       /\ RequeueTask(t) => From("retry")]_vars
=============================================================================
