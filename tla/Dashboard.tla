------------------------------ MODULE Dashboard ------------------------------
(***************************************************************************)
(* The views against the store they read. The dashboard and the page of an *)
(* agent are put together from separate statements, not one transaction,   *)
(* and the task list is read one page at a time. Every operation of        *)
(* TaskStore may come between two reads. One view is open at a time.       *)
(*                                                                         *)
(* claimed_at is not kept by TaskStore: which of several tasks of a worker *)
(* is the most recent is left open. The log lines, the counters and the    *)
(* idle and offline colours of a worker are left out.                      *)
(***************************************************************************)
EXTENDS TaskStore, Sequences, FiniteSets

\* Visibility is shorter than the hour after which a silent worker is hidden.
CONSTANTS
  RailLimit,    \* pending tasks a dashboard reads at most: 200
  RecentLimit,  \* tasks an agent's page reads at most: 10
  PageLimit     \* tasks on one page of the list

ASSUME DashboardAssumption ==
  /\ {RailLimit, RecentLimit, PageLimit} \subseteq Nat \ {0}
  /\ IsFiniteSet(Tasks) /\ NULL \notin Tasks

VARIABLES
  page,     \* the page being put together, or the last one shown
  steady    \* tasks the page began with and nothing has happened to that would
            \* excuse their absence from it

storeVars == vars      \* TaskStore's
viewVars == <<storeVars, page, steady>>

-----------------------------------------------------------------------------
Pending == {t \in Tasks : row[t].status = "pending"}
Present == {t \in Tasks : row[t].status \notin Absent}

\* Operators named Mutant... are what a slip in the code would make of the
\* definition that follows them; no specification uses them.
MutantUnsortedLessQueue(t, u) == row[t].created > row[u].created

\* Go's own copy of the order in which ClaimTask's SQL hands tasks out.
LessQueue(t, u) ==
  \/ row[t].priority > row[u].priority
  \/ row[t].priority = row[u].priority /\ row[t].created < row[u].created

MutantPriorityListOrder(t, u) == LessQueue(t, u)

\* ListTasks: ORDER BY created_at DESC
ListOrder(t, u) == row[t].created > row[u].created

\* Its LIMIT and OFFSET
Rank(S, t) == Cardinality({u \in S : ListOrder(u, t)})
Slice(S, offset, limit) == {t \in S : Rank(S, t) \in offset .. offset + limit - 1}

\* The limit of the dashboard cuts off the oldest.
Newest(S) == Slice(S, 0, RailLimit)

\* What ListTasks returns of the rows of its query. It does not look at rows.Err:
\* when the connection breaks off under the rows, those that had arrived are a
\* result like any other.
Arrived(rows) == {S \in SUBSET rows : \A t \in S, u \in rows : ListOrder(u, t) => u \in S}

\* The sequences a sort of S can return.
Listings(S) ==
  {s \in [1 .. Cardinality(S) -> S] : \A i, j \in DOMAIN s : i < j => LessQueue(s[i], s[j])}

MutantNullKnown == {row[t].claimedBy : t \in Tasks}

\* ListWorkers knows a worker by the rows that name it.
Known == {row[t].claimedBy : t \in Tasks} \ {NULL}

\* GetAgentDetail: any other worker is ErrAgentNotFound.
AgentFound(w) == w \in Known

\* A worker whose last heartbeat may be older than the hour. One with a live
\* lease is never hidden.
Silent(w) == \A t \in Tasks : HeldBy(t, w) => Expired(row[t])

Page ==
  [step    : {"none", "queue", "workers", "shown",
              "info", "current", "agent", "unknown", "list", "listed", "failed"},
   rail    : Seq(Tasks),
   prio    : Seq(Priorities),                     \* on the cards of the rail
   cut     : SUBSET Tasks,                        \* pending, beyond the limit
   listed  : SUBSET Workers,                      \* workers on the page
   current : [Workers -> Tasks \union {NULL}],
   seen    : SUBSET Tasks,                        \* tasks in a list
   offset  : Nat]

BlankPage(step) ==
  [step |-> step, rail |-> <<>>, prio |-> <<>>, cut |-> {}, listed |-> {},
   current |-> [w \in Workers |-> NULL], seen |-> {}, offset |-> 0]

\* A task whose place on the page is not in doubt: to be done, or being done
\* under a live lease.
Alive(t) ==
  \/ row[t].status = "pending"
  \/ Held(t) /\ ~Expired(row[t])

ViewInit ==
  /\ Init
  /\ page = BlankPage("none")
  /\ steady = {}

\* No view is being read.
Closed == page.step \in {"none", "shown", "agent", "unknown", "listed", "failed"}

-----------------------------------------------------------------------------
(* GetDashboard, statement by statement *)

ReadQueue ==
  /\ Closed
  /\ \E got \in Arrived(Newest(Pending)) :
       /\ \E rail \in Listings(got) :
            page' = [BlankPage("queue") EXCEPT
                       !.rail = rail,
                       !.prio = [i \in DOMAIN rail |-> row[rail[i]].priority],
                       !.cut  = Pending \ Newest(Pending)]
       /\ steady' = {t \in Tasks : Alive(t)} \ (Newest(Pending) \ got)
  /\ UNCHANGED storeVars

MutantInvertedReadWorkers ==
  /\ page.step = "queue"
  /\ page' = [page EXCEPT !.step = "workers", !.listed = {w \in Known : Silent(w)}]
  /\ UNCHANGED <<storeVars, steady>>

ReadWorkers ==
  /\ page.step = "queue"
  /\ \E hidden \in SUBSET {w \in Known : Silent(w)} :
       page' = [page EXCEPT !.step = "workers", !.listed = Known \ hidden]
  /\ UNCHANGED <<storeVars, steady>>

Holding(w) == {t \in Tasks : HeldBy(t, w)}

\* One task for each worker that holds any, shown if the worker was listed.
ReadCurrent ==
  /\ page.step = "workers"
  /\ \E c \in [Workers -> Tasks \union {NULL}] :
       /\ \A w \in Workers :
            IF w \in page.listed /\ Holding(w) # {} THEN c[w] \in Holding(w) ELSE c[w] = NULL
       /\ page' = [page EXCEPT !.step = "shown", !.current = c]
  /\ UNCHANGED <<storeVars, steady>>

\* An error of a statement, or under its rows (but see Arrived), is logged, and a
\* dashboard or a list without anything on it, or an error page, is served.
ReadFails ==
  /\ page.step # "failed"
  /\ page' = BlankPage("failed")
  /\ steady' = {}
  /\ UNCHANGED storeVars

-----------------------------------------------------------------------------
(* GetAgentDetail, statement by statement; the last, for log lines, is left out *)

WorkerInfo(w) ==
  /\ Closed
  /\ page' = IF AgentFound(w) THEN [BlankPage("info") EXCEPT !.listed = {w}] ELSE BlankPage("unknown")
  /\ steady' = {t \in Holding(w) : Alive(t)}
  /\ UNCHANGED storeVars

MutantStartedWorkerCurrentTask(w) ==
  LET held == {t \in Holding(w) : row[t].status = "in_progress"} IN
  /\ page.step = "info" /\ w \in page.listed
  /\ \E t \in IF held = {} THEN {NULL} ELSE held :
       page' = [page EXCEPT !.step = "current", !.current[w] = t]
  /\ UNCHANGED <<storeVars, steady>>

WorkerCurrentTask(w) ==
  /\ page.step = "info" /\ w \in page.listed
  /\ \E t \in IF Holding(w) = {} THEN {NULL} ELSE Holding(w) :
       page' = [page EXCEPT !.step = "current", !.current[w] = t]
  /\ UNCHANGED <<storeVars, steady>>

\* The most recent of the tasks that name the worker, finished ones too.
WorkerRecentTasks(w) ==
  LET named == {t \in Tasks : row[t].claimedBy = w}
      n     == Cardinality(named) IN
  /\ page.step = "current" /\ w \in page.listed
  /\ \E recent \in SUBSET named :
       /\ Cardinality(recent) = IF n < RecentLimit THEN n ELSE RecentLimit
       /\ page' = [page EXCEPT !.step = "agent", !.seen = recent]
  /\ UNCHANGED <<storeVars, steady>>

GetAgentDetail(w) == WorkerInfo(w) \/ WorkerCurrentTask(w) \/ WorkerRecentTasks(w)

-----------------------------------------------------------------------------
(* The task list, page after page. The web UI reads only the first; elpulpo    *)
(* and mastermind-mcp are given an offset.                                     *)

ListPage(offset) == Slice(Present, offset, PageLimit)

\* A page that is not full is the last; if its rows broke off, what is not before
\* it is no longer owed.
ListStep(seen, offset, owed) ==
  \E got \in Arrived(ListPage(offset)) :
    /\ page' = [BlankPage(IF Cardinality(got) < PageLimit THEN "listed" ELSE "list")
                  EXCEPT !.seen = seen \union got, !.offset = offset + PageLimit]
    /\ steady' = IF got = ListPage(offset) THEN owed
                 ELSE {t \in owed : Rank(Present, t) < offset}

TasksList ==
  /\ Closed
  /\ ListStep({}, 0, Present)
  /\ UNCHANGED storeVars

ListNext ==
  /\ page.step = "list"
  /\ ListStep(page.seen, page.offset, steady)
  /\ UNCHANGED storeVars

-----------------------------------------------------------------------------
\* Meanwhile the queue goes on.
StoreStep ==
  /\ Next
  /\ steady' = CASE page.step = "list" -> IF Present \subseteq Present' THEN steady ELSE {}
                  [] page.step = "listed" -> steady
                  [] OTHER -> {t \in steady : Alive(t)' /\ ~(Held(t) /\ row'[t].status = "pending")}
  /\ UNCHANGED page

ViewNext ==
  \/ ReadQueue \/ ReadWorkers \/ ReadCurrent \/ ReadFails
  \/ \E w \in Workers : GetAgentDetail(w)
  \/ TasksList \/ ListNext
  \/ StoreStep

ViewSpec == ViewInit /\ [][ViewNext]_viewVars

-----------------------------------------------------------------------------
(* Properties *)

\* A page is made of tasks and workers, and its rail is not longer than asked for.
PageOK ==
  /\ page \in Page
  /\ Len(page.rail) <= RailLimit
  /\ steady \subseteq Tasks

\* GetDashboard reads the queue first and the holders last, so a task that is
\* claimed while the page is put together does not fall between its parts: it
\* is on the rail, or beyond its limit, or its holder is shown busy. Only a queue
\* whose rows broke off lacks, without an error, those that had not arrived.
NothingVanishes ==
  page.step = "shown" =>
    \A t \in steady :
      \/ \E i \in DOMAIN page.rail : page.rail[i] = t
      \/ t \in page.cut
      \/ \E w \in page.listed : row[t].claimedBy = w /\ page.current[w] # NULL

\* The rail, sorted in Go when its page was read, stays in the order in which
\* ClaimTask's SQL tries the tasks: of two that wait, now or again, and whose
\* cards still show their priority, a claim comes to the upper one first, whatever
\* became of them meanwhile. (Which it takes is up to delays and locks: see
\* ClaimOrder.)
AsShown(i) == page.rail[i] \in Pending /\ row[page.rail[i]].priority = page.prio[i]

RailPredictsClaim ==
  \A i, j \in DOMAIN page.rail :
    i < j /\ AsShown(i) /\ AsShown(j) => Before(page.rail[i], page.rail[j])

\* GetAgentDetail: an agent that keeps a claim while its page is put together
\* is found, is shown busy, and the claim is among its recent tasks unless those
\* fill the page.
AgentPageWhole ==
  /\ page.step = "unknown" => steady = {}
  /\ page.step = "agent" =>
       \A t \in steady :
         /\ \A w \in page.listed : page.current[w] # NULL
         /\ t \in page.seen \/ Cardinality(page.seen) = RecentLimit

\* Whoever walks the whole list by offset sees every task that was there when the
\* walk began, however many are created, edited and worked on meanwhile; only a
\* deletion may make the walk skip one, or a page whose rows broke off end it. (A
\* list filtered by status has no such promise: tasks leave it when they are
\* worked on.)
ListMissesNothing == page.step = "listed" => steady \subseteq page.seen
=============================================================================
