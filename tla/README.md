# Verification of el-pulpo-ai

el-pulpo-ai is a task queue on Postgres. A *mastermind* owns the `tasks` and
`task_logs` tables and hands tasks out over gRPC; a *worker* exposes the task
it holds to a coding agent as MCP tools; operators create, edit, retry, cancel,
review and finalise tasks through a web UI, a CLI or an MCP server. This
directory holds TLA+ models of it, the TLC configurations that check them and
the TLAPS proofs about them. Paths below are relative to the repository.

## The system

| Component | State it keeps | Operations | Talks to |
|---|---|---|---|
| store (`internal/mastermind/store`) | rows of `tasks`, `task_logs` | one conditional statement per method, `AppendTaskLog` one transaction of three | Postgres, READ COMMITTED |
| reaper (`internal/mastermind/reaper`) | a ticker | `ReapStale` over all expired leases | store |
| gRPC services (`grpcserver`) | none | argument checks, one store call, error code, counters; two calls read the task again after changing it | store, metrics |
| web UI (`httpserver`) | none; the browser holds filled-in forms | list, create, edit, links, requeue, delete, review, finalise; dashboard and agent pages made of several reads | store |
| metrics | counters, one gauge | incremented by the gRPC handlers and the reaper | |
| worker bridge (`internal/worker/mcpserver`, `taskclient`) | `State.current`, `Task.finalized`, heartbeat goroutine | `claim_next_task`, progress, log, Jira URL, `open_pr`, `complete_task`, `fail_task` | mastermind over gRPC |
| runner, demo | one `Task` at a time | poll, work, report; seeder | mastermind over gRPC |
| CLI, mastermind-mcp | none | one AdminService call each | mastermind over gRPC |
| auth, config, issuerefs | none | header, environment and URL checks | |

What is hard in it:

* every worker call races the reaper, other workers and operators; only the
  guard of the one UPDATE protects the row;
* `AppendTaskLog` checks the holder with a plain SELECT and writes later, by id
  alone, with the time its transaction began;
* a worker may die, a request or a reply may be lost: the claim then exists
  only in the table;
* tool calls of an agent run concurrently and take `State.mu` for single steps,
  never across an RPC; handles are marked finalized before the RPC that may
  fail; heartbeats already sent arrive late;
* lease columns outlive the status they belong to (an exhausted row keeps
  `claimed_by` and `last_heartbeat_at`), budgets may be edited between attempts;
* forms are filled from one read and written back whole, any time later;
  dashboard pages are made of several reads, lists are walked page by page, with
  anything in between;
* a handler explains a refusal by a second statement, reads back what it
  changed, counts after the commit; any of these may be overtaken or fail, and
  the client may be gone;
* a polling worker reports once and goes on, and restarts under its old id;
* a signal may find the process anywhere: starting, in a statement, out of
  connections, with a handler that waits for its client.

What makes it correct: a task is held by one worker at a time and only after a
claim; the claim of a silent holder ends, but only by expiry; parked and
finished tasks are left alone; the budget bounds the attempts; columns agree
with the status; a worker process forgets no claim and keeps alive only the
task it works on; what was handed to a worker does not change under its hands;
a page leaves out no task that was there all the time; a reply means what its
code says; every end is counted once; every task is finished; and the process
ends when told to, with its calls answered. `PROJECT.json` lists the hazards at
their lines with the properties that watch them.

## Modules

**TaskLifecycle** is the abstract contract: `status`, `holder`, `attempts`,
`limit` per task, one action per transition (`Submit`, `Edit`, `Retry`,
`Cancel`, `Review`, `Finalize`, `Claim`, `Start`, `Complete`, `Park`,
`Lapse(S)`). Its transitions are those the UPDATEs make; the documented matrix
is narrower, see Findings. `Lapse` ends the claims of a set of tasks at once, as
one reaper statement does. `Start` names no caller, because the code lets a log
call of an earlier holder start the next one's task.

**TaskStore** is package `store` with the columns that decide something. A row
is a record; each statement's SET clause is an operator on rows (`Claimed`,
`Failed`, `Requeued`, ...), each method an action with the WHERE clause as its
guard: a call that matches no row changes nothing and is a stutter.

| Action | Code |
|---|---|
| `CreateTask`, `UpdateTask`, `RequeueTask`, `DeleteTask` | `store/tasks.go` |
| `RequestReview`, `FinalizeTask` | `store/finalize.go` |
| `ClaimTask(w, t, delivered)` | `store/claim.go`; guarded by `Eligible`, the WHERE clause of the sub-select: as every row may be locked by someone, any eligible task may be the one; which one it is, is in ClaimOrder; `delivered` is whether the reply arrives |
| `Heartbeat`, `UpdateProgress`, `ReportResult` | `store/lifecycle.go` |
| `SetJiraURL`, `OpenPR` | `store/jira.go`, `store/open_pr.go` |
| `LogBegin`, `LogCheck`, `LogInsert`, `LogCommit`, `LogAbort` | `store/logs.go`, one connection each |
| `ReapStale` | `store/lifecycle.go`, called by `reaper.Run` |
| `Crash(w)` | a worker that dies, or `State.Release` |
| `Tick` | the clock |

Abstractions. Time is relative: `age` of `last_heartbeat_at`, `delay` until
`scheduled_for`; an age stops one past the visibility timeout. `claimed_at`
always changes with `claimed_by`. A progress note is known by its author. The
variable `lost` is history: the active tasks whose holder does not know of its
claim; a holder that lost track makes no more calls on it. `name`, `payload`,
`updated_at` and the links decide nothing; `UpdateTaskLinks` writes nothing else
and is left to AdminForms. LogCommit joins the UPDATE by id with COMMIT, because
between the two the row lock makes every other writer wait. The foreign key of
the uncommitted log row is `KeyShared`: it blocks DELETE, makes SKIP LOCKED pass
over the row, and does not hinder an UPDATE of other columns.

**ClaimOrder** extends TaskStore, whole, with the statement of `ClaimTask` taken
apart. `scan` holds the claims under way: `Begin` takes the snapshot and sorts
it (`Before`), `PassOver` and `Pick` go down it with FOR UPDATE SKIP LOCKED and
look at the WHERE clause again, as READ COMMITTED does, `Commit` is the UPDATE by
id, `Nothing` the answer that there is no task, `Abort` a rollback. `Lock` and
`Unlock` are the other statements that lock rows: a row is released by the write
TaskStore has for it (`Writer`), or without one when the statement is rolled back
or is `UpdateTaskLinks`. A log transaction keeps its key-share lock over several
steps (`LogStatement`). `calm` is history: the tasks nobody else has locked or
written since a claim began. A claim waits for nothing, so the clock waits for
the claims under way.

**WorkerBridge** is one worker process over TaskLifecycle: `current` is
`State.current`, `handle` the `taskclient.Task` objects, `call` the tool calls
as threads with a program counter, `beats` the heartbeat requests under way.
`ClaimCheck`, `ClaimRPC`, `ClaimNothing`, `Install` are `ClaimNext` step by
step; `Require`, `MarkFinalized`, `Succeed` / `Reject` / `Lose`, `Clear` are
the path of every other tool call; the goroutine that drops the loser of a
claim race takes the place of its call. Rivals and expiry act at any time. The
variable `leaked` is history: claims of this process it cannot know about.

**Runner** extends TaskStore, whole, with polling workers (`worker/runner` and
`demo worker`, which have the same loop) and the demo seeder; each of its
actions is an action of the store with a step of a loop, or leaves the store
alone. `proc` is what a worker's loop is doing and which claim, task and
attempt, it was handed: `Claim`, `ClaimUnheard`, `ClaimNothing`, `Wake` are one
round of `Runner.Run`, `Beat`, `Note`, `AppendLog`, `HandlerReturns` the work,
`Report` and `ReportUnsent` the one report of `runOne`, `Stop` and `Start` a
signal or crash and the restart by docker-compose. `SeederTick` and `SeedOne`
are `runSeeder`; `SeedPayload` are the keys of the payload it sends and
`Accepted` is `validateCreateInput`. A call is one step: its request is lost, or
it takes effect and its reply is delivered or lost. That a worker is told there
is no task while all that are due are locked counts as a fault, as a lost
request does.

**Services** is everything between a client and the lifecycle: the commands of
elpulpo (`RunTasks...`), the tools of mastermind-mcp (`Tool...`) and the worker
stubs, the policy table and the interceptor (`Policy`, `Admitted`), the handlers
of both services under their own names, and the counters. `call` holds where
every call is that may be under way (`Admins`, `WorkerCalls`). A worker id is
part of a request (`by`), so that heartbeats and tool calls of one worker, or
two processes under one id, overlap as they like. A call is with its handler, at
the read that explains a refusal (`Classify`), at the second statement
(`Reread`, `ReadLogs`, `InsertLog`), about to count, or answered. `WebUI` and
`Reap` change tasks beside them, the web UI also creating and editing tasks. A
client names a task that was created, a UUID that is no task's, or no UUID: ids
are the database's choice (`gen_random_uuid`), so nobody names a task before it
exists. `StatementFails`, `CommitUnheard`, `ReapUnheard` and `Deadline` are
faults. `owed` is history: for each counter the transitions that happened less
those counted; so is `stands`: the calls whose worker has held their task from
the request on. Interceptor and argument checks depend on no state and are part
of the client's step. `did` says whether what was asked for has happened; an
admin's reply is compared with it.

**Process** is the mastermind from the start of its servers to the end of
`main`: `Signal`, `ServerFails`, `EnterSelect`, `DrainDone`, `StopLate`,
`WaitHTTP`, `Exit` are `run()`, `ShutdownHTTP` and `ReturnHTTP` the goroutine of
the HTTP server, `LoopTick` and `LoopEnds` reaper and sampler, `Acquire` and
`Release` the connection pool. A call is accepted, takes and returns
connections, and is answered or cut off. grpc-go, net/http and pgxpool are
external; what is assumed of them is in the module's head. `early` is history:
whether the signal came before `main` reached its select.

**AdminForms** is the browser side of the web UI over TaskLifecycle. It adds
the columns forms carry (`content`: the brief, i.e. name, priority and payload;
`scheduled_for`; the two links), the tabs with the schedule each shows, and a
clock in half minutes, because backoff is a multiple of 30 seconds and a form
has whole minutes (`WholeMinutes`). `Open` is `tasksDetail` or `tasksEditForm`,
`SaveEdit` is `tasksUpdate` with the pending-only `UpdateTask`, `SaveLinks` is
`tasksUpdateLinks`; the buttons are `Create`, `Requeue`, `Delete`, `AskReview`,
`Decide`; workers `HandOut`, `Beat`, `Finish`, `LinkJira`, `OpenPR`, `FallBack`.
`given` and `notBefore` are history: the brief last handed out, and the end of
the last backoff that nobody has edited since.

**Dashboard** extends TaskStore, whole, with a view that is being read: `Slice`
is the query of `ListTasks` with its order, LIMIT and OFFSET, and `Arrived` what
the method returns of it: it does not look at `rows.Err()`, so when the
connection breaks off under the rows, any first part of them is a result without
an error. `Listings` is what the sort of the rail can return, `prio` the priority
its cards show;
`ReadQueue`, `ReadWorkers`, `ReadCurrent` are the statements of `GetDashboard`
in their order; `WorkerInfo`, `WorkerCurrentTask`, `WorkerRecentTasks` those of
`GetAgentDetail`; `TasksList` and `ListNext` pages of `ListTasks`, which the
web UI reads once and API clients by offset; `ReadFails` is the empty or error
page that a read with an error leads to, `StoreStep` any operation of the store in
between.
`RailLimit` is the 200 of the queue read, `RecentLimit` the 10 of an agent's
tasks. A worker with a live lease is never hidden as stale: the visibility
timeout (30 s by default) is taken to be shorter than the hour of
`dashboardWorkerStaleAfter`. Creation times are distinct: they count births.
`steady` is history:
the tasks a view must not leave out; those that did not arrive are not among
them.

The **MC** modules add symmetry sets and, in two cases, a bound on what is under
way together; the **...Proofs** modules hold the theorems.
Operators named `Mutant...` are deliberate slips of the definition after them;
no specification uses them, they show that a property notices that slip.

Which composes which: TaskStore implements TaskLifecycle (`LC`, checked as
`ImplementsLifecycle`), and ClaimOrder implements TaskStore (`ClaimsOnStore`).
ClaimOrder, Runner and Dashboard put their processes on TaskStore by EXTENDS, so
that its theorems can be cited, where columns, order and time matter;
WorkerBridge, Services and AdminForms put theirs on TaskLifecycle, where only the
transitions do. Process knows of
statements only that they hold a connection.

## Runs

| Run | Instance | What it shows |
|---|---|---|
| `store_row` | 1 task, 2 workers, 2 connections, budget up to 3, delay up to 1, visibility 1, backoff 1 | all invariants, `SilentClaimEndsByExpiry`, `SilentLeaseRunsDown`, `ParkedStays`, `TerminalStays`, and that every step is a lifecycle step |
| `claims` | 2 tasks, 2 priorities, 2 claims and 1 log transaction of which two are under way together, 1 worker, budget 1, visibility 0 | `ClaimsInOrder`: a claim takes the first task nobody else has disturbed; `ClaimsOnStore`: no two claims get one task |
| `worker_tasks` | 2 tasks, 2 tool calls, 3 handles, budget 2 | `ClaimsTracked`, `BeatsCurrentOnly`, `SingleFinalizer`, `ClearsOwn` |
| `runner` | 1 task, 2 workers, 1 connection, budget 2, visibility 1, 2 faults | `ReportsOwnClaim`, and under fairness `EveryTaskFinishes`, `OrphansReclaimed` |
| `services` | 1 task, 1 call of an admin, 2 calls of 1 or 2 workers, budget 2, 1 fault | `RepliesTruthful`; `RefusedHoldsNothing`: no refusal reaches a worker that held the task all along; `CountersExact` |
| `process` | 2 RPCs, 1 page, 1 loop, 2 connections | `Drained`, `PoolOutlivesUsers`, `NothingMissed`, and under fairness `ExitsAfterSignal` |
| `forms` | 1 task, 1 worker, 2 tabs, 2 briefs, 1 URL, budget 3, clock up to 4 | `AgentSeesBrief`: no form changes a brief that was handed out; `BackoffHonoured`: a retry waits unless a form was saved; `WorkRunsOut`: no task is handed out for ever between two operator steps |
| `dashboard` | 2 tasks, 2 workers, no log transactions, rail of 2, pages of 1, visibility 0 | `NothingVanishes`; `RailPredictsClaim`: a rail that was served stays in the order of claims; `AgentPageWhole`, `ListMissesNothing` |
| `log_gated`, `matrix`, `not_wedged`, `seeder` | small | documented claims the code does not keep, see Findings |

Why the bounds are enough. All row operators act on one row, so one row shows
what statements do to its columns; two workers tell holder from non-holder, two
connections let two log transactions of different ages overlap, a budget of 3
lets an edit go below a used budget that is not yet exhausted. Two tasks are
what an order needs, and two claims on two tasks can lock each other's next row,
while the operators' statements lock and rewrite any of them in between.
`claims` is bounded by a constraint as well (`Bounded` in MCClaimOrder): three
statements under way at most, and nothing further of rows with a note or an
error or of claims whose worker has not heard of them, none of which a claim
looks at. A reaper pass over several rows is in `claims` and `dashboard`; that
it is one `Lapse` is checked on one row and proved for all. Visibility 1
separates a fresh, an ageing and an expired lease; visibility 0 only fresh from
expired, which is all the runs with two tasks on TaskStore need. Two tool calls
are the smallest race; either can finish the task and claim again while the
other is between two steps.

In `runner` two faults are a claim lost and its restarted worker losing another
call; a budget of 2 lets the same worker hold the task twice. In `services` one
task puts every call in each other's way; three calls are the two statements of
one with two others between them. The two worker calls may be of one worker id
or of two; with a budget of 2 a worker can lose the task and win it back while
an older call of it is still refused. The web UI and the reaper act without
limit, one fault falls anywhere; once it has, two calls are under way together,
and tasks with a budget of 1 are not explored further (`Bounded` in MCServices).
In `process` two RPCs on two connections exhaust the pool; a third user waits.
In `forms` the clock lets two whole minutes pass, so a form can be rounded below
a backoff that is still running. In `dashboard` a list page of one with two
tasks lets the limit bite and a page break off; the rail has two cards, so that
there is an order to keep, and its limit, which is that of the same query, is
not reached.

Fairness. In Runner: loops run on and sleeps end (goroutines and timers);
stopped workers start again (`restart: unless-stopped` in docker-compose.yml);
time passes; the reaper's ticker fires, and after an error the next tick tries
again; statements end. A handler that makes call after call returns (strong
fairness of `HandlerEnds`: both handlers of the repository make finitely many).
Faults are bounded, operators act when they like. In Process: goroutines that
can go on do, timers fire, statements end; nothing is assumed of a handler
between its statements, nor of clients. WorkerBridge, AdminForms, Services and
Dashboard have no liveness property: an agent, an operator or a client may
always stop.

`CHECK_DEADLOCK FALSE` is used where a process exits for good (WorkerBridge,
Process), and in AdminForms, whose clock stops at its bound when every task may
be deleted; the store never stops, its clock always ticks.

## Findings

* `log_gated`: an entry is committed for a claim that ended between the check
  and the insert. The same late UPDATE gives parked and finished rows a new
  `last_heartbeat_at`; `ParkedStays` and `TerminalStays` show that this stays
  without effect on their status.
* `matrix`: `ReportResult` completes, fails or retries a task that is still
  `claimed`, although `store/transitions.go` calls its map canonical, tells every
  store method to consult it and has `in_progress` alone for both, as has section
  4.1 of the design of 2026-04-27. A worker that reports before its first
  heartbeat, as the runner does with a short task, is accepted.
* `not_wedged`: when the RPC of `complete_task`, `fail_task` or `open_pr` fails
  after `markFinalized`, the worker keeps a current task it can neither finish
  nor replace until it is restarted. That includes FAILED_PRECONDITION after a
  reap and `open_pr` before the first heartbeat.
* `seeder`: `seedBatch` sends a payload without `instructions`, which every way
  to create a task has insisted on since they became mandatory: each batch ends
  with its first refusal, and the demo queue stays empty.

Also seen, without a run:

* two racing `claim_next_task` calls hold two tasks for a while, although
  `store/dashboard.go:95` says one claim at a time is enforced; dropping the
  loser charges an attempt, so on its last one the task ends failed unworked;
* a links form filled before `open_pr` and saved after it erases the PR of a
  parked task, although the design of 2026-04-27 sets it "only via `open_pr`";
* the edit form shows `scheduled_for` in whole minutes, or as it was before a
  failure, and saving it untouched writes that back: the retry comes early;
* `open_pr`, a retried failure and a requeue clear `claimed_by`, the only record
  of a worker: its page is then not found, although `store/agent_detail.go:11`
  speaks of workers that never claimed anything;
* a signal that arrives while `main` is still starting makes two cases of its
  select ready once the HTTP server has returned; it may leave by that one, and
  the gRPC server is not drained (the exception `early` in `Drained`), although
  the design of 2026-04-23 has a 15 s drain window;
* `elpulpo tasks finalize --fail <reason> <id>`, an order its comment allows
  (`cli/tasks.go:292`), takes the reason for the id and is refused;
* mastermind-mcp reports FAILED_PRECONDITION as "internal error";
* `ListTasks` does not look at `rows.Err()`: a connection that breaks while rows
  arrive may yield a short list without an error, and a client that walks the
  list takes a short page for the last. `NothingVanishes` and `ListMissesNothing`
  exempt the rows that had not arrived, and only those;
* `ClaimTask` may hand out a lower priority, or answer that there is no task,
  while a link is being edited on the task it should have taken, or while a claim
  that is then rolled back has it (`ClaimsInOrder` says exactly when);
* an operator's `FinalizeTask`, over gRPC or in the web UI, ends a task that no
  counter counts, although `metrics/metrics.go:17,22` describes them as the total
  number of tasks that completed and that failed; `CountersExact` shows that
  claims, reports and reaps are counted exactly once, but for commits whose reply
  was lost;
* with more than 200 pending tasks the rail may miss the one claimed next; a
  dashboard read that fails is served as an empty page;
* the web form accepts any positive `max_attempts`, the RPC at most 50;
  `FinalizeTask` with an empty message leaves `last_error` NULL; a heartbeat
  of an expired claim succeeds when the same process has claimed the task again.

## Proofs

Every invariant and every action property the passing runs check is proved for
every value of the constants that satisfies the modules' assumptions, log
transactions, any number of clients and any bound included; and so is that
TaskStore, AdminForms and Services implement TaskLifecycle, and ClaimOrder
TaskStore. `ClaimTypeOK` is proved without a run. Each proof has the same shape:
an inductive invariant, one lemma per action that it is preserved, and the
property from it. TLC checked each inductive invariant on an instance of the
component's run before it was proved.

| Module | Theorems | Inductive invariant |
|---|---|---|
| LifecycleProofs | `WorkRunsOut` | `LifecycleInv`: types, a holder exactly while held, attempts within the largest budget |
| TaskStoreProofs | `TypeOK`, `LeaseIntegrity`, `CompletionStamp`, `NoteIsHolders`, `AttemptBudget`, `LogsHaveTask`; `ParkedStays`, `TerminalStays`, `SilentClaimEndsByExpiry`, `SilentLeaseRunsDown`; `ImplementsLifecycle`, `StoreRunsOut` | `IInv`: `TypeOK`, `RowOK` of every row, `LogsHaveTask`, a lost claim is on an active row |
| WorkerBridgeProofs | `TypeOK`, `ClaimsTracked`, `BeatsCurrentOnly`, `SingleFinalizer`, `ClearsOwn`, `BridgeLifecycle`, `BridgeRunsOut` | `IInv`: types, `Threads` (which call may have which handle, and where), `Claims` (handles against the mastermind) |
| ProcessProofs | `TypeOK`, `Drained`, `PoolOutlivesUsers`, `NothingMissed` | `IInv`: types, `Pool`, `Quit`, `Path`, `Drained` |
| AdminFormsProofs | `TypeOK`, `AgentSeesBrief`, `BackoffHonoured`, `FormsFollowLifecycle`, `FormsRunOut` | `IInv`: types, `AgentSeesBrief`, `Covered` |
| ServicesProofs | `TypeOK`, `RepliesTruthful`, `RefusedHoldsNothing`, `CountersExact`, `ServicesFollowLifecycle` | `IInv`: types, `Paths`, and the three properties |
| RunnerProofs | `RunnerOK`, `ReportsOwnClaim`, `RunsOnStore`, `OrphansRunDown` | `RInv`: the store's `IInv`, `RunnerOK`, `SameAttempt` |
| DashboardProofs | `PageOK`, `NothingVanishes`, `RailPredictsClaim`, `AgentPageWhole`, `ListMissesNothing` | `DInv`: the store's `IInv`, `Births`, `PageOK`, `Showing`, `Agent`, `Walk`; on top of it `Cards` |
| | `ClaimTypeOK`, `ClaimsInOrder`, `ClaimsOnStore` | `CInv`: the store's `IInv`, `ClaimTypeOK`, `Reading` of every claim, `Kept` |

*TaskLifecycle.* `WorkLeft(t)` bounds what workers and the reaper can still do to
a task: three steps (claim, start, end) for each attempt between those made and
`MaxLimit`, and the rest of the current one. A claim costs an attempt and a
lapse refunds none, so every step that is not an operator's decreases it. The
bound is the largest budget anyone may ask for, not `limit`, because an edit may
raise or lower that between two attempts; that a lapse below `limit` is below
`MaxLimit` is what `LifecycleInv` adds. It is the safety half of termination: no
fairness is needed to say that work is finite.

*TaskStore.* The properties are not inductive one by one: that a claim stays
within the budget needs that a pending row is below it, that a note is the
holder's needs that an active row has a holder, and that the late UPDATE of a
log transaction finds its row needs `LogsHaveTask` and the types of the
transactions. One lemma per row operator (`BlankOK`, `ClaimedOK`, `FailedOK`,
...) says it preserves `RowOK`; `RowStep` and `TxStep` lift that to actions. The
action properties follow from lemmas about one step (`ParkedStep`,
`TerminalStep`, `SilentStep`). `SilentLeaseRunsDown` counts what can still
renew a lease nobody knows of: `MayWrite`, the log transactions that have passed
the holder check or were begun by the holder; each writes at most once and no
statement adds one.

*Refinement.* `MapRow` says what writing a row does to the four lifecycle
variables; each statement is then the lifecycle action of the same meaning, a
reaper pass is one `Lapse` of all rows it touches (`FailedMaps`), a late log
commit is a `Start` or invisible (`BeatenMaps`), and time is invisible.
`OnlyClaims` shows that nothing but `ClaimTask` gives a task a holder.
`StoreRunsOut` is `WorkRunsOut` of the tables: a theorem of TaskLifecycle cannot
be cited through `LC`, because tlapm does not expand its statement there, so
the argument is made once more on rows (`Left`).

*Compositions.* WorkerBridge and AdminForms extend TaskLifecycle on the same
variables, so each of their steps is shown to be one of its steps or none, and
`WorkRunsOut` follows from `LifecycleStep`. For AdminForms that is a theorem of
its own, `FormsFollowLifecycle`; WorkerBridge starts from tasks already created,
so for it the steps and `LifecycleInv` are shown (`BridgeLifecycle`). Services
uses TaskLifecycle as `LC`; `ServicesFollowLifecycle` is `Spec =>
LC!LifecycleSpec`, and `WorkRunsOut` follows from it outside the prover.

*WorkerBridge.* What makes racing calls safe is ownership: a handle that is not
yet current, or lost the race, is known to one call alone (`Owned`); a call on
its way to the mastermind has marked its handle (`Marked`); one that finalises
works on the current handle or will be refused (`OnCurrent`). `ClearsOwn`
follows from these. Steps of the mastermind that give this worker no claim are
all `Quiet` and handled once.

*Process.* `Drained` is not inductive without the way `main` came to its end
(`Path`) and what a server that returned has left behind (`Quit`).
`NothingMissed` is the safety half of `ExitsAfterSignal`: wherever `main` waits,
what it waits for has been set going and has not come already.
`PoolOutlivesUsers` follows from `Path` and `Quit`: `main` only gets to its
deferred `Close` through a drain, a forced stop or a server that failed.

*AdminForms.* `BackoffHonoured` needs `Covered`: until someone saves, requeues
or deletes, `scheduled_for` is not before the end of the backoff.

*Services.* A reply is read late, so `LcStep` states what any other call may
meanwhile do to a task: it does not become unborn, and it stays deleted. What a
worker is told does not rest on such a bound, because another call of its id may
claim at any time; `stands` is what a refusal is measured by, and only a handler
that finds its worker not to be the holder refuses. `Events` and `Tally` count
transitions, by the cardinality theorems, against handlers about to count.

*Runner.* `Kept` says that a step of the store takes claims away but moves none;
only `ClaimTask` makes one, and it hands over the attempt. `RunsOnStore` is
`RunnerSpec => Spec`: all theorems about the tables, the refinement included,
hold of a system of workers, seeder and reaper. `OrphansRunDown` draws the
conclusion for claims whose worker is gone.

*Dashboard.* `RankOnto` and `SliceSize`: in an order without ties ranks count
from 0 without gaps, so a page holds at most its limit and one that is not full
is the last (injections between finite sets). Dates are never rewritten and new
tasks are the newest (`BirthsNext`), so without a deletion a task only moves
down the list (`RankGrows`): a walk has always seen all it must see below its
offset. `Showing` and `Agent` say what a page has secured after each statement,
with `HolderStays` for the steps of the store between them. That some rows do not
arrive costs these arguments nothing but the tasks in question, since what
arrives is a first part of the order. `Cards` says that the rail is in queue order
by the dates, which stay, and by the priorities its cards show.

*ClaimOrder.* The tasks in `calm` are still ahead of a claim, unchanged and in the
order of its sort (`Reading`), so the one it picks is the first of them; a picked
row is eligible and waits, because every other writer needs its lock (`Kept`).
`Commit` is then a `ClaimTask` and every other step one of the store or none.

Assumptions. Besides the domains of the numbers: `NULL` is no task, worker,
number or code; the sets of clients, workers and calls that the code tells apart
are disjoint; where something is counted (Services, Runner, Dashboard) the sets
counted are finite. All of them hold of the code; TLC evaluates them in every run.

What the proofs changed. In Services a client could name a task before it was
created; the run with one admin hid that `RepliesTruthful` fails then, and the
proof did not go through. That a claim takes the first eligible task does not
hold, and could not be shown of ClaimOrder: what a row lock hides is now in the
statement of `ClaimsInOrder`, and what the rail can promise is the order in which
claims try tasks, not which they get. ClaimOrder, Runner and Dashboard extend
TaskStore rather than instantiate it, so that its theorems can be cited.

Only model-checked: `OrphansReclaimed`, `EveryTaskFinishes` and
`ExitsAfterSignal`, which are liveness under fairness and beyond the prover, and
the four findings, each refuted by a trace. What the liveness arguments need of
safety is proved: `OrphansRunDown` for `OrphansReclaimed`, `StoreRunsOut` for
`EveryTaskFinishes`, `NothingMissed` for `ExitsAfterSignal`. What TLC adds is
that under the stated fairness the steps which use up this work are taken.

## Plan

1. *(done)* TaskLifecycle, TaskStore, WorkerBridge, AdminForms, Dashboard; their
   runs; TaskStoreProofs.
2. *(done)* The gRPC handlers with their clients and metrics (Services), runner
   and demo (Runner), start and shutdown of the mastermind (Process), agent page
   and task list (Dashboard).
3. *(done)* Proofs of the invariants and action properties of every component,
   and of the refinement of TaskLifecycle by TaskStore.
4. *(done)* WorkerBridge, Services and AdminForms as compositions on
   TaskLifecycle, and the safety half of the liveness arguments.
5. *(done)* The claim statement under the locks of others (ClaimOrder), calls of
   one worker that overlap (Services), reads that break off (Dashboard).
6. What is left: `WorkRunsOut` inside Services, if tlapm learns to cite through
   an instance, and the liveness properties, if a prover for fairness comes.

## Not modelled

Generated message types and their encoding, the SQL driver, migrations,
templates and static files, routing, environment and flag parsing other than
what decides which call is made, output formatting, basic auth of the web UI,
`issuerefs`: none of them keeps state or decides about it. Log lines on pages,
counts and colours of the dashboard, and `tasks_reaped_total` are left out of
modelled components. The shutdown of the worker's own MCP server is one step
(`Exit` of WorkerBridge).
