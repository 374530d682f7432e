------------------------------- MODULE Runner -------------------------------
(***************************************************************************)
(* Polling workers (package worker/runner and `demo worker`) and the demo  *)
(* seeder, on the store of TaskStore. A worker claims, works under a       *)
(* heartbeat, reports once and polls again, whatever became of the report; *)
(* what it leaves behind is the reaper's. Worker ids survive a restart.    *)
(*                                                                         *)
(* A call is one step: its request is lost, or it takes effect and its     *)
(* reply is delivered or lost. Lost requests and replies and worker stops  *)
(* are faults, of which a behaviour has at most MaxFaults. Notes and log   *)
(* lines are left to the handler: it may write any number, or none.        *)
(***************************************************************************)
EXTENDS TaskStore, FiniteSets

CONSTANTS
  Submitted,    \* tasks an operator submits, with instructions
  Burst,        \* SEEDER_BURST
  Target,       \* SEEDER_TARGET_BACKLOG
  MaxFaults     \* bound on lost calls and stopped workers

ASSUME RunnerAssumption ==
  /\ Submitted \subseteq Tasks /\ Burst \in Nat /\ Target \in Nat /\ MaxFaults \in Nat
  /\ IsFiniteSet(Tasks) /\ NULL \notin Tasks

VARIABLES
  proc,     \* [Workers -> Process]: the loop of each worker
  seeder,   \* tasks the seeder still wants in this batch, or NULL between batches
  faults    \* faults so far

storeVars == vars      \* TaskStore's
runnerVars == <<storeVars, proc, seeder, faults>>

-----------------------------------------------------------------------------
\* What the loop is doing, and the claim it was handed: a task and its attempt.
Process ==
  [at      : {"poll", "sleep", "work", "report", "stopped"},
   task    : Tasks \union {NULL},
   attempt : Nat,
   call    : Conns \union {NULL},   \* the transaction of the AppendLog it waits for
   ok      : BOOLEAN]               \* what the handler returned

Loop(at) == [at |-> at, task |-> NULL, attempt |-> 0, call |-> NULL, ok |-> FALSE]

Handed(t) == [Loop("work") EXCEPT !.task = t, !.attempt = row'[t].attempts]

RunnerInit ==
  /\ Init
  /\ proc = [w \in Workers |-> Loop("poll")]
  /\ seeder = 2 * Burst             \* the first batch is twice as large
  /\ faults = 0

Goto(w, p) == proc' = [proc EXCEPT ![w] = p]

Fault == faults < MaxFaults /\ faults' = faults + 1

\* What is left of a claim when its worker no longer follows it.
LeftBehind(w) == Crash(w)

-----------------------------------------------------------------------------
(* Runner.Run and runWorker: claim, or sleep and poll again *)

Claim(w) ==
  /\ proc[w].at = "poll"
  /\ \E t \in Tasks : ClaimTask(w, t, TRUE) /\ Goto(w, Handed(t))
  /\ UNCHANGED <<seeder, faults>>

\* The claim took effect but the reply is lost: to the loop, an error.
ClaimUnheard(w) ==
  /\ proc[w].at = "poll"
  /\ \E t \in Tasks : ClaimTask(w, t, FALSE)
  /\ Goto(w, Loop("sleep")) /\ Fault
  /\ UNCHANGED seeder

\* ErrNoTask, or a request that never arrived. That every task due is passed over,
\* locked by a statement under way, counts as a fault as well.
ClaimNothing(w) ==
  /\ proc[w].at = "poll"
  /\ IF \E t \in Tasks : Eligible(t) THEN Fault ELSE UNCHANGED faults
  /\ Goto(w, Loop("sleep"))
  /\ UNCHANGED <<storeVars, seeder>>

Wake(w) ==
  /\ proc[w].at = "sleep"
  /\ Goto(w, Loop("poll"))
  /\ UNCHANGED <<storeVars, seeder, faults>>

-----------------------------------------------------------------------------
(* A task being worked on. Every error but the last is logged and ignored,   *)
(* so a worker whose claim was reaped works on.                              *)

Beat(w) ==
  /\ proc[w].at = "work"
  /\ Heartbeat(w, proc[w].task)
  /\ UNCHANGED <<proc, seeder, faults>>

Note(w) ==
  /\ proc[w].at = "work" /\ proc[w].call = NULL
  /\ UpdateProgress(w, proc[w].task, w)
  /\ UNCHANGED <<proc, seeder, faults>>

AppendLog(w) ==
  /\ proc[w].at = "work" /\ proc[w].call = NULL
  /\ \E c \in Conns :
       /\ LogBegin(c, w, proc[w].task)
       /\ Goto(w, [proc[w] EXCEPT !.call = c])
  /\ UNCHANGED <<seeder, faults>>

HandlerReturns(w, ok) ==
  /\ proc[w].at = "work" /\ proc[w].call = NULL
  /\ Goto(w, [proc[w] EXCEPT !.at = "report", !.ok = ok])
  /\ UNCHANGED <<storeVars, seeder, faults>>

\* Operators named Mutant... are what a slip in the code would make of the
\* definition that follows them; no specification uses them.
MutantKeepingReport(w) ==
  /\ proc[w].at = "report"
  /\ IF Calls(w, proc[w].task)
     THEN ReportResult(w, proc[w].task, proc[w].ok) ELSE UNCHANGED storeVars
  /\ Goto(w, [proc[w] EXCEPT !.at = "poll"])
  /\ UNCHANGED <<seeder, faults>>

\* runOne: Complete or Fail, once. The heartbeat has been stopped. A report on
\* a claim that ended matches no row and is dropped.
Report(w) ==
  /\ proc[w].at = "report"
  /\ IF Calls(w, proc[w].task)
     THEN ReportResult(w, proc[w].task, proc[w].ok) ELSE UNCHANGED storeVars
  /\ Goto(w, Loop("poll"))
  /\ UNCHANGED <<seeder, faults>>

\* The report never arrives, and the loop goes on.
ReportUnsent(w) ==
  /\ proc[w].at = "report"
  /\ LeftBehind(w)
  /\ Goto(w, Loop("poll")) /\ Fault
  /\ UNCHANGED seeder

\* SIGTERM or a crash. The runner's last Fail is sent on a cancelled context
\* and never leaves the process; demo worker returns without one.
Stop(w) ==
  /\ proc[w].at # "stopped"
  /\ LeftBehind(w)
  /\ Goto(w, Loop("stopped")) /\ Fault
  /\ UNCHANGED seeder

\* docker-compose restarts a stopped worker.
Start(w) ==
  /\ proc[w].at = "stopped"
  /\ Goto(w, Loop("poll"))
  /\ UNCHANGED <<storeVars, seeder, faults>>

-----------------------------------------------------------------------------
(* The seeder *)

Least(a, b) == IF a < b THEN a ELSE b
Most(a, b)  == IF a > b THEN a ELSE b

\* countPending, which sees no more than 200, and the size of the next batch.
SeederTick ==
  LET pending == Least(Cardinality({t \in Tasks : row[t].status = "pending"}), 200)
      short   == IF Target > pending THEN Target - pending ELSE 0 IN
  /\ seeder = NULL
  /\ seeder' = Least(Most(short, Burst), 6)
  /\ UNCHANGED <<storeVars, proc, faults>>

\* The keys of the JSON object the seeder sends as payload.
SeedPayload == {"kind", "size", "seed", "source"}

\* validateCreateInput on a payload that is a JSON object.
Accepted(payload) == "instructions" \in payload

\* The first error ends the batch.
SeedOne ==
  /\ seeder # NULL
  /\ IF seeder > 0 /\ Accepted(SeedPayload)
     THEN /\ \E t \in Tasks, p \in Priorities : CreateTask(t, MaxLimit, p, 0)
          /\ seeder' = seeder - 1
     ELSE seeder' = NULL /\ UNCHANGED storeVars
  /\ UNCHANGED <<proc, faults>>

-----------------------------------------------------------------------------
(* The rest of the system: an operator, the clock, the reaper, and the       *)
(* statements of log transactions under way                                  *)

Submit ==
  /\ \E t \in Submitted, m \in Limits, p \in Priorities, d \in Delays :
       CreateTask(t, m, p, d)
  /\ UNCHANGED <<proc, seeder, faults>>

\* The worker that waits for the transaction on c hears of its end.
Returned(c) ==
  proc' = [w \in Workers |-> IF proc[w].call = c /\ tx'[c].step = "idle"
                             THEN [proc[w] EXCEPT !.call = NULL] ELSE proc[w]]

LogStep(c) ==
  /\ LogCheck(c) \/ LogInsert(c) \/ LogCommit(c)
  /\ Returned(c)
  /\ UNCHANGED <<seeder, faults>>

LogFails(c) ==
  /\ LogAbort(c) /\ Returned(c) /\ Fault
  /\ UNCHANGED seeder

Clock == Tick /\ UNCHANGED <<proc, seeder, faults>>

Reap == ReapStale /\ UNCHANGED <<proc, seeder, faults>>

-----------------------------------------------------------------------------
LoopStep(w) == Claim(w) \/ ClaimNothing(w) \/ Wake(w) \/ Report(w) \/ Start(w)

HandlerEnds(w) == \E ok \in BOOLEAN : HandlerReturns(w, ok)

LoopNext(w) ==
  \/ LoopStep(w) \/ HandlerEnds(w) \/ ClaimUnheard(w)
  \/ Beat(w) \/ Note(w) \/ AppendLog(w)
  \/ ReportUnsent(w) \/ Stop(w)

RunnerNext ==
  \/ \E w \in Workers : LoopNext(w)
  \/ \E c \in Conns : LogStep(c) \/ LogFails(c)
  \/ SeederTick \/ SeedOne \/ Submit \/ Clock \/ Reap

RunnerSpec == RunnerInit /\ [][RunnerNext]_runnerVars

\* The loops run on, their sleeps end, stopped workers are started again, the
\* clock and the reaper's ticker go on, and statements end. A handler returns
\* though it waits for call after call: it makes finitely many.
FairSpec ==
  /\ RunnerSpec
  /\ \A w \in Workers : WF_runnerVars(LoopStep(w)) /\ SF_runnerVars(HandlerEnds(w))
  /\ \A c \in Conns : WF_runnerVars(LogStep(c))
  /\ WF_runnerVars(SeederTick) /\ WF_runnerVars(SeedOne)
  /\ WF_runnerVars(Clock) /\ WF_runnerVars(Reap)

-----------------------------------------------------------------------------
(* Properties *)

\* A worker follows a claim exactly while it works or reports on it, and a
\* claim in the table that no process follows is known to be left behind.
RunnerOK ==
  /\ proc \in [Workers -> Process]
  /\ \A w \in Workers : proc[w].task # NULL <=> proc[w].at \in {"work", "report"}
  /\ \A t \in Tasks : Held(t) /\ t \notin lost => proc[row[t].claimedBy].task = t
  /\ seeder \in Nat \union {NULL}
  /\ faults \in 0 .. MaxFaults

\* ReportResult's WHERE clause names the worker, not the attempt. A report that
\* takes effect is nevertheless about the very claim its worker was handed,
\* also after a reap, a claim by another and a restart under the same id.
ReportsOwnClaim ==
  [][\A w \in Workers : Report(w) /\ row' # row =>
       LET t == proc[w].task IN
       row[t].claimedBy = w /\ row[t].attempts = proc[w].attempt]_runnerVars

\* Every task submitted is finished: completed, or failed with its budget used
\* up. No lost call, stopped worker or expired lease leaves it unfinished.
EveryTaskFinishes ==
  \A t \in Tasks : row[t].status = "pending" ~> row[t].status \in Terminal

\* A claim whose holder stopped, whose ClaimTask reply was lost or whose report
\* never arrived does not stay with that holder: the reaper ends it.
OrphansReclaimed == \A t \in Tasks : t \in lost ~> t \notin lost

-----------------------------------------------------------------------------
(* What comments say, and the code does not do *)

\* cmd/demo/main.go: the seeder periodically pushes new pending tasks.
SeederFills == <>(\E t \in Tasks : row[t].status = "pending")
=============================================================================
