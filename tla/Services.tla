------------------------------ MODULE Services ------------------------------
(***************************************************************************)
(* The two gRPC services of the mastermind between their clients (elpulpo, *)
(* mastermind-mcp, worker processes) and the task lifecycle. A call goes   *)
(* through its client's command, the interceptor and the argument checks,  *)
(* a statement on the store, perhaps a second statement, perhaps a counter,*)
(* and comes back as a status code. Each of these may be overtaken by      *)
(* other calls, by the web UI and by the reaper.                           *)
(*                                                                         *)
(* A call's context may end and a statement may fail, also after it was    *)
(* committed: these are faults, of which a behaviour has at most MaxFaults.*)
(* The text of replies and every argument but the task id, the outcome and *)
(* the payload of a new task are left out.                                 *)
(***************************************************************************)
EXTENDS Integers, FiniteSets

CONSTANTS
  Tasks, Workers, MaxLimit, NULL,   \* TaskLifecycle's
  Admins, WorkerCalls,  \* calls that may be under way together, to AdminService
                        \* and to TaskService: each worker may have any of the latter
  MaxFaults     \* bound on failed statements and ended contexts

\* Ids are UUIDs, and a server has so many calls open: there are finitely many of either.
ASSUME ServicesAssumption ==
  /\ MaxFaults \in Nat /\ MaxLimit \in Nat \ {0}
  /\ Admins \intersect WorkerCalls = {}
  /\ IsFiniteSet(Tasks) /\ IsFiniteSet(WorkerCalls)
  /\ NULL \notin Tasks \union Workers /\ {"unknown", "malformed"} \intersect Tasks = {}
  /\ NULL \notin {"claimed", "completed", "failed"}
  /\ NULL \notin {"OK", "InvalidArgument", "Unauthenticated", "NotFound",
                  "FailedPrecondition", "Internal", "DeadlineExceeded"}

VARIABLES
  status, holder, attempts, limit,  \* TaskLifecycle's
  call,     \* [Callers -> Call]: the calls under way
  stands,   \* calls whose worker has held their task ever since they were made
  reaper,   \* tasks the last reaper statement failed, until they are counted
  owed,     \* [Counters -> Int]: transitions made and neither counted nor lost
            \* with a statement that seemed to fail
  faults    \* faults so far

lcVars == <<status, holder, attempts, limit>>
vars == <<lcVars, call, stands, reaper, owed, faults>>

LC == INSTANCE TaskLifecycle

Callers  == Admins \union WorkerCalls
Counters == {"claimed", "completed", "failed"}

TaskMethods ==
  {"ClaimTask", "Heartbeat", "UpdateProgress", "AppendLog", "SetJiraURL", "OpenPR", "ReportResult"}
AdminMethods ==
  {"CreateTask", "GetTask", "ListTasks", "ListTaskLogs", "CancelTask", "RetryTask",
   "ListWorkers", "RequestReview", "FinalizeTask"}

\* What a client may name: a task that was created, its id being the database's
\* choice, a UUID that is no task's, or no UUID.
Ids   == Tasks \union {"unknown", "malformed"}
Born  == {t \in Tasks : status[t] # "unborn"}
Names == Born \union {"unknown", "malformed"}

Codes ==
  {"OK", "InvalidArgument", "Unauthenticated", "NotFound", "FailedPrecondition",
   "Internal", "DeadlineExceeded"}

Call ==
  [method  : TaskMethods \union AdminMethods \union {NULL},
   id      : Ids \union {NULL},
   by      : Workers \union {NULL},      \* the worker of the request
   outcome : {"completed", "failed", NULL},
   mcp     : BOOLEAN,                   \* through mastermind-mcp
   at      : {"idle", "handler", "classify", "second", "count", "reply"},
   counts  : Counters \union {NULL},
   did     : BOOLEAN,                   \* what was asked for has been done
   code    : Codes \union {NULL}]

NoCall ==
  [method |-> NULL, id |-> NULL, by |-> NULL, outcome |-> NULL, mcp |-> FALSE, at |-> "idle",
   counts |-> NULL, did |-> FALSE, code |-> NULL]

Init ==
  /\ LC!LifecycleInit
  /\ call = [c \in Callers |-> NoCall]
  /\ stands = {}
  /\ reaper = 0
  /\ owed = [k \in Counters |-> 0]
  /\ faults = 0

-----------------------------------------------------------------------------
(* Getting in *)

\* The token each method asks for.
Policy(method) == IF method \in TaskMethods THEN "worker_token" ELSE "admin_token"

\* PerMethodInterceptor, and the checks of a handler that touch no state. None
\* of them depends on the store, so they are part of the client's step.
Admitted(method, token) == Policy(method) = token

\* toolErr: what the agent behind mastermind-mcp is told of a code.
ToolErr(code) ==
  IF code \in {"OK", "InvalidArgument", "NotFound", "Unauthenticated"} THEN code ELSE "Internal"

\* What is left of a call when it is answered. What it was about matters only if
\* it was refused.
Answered(r, code, did) ==
  LET refused == code \in {"FailedPrecondition", "NotFound"} IN
  [NoCall EXCEPT !.at = "reply", !.did = did,
                 !.id = IF refused THEN r.id ELSE NULL,
                 !.by = IF refused THEN r.by ELSE NULL,
                 !.method = IF refused THEN r.method ELSE NULL,
                 !.code = IF r.mcp THEN ToolErr(code) ELSE code]

\* Operators named Mutant... are what a slip in the code would make of the
\* definition that follows them; no specification uses them.
MutantUnparsedEntered(r, token, valid) ==
  IF ~Admitted(r.method, token) THEN Answered(r, "Unauthenticated", FALSE)
  ELSE IF ~valid THEN Answered(r, "InvalidArgument", FALSE)
  ELSE [r EXCEPT !.at = "handler"]

Entered(r, token, valid) ==
  IF ~Admitted(r.method, token)   THEN Answered(r, "Unauthenticated", FALSE)
  ELSE IF ~valid \/ r.id = "malformed" THEN Answered(r, "InvalidArgument", FALSE)
  ELSE [r EXCEPT !.at = "handler"]

\* The generated client stubs: one request, one reply.
Ask(c, r, token, valid) ==
  /\ call[c].at = "idle"
  /\ call' = [call EXCEPT ![c] = Entered(r, token, valid)]
  /\ UNCHANGED <<lcVars, reaper, owed, faults>>

Request(method, id) == [NoCall EXCEPT !.method = method, !.id = id]

\* The admin token a client was given is the mastermind's, or it is not.
Tokens == {"admin_token", "other"}

-----------------------------------------------------------------------------
(* elpulpo. A command line that is not understood makes no call. *)

\* A payload as JSON: none, an object with or without instructions, an object
\* with blank ones, something else, or text that is not JSON.
Payloads == {"none", "bare", "full", "blank", "other", "broken"}

\* CreateTask and the store take a JSON object that has instructions.
Valid(payload) == payload = "full"

\* --instructions are merged into --payload; NULL is a refusal by elpulpo itself.
Merged(payload, instructions) ==
  IF payload = "broken" THEN NULL
  ELSE IF instructions = "none" THEN payload
  ELSE IF payload = "other" THEN NULL
  ELSE IF instructions = "text" THEN "full" ELSE "blank"

RunTasksCreate(c, token) ==
  \E payload \in Payloads, instructions \in {"none", "text", "blank"} :
    /\ Merged(payload, instructions) # NULL
    /\ Ask(c, Request("CreateTask", NULL), token, Valid(Merged(payload, instructions)))

RunTasksGet(c, token) == \E id \in Names : Ask(c, Request("GetTask", id), token, TRUE)

RunTasksList(c, token) ==
  \E inRange \in BOOLEAN : Ask(c, Request("ListTasks", NULL), token, inRange)

RunTasksCancel(c, token) == \E id \in Names : Ask(c, Request("CancelTask", id), token, TRUE)

RunTasksRetry(c, token) == \E id \in Names : Ask(c, Request("RetryTask", id), token, TRUE)

RunTasksRequestReview(c, token) ==
  \E id \in Names : Ask(c, Request("RequestReview", id), token, TRUE)

\* The first argument without a dash is the id: in `--fail <reason> <id>` that
\* is the reason.
RunTasksFinalize(c, token) ==
  \E id \in Names, outcome \in LC!Terminal, order \in {"id_first", "flag_first"} :
    LET first == IF order = "flag_first" /\ outcome = "failed" THEN "malformed" ELSE id IN
    Ask(c, [Request("FinalizeTask", first) EXCEPT !.outcome = outcome], token, TRUE)

\* No command calls ListTaskLogs; any other client of the API may.
AskTaskLogs(c, token) ==
  \E id \in Names, inRange \in BOOLEAN : Ask(c, Request("ListTaskLogs", id), token, inRange)

RunWorkersList(c, token) == Ask(c, Request("ListWorkers", NULL), token, TRUE)

RunTasks(c, token) ==
  \/ RunTasksCreate(c, token) \/ RunTasksGet(c, token) \/ RunTasksList(c, token)
  \/ RunTasksCancel(c, token) \/ RunTasksRetry(c, token)
  \/ RunTasksRequestReview(c, token) \/ RunTasksFinalize(c, token)

RunCLI(c) ==
  \E token \in Tokens : RunTasks(c, token) \/ RunWorkersList(c, token) \/ AskTaskLogs(c, token)

-----------------------------------------------------------------------------
(* mastermind-mcp. It probes its token when it starts, so that a tool call     *)
(* always has the right one.                                                   *)

Tool(method, id) == [Request(method, id) EXCEPT !.mcp = TRUE]

ToolCreateTask(c) ==
  \E payload \in Payloads \ {"broken"} :
    Ask(c, Tool("CreateTask", NULL), "admin_token", Valid(payload))

ToolGetTask(c) == \E id \in Names : Ask(c, Tool("GetTask", id), "admin_token", TRUE)

ToolListTasks(c) ==
  \E inRange \in BOOLEAN : Ask(c, Tool("ListTasks", NULL), "admin_token", inRange)

ToolRequestReview(c) == \E id \in Names : Ask(c, Tool("RequestReview", id), "admin_token", TRUE)

ToolFinalizeTask(c) ==
  \E id \in Names, outcome \in LC!Terminal :
    Ask(c, [Tool("FinalizeTask", id) EXCEPT !.outcome = outcome], "admin_token", TRUE)

RunMCP(c) ==
  \/ ToolCreateTask(c) \/ ToolGetTask(c) \/ ToolListTasks(c)
  \/ ToolRequestReview(c) \/ ToolFinalizeTask(c)

-----------------------------------------------------------------------------
(* Workers. A handle is about a task that was handed out. A worker does not    *)
(* wait for one call before it makes the next: the sidecar's heartbeats and    *)
(* the tools of its agent run side by side under one worker id, and so do two  *)
(* processes that were given the same id.                                      *)

Own(w, method, id) == [Request(method, id) EXCEPT !.by = w]

RunWorker(w, c) ==
  \/ Ask(c, Own(w, "ClaimTask", NULL), "worker_token", TRUE)
  \/ \E method \in TaskMethods \ {"ClaimTask", "ReportResult"},
        t \in Born : Ask(c, Own(w, method, t), "worker_token", TRUE)
  \/ \E t \in Born, outcome \in LC!Terminal :
       Ask(c, [Own(w, "ReportResult", t) EXCEPT !.outcome = outcome], "worker_token", TRUE)

-----------------------------------------------------------------------------
(* Handlers. Each is the step of its first, and mostly only, statement.        *)

In(c, method) == call[c].at = "handler" /\ call[c].method = method

Goto(c, at, did) == call' = [call EXCEPT ![c].at = at, ![c].did = did]

Reply(c, code, did) == call' = [call EXCEPT ![c] = Answered(@, code, did)]

\* The row a statement by id finds is in one of these states.
Finds(c, S) == call[c].id \in Tasks /\ status[call[c].id] \in S

Present == LC!Statuses \ {"unborn", "deleted"}

CreateTask(c) ==
  /\ In(c, "CreateTask")
  /\ \E t \in Tasks, m \in LC!Limits : LC!Submit(t, m)
  /\ Reply(c, "OK", TRUE)

GetTask(c) ==
  /\ In(c, "GetTask")
  /\ IF Finds(c, Present) THEN Reply(c, "OK", TRUE) ELSE Reply(c, "NotFound", FALSE)
  /\ UNCHANGED lcVars

ListTasks(c) == In(c, "ListTasks") /\ Reply(c, "OK", TRUE) /\ UNCHANGED lcVars

ListWorkers(c) == In(c, "ListWorkers") /\ Reply(c, "OK", TRUE) /\ UNCHANGED lcVars

\* First whether there is such a task, then its entries.
ListTaskLogs(c) ==
  /\ In(c, "ListTaskLogs")
  /\ IF Finds(c, Present) THEN Goto(c, "second", FALSE) ELSE Reply(c, "NotFound", FALSE)
  /\ UNCHANGED lcVars

CancelTask(c) ==
  /\ In(c, "CancelTask")
  /\ IF Finds(c, LC!Settled) THEN LC!Cancel(call[c].id) /\ Reply(c, "OK", TRUE)
     ELSE Goto(c, "classify", FALSE) /\ UNCHANGED lcVars

RetryTask(c) ==
  /\ In(c, "RetryTask")
  /\ IF Finds(c, LC!Settled) THEN LC!Retry(call[c].id) /\ Reply(c, "OK", TRUE)
     ELSE Goto(c, "classify", FALSE) /\ UNCHANGED lcVars

RequestReview(c) ==
  /\ In(c, "RequestReview")
  /\ IF Finds(c, {"pr_opened"}) THEN LC!Review(call[c].id) /\ Goto(c, "second", TRUE)
     ELSE Goto(c, "classify", FALSE) /\ UNCHANGED lcVars

FinalizeTask(c) ==
  /\ In(c, "FinalizeTask")
  /\ IF Finds(c, LC!Parked)
     THEN LC!Finalize(call[c].id, call[c].outcome) /\ Goto(c, "second", TRUE)
     ELSE Goto(c, "classify", FALSE) /\ UNCHANGED lcVars

\* An UPDATE or DELETE that matched nothing: was there such a task at all?
Classify(c) ==
  /\ call[c].at = "classify"
  /\ Reply(c, IF Finds(c, Present) THEN "FailedPrecondition" ELSE "NotFound", FALSE)
  /\ UNCHANGED lcVars

MutantNotFoundReread(c) ==
  /\ call[c].at = "second" /\ call[c].method \in {"RequestReview", "FinalizeTask"}
  /\ Reply(c, IF Finds(c, Present) THEN "OK" ELSE "NotFound", TRUE)
  /\ UNCHANGED lcVars

\* The read after the change, for the task in the reply. It may be gone.
Reread(c) ==
  /\ call[c].at = "second" /\ call[c].method \in {"RequestReview", "FinalizeTask"}
  /\ Reply(c, IF Finds(c, Present) THEN "OK" ELSE "Internal", TRUE)
  /\ UNCHANGED lcVars

ReadLogs(c) ==
  /\ call[c].at = "second" /\ call[c].method = "ListTaskLogs"
  /\ Reply(c, "OK", TRUE)
  /\ UNCHANGED lcVars

-----------------------------------------------------------------------------
(* TaskService. Whose call it is is what the request says.                     *)

Mine(c) == Finds(c, LC!Active) /\ holder[call[c].id] = call[c].by

Counting(c, k) ==
  call' = [call EXCEPT ![c].at = "count", ![c].did = TRUE, ![c].counts = k]

Refused(c) == Reply(c, "FailedPrecondition", FALSE) /\ UNCHANGED lcVars

\* A sign of life changes the lifecycle only the first time.
SignOfLife(c) ==
  IF Finds(c, {"claimed"}) THEN LC!Start(call[c].id) ELSE UNCHANGED lcVars

\* What is pending may not be due: there need not be a task.
ClaimTask(c) ==
  /\ In(c, "ClaimTask")
  /\ \/ \E t \in Tasks : LC!Claim(call[c].by, t) /\ Counting(c, "claimed")
     \/ Reply(c, "NotFound", FALSE) /\ UNCHANGED lcVars

MutantStartedHeartbeat(c) ==
  /\ In(c, "Heartbeat")
  /\ IF Mine(c) /\ Finds(c, {"in_progress"}) THEN SignOfLife(c) /\ Reply(c, "OK", TRUE) ELSE Refused(c)

Heartbeat(c) ==
  /\ In(c, "Heartbeat")
  /\ IF Mine(c) THEN SignOfLife(c) /\ Reply(c, "OK", TRUE) ELSE Refused(c)

UpdateProgress(c) ==
  /\ In(c, "UpdateProgress")
  /\ IF Mine(c) THEN SignOfLife(c) /\ Reply(c, "OK", TRUE) ELSE Refused(c)

SetJiraURL(c) ==
  /\ In(c, "SetJiraURL")
  /\ UNCHANGED lcVars
  /\ IF Mine(c) THEN Reply(c, "OK", TRUE) ELSE Refused(c)

OpenPR(c) ==
  /\ In(c, "OpenPR")
  /\ IF Mine(c) /\ Finds(c, {"in_progress"}) THEN LC!Park(call[c].by, call[c].id) /\ Reply(c, "OK", TRUE)
     ELSE Refused(c)

\* Checked in one statement, inserted in the next.
AppendLog(c) ==
  /\ In(c, "AppendLog")
  /\ IF Mine(c) THEN Goto(c, "second", FALSE)
     ELSE Reply(c, IF Finds(c, Present) THEN "FailedPrecondition" ELSE "NotFound", FALSE)
  /\ UNCHANGED lcVars

InsertLog(c) ==
  /\ call[c].at = "second" /\ call[c].method = "AppendLog"
  /\ SignOfLife(c)
  /\ IF Finds(c, Present) THEN Reply(c, "OK", TRUE) ELSE Reply(c, "Internal", FALSE)

MutantEveryFailureReportResult(c) ==
  LET t == call[c].id IN
  /\ In(c, "ReportResult")
  /\ IF ~Mine(c) THEN Refused(c)
     ELSE IF call[c].outcome = "completed" THEN LC!Complete(call[c].by, t) /\ Counting(c, "completed")
     ELSE LC!Lapse({t}) /\ Counting(c, "failed")

\* A failure that leaves attempts is a retry and is not counted.
ReportResult(c) ==
  LET t == call[c].id IN
  /\ In(c, "ReportResult")
  /\ IF ~Mine(c) THEN Refused(c)
     ELSE IF call[c].outcome = "completed" THEN LC!Complete(call[c].by, t) /\ Counting(c, "completed")
     ELSE /\ LC!Lapse({t})
          /\ IF LC!Exhausted(t) THEN Counting(c, "failed") ELSE Reply(c, "OK", TRUE)

-----------------------------------------------------------------------------
(* Counters *)

\* Tasks that this step claims, or takes from their holder to an end.
Happened(k) ==
  Cardinality({t \in Tasks :
    \/ k = "claimed" /\ status[t] = "pending" /\ status'[t] = "claimed"
    \/ k # "claimed" /\ status[t] \in LC!Active /\ status'[t] = k})

Observed == owed' = [k \in Counters |-> owed[k] + Happened(k)]

Count(c) ==
  /\ call[c].at = "count"
  /\ owed' = [owed EXCEPT ![call[c].counts] = @ - 1]
  /\ Reply(c, "OK", TRUE)
  /\ UNCHANGED <<lcVars, reaper, faults>>

\* Reaper.Run: the statement, then its counters. tasks_reaped_total, which counts
\* what the statement returned, is left out.
Reap ==
  /\ reaper = 0
  /\ \E S \in SUBSET Tasks :
       LC!Lapse(S) /\ reaper' = Cardinality({t \in S : LC!Exhausted(t)})
  /\ UNCHANGED <<call, faults>>

ReapCount ==
  /\ reaper > 0
  /\ reaper' = 0
  /\ owed' = [owed EXCEPT !["failed"] = @ - reaper]
  /\ UNCHANGED <<lcVars, call, faults>>

-----------------------------------------------------------------------------
(* Faults *)

Fault == faults < MaxFaults /\ faults' = faults + 1

\* A statement fails. A read that only explains is not missed.
StatementFails(c) ==
  /\ call[c].at \in {"handler", "classify", "second"}
  /\ Reply(c, IF call[c].at = "classify" THEN "FailedPrecondition" ELSE "Internal", call[c].did)
  /\ Fault
  /\ UNCHANGED <<lcVars, reaper, owed>>

\* A statement was committed, but its caller is told it failed: nothing is counted.
CommitUnheard(c) ==
  /\ call[c].at = "count"
  /\ owed' = [owed EXCEPT ![call[c].counts] = @ - 1]
  /\ Reply(c, "Internal", TRUE) /\ Fault
  /\ UNCHANGED <<lcVars, reaper>>

ReapUnheard ==
  /\ reaper > 0
  /\ reaper' = 0
  /\ owed' = [owed EXCEPT !["failed"] = @ - reaper] /\ Fault
  /\ UNCHANGED <<lcVars, call>>

\* The client's deadline passes: it hears nothing of what happened.
Deadline(c) ==
  /\ call[c].at \in {"handler", "classify", "second", "reply"}
  /\ Reply(c, "DeadlineExceeded", call[c].did) /\ Fault
  /\ UNCHANGED <<lcVars, reaper, owed>>

-----------------------------------------------------------------------------
ServeAdmin(c) ==
  \/ CreateTask(c) \/ GetTask(c) \/ ListTasks(c) \/ ListTaskLogs(c) \/ ReadLogs(c)
  \/ CancelTask(c) \/ RetryTask(c) \/ ListWorkers(c)
  \/ RequestReview(c) \/ FinalizeTask(c) \/ Classify(c) \/ Reread(c)

ServeTask(c) ==
  \/ ClaimTask(c) \/ Heartbeat(c) \/ UpdateProgress(c) \/ SetJiraURL(c) \/ OpenPR(c)
  \/ AppendLog(c) \/ InsertLog(c) \/ ReportResult(c)

\* The client reads its reply.
Done(c) ==
  /\ call[c].at = "reply"
  /\ call' = [call EXCEPT ![c] = NoCall]
  /\ UNCHANGED <<lcVars, reaper, owed, faults>>

\* The web UI changes tasks too, and counts nothing.
WebUI ==
  /\ \E t \in Tasks :
       \/ \E m \in LC!Limits : LC!Submit(t, m) \/ LC!Edit(t, m)
       \/ LC!Retry(t) \/ LC!Cancel(t) \/ LC!Review(t)
       \/ \E outcome \in LC!Terminal : LC!Finalize(t, outcome)
  /\ UNCHANGED <<call, reaper, faults>>

Others == UNCHANGED <<reaper, faults>>

\* What stands keeps of the past. Nothing else reads it.
Watch == stands' = {c \in WorkerCalls : Mine(c)' /\ (c \in stands \/ call[c].at = "idle")}

Step ==
  \/ \E c \in Admins  : RunCLI(c) \/ RunMCP(c) \/ (ServeAdmin(c) /\ Others /\ Observed)
  \/ \E c \in WorkerCalls : \/ \E w \in Workers : RunWorker(w, c)
                            \/ (ServeTask(c) /\ Others /\ Observed)
                            \/ Count(c) \/ CommitUnheard(c)
  \/ \E c \in Callers : StatementFails(c) \/ Deadline(c) \/ Done(c)
  \/ (WebUI /\ Observed) \/ (Reap /\ Observed) \/ ReapCount \/ ReapUnheard

Next == Step /\ Watch

Spec == Init /\ [][Next]_vars

-----------------------------------------------------------------------------
(* Properties *)

\* Calls are well formed: one that is with its handler names what it needs, and
\* one that is answered has a code.
TypeOK ==
  /\ call \in [Callers -> Call]
  /\ \A c \in Callers :
       /\ call[c].at = "reply" <=> call[c].code # NULL
       /\ call[c].at = "count" => call[c].counts # NULL
       /\ call[c].at = "handler" => call[c].id # "malformed"
  /\ stands \subseteq WorkerCalls
  /\ reaper \in 0 .. Cardinality(Tasks)
  /\ owed \in [Counters -> Int]

\* What a client may conclude from the code it hears, whatever came between the
\* statements of its call. OK: the call did what it was asked. NotFound: the
\* task is not there. Only Internal and DeadlineExceeded leave open whether the call
\* took effect; after any other code it did not.
RepliesTruthful ==
  \A c \in Admins : call[c].at = "reply" =>
    /\ call[c].code = "OK" => call[c].did
    /\ call[c].code = "NotFound" => ~Finds(c, Present)
    /\ call[c].did => call[c].code \in {"OK", "Internal", "DeadlineExceeded"}

\* A refused call did nothing. And its worker does not hold the task, unless
\* another call of that worker has won it back since: to a worker that held the
\* task from the request to the reply only OpenPR is refused, before the first
\* sign of life. Calls of one worker, of others, the web UI and the reaper
\* interleave freely.
RefusedHoldsNothing ==
  \A c \in WorkerCalls : call[c].at = "reply" /\ call[c].code \in {"FailedPrecondition", "NotFound"} =>
    /\ ~call[c].did
    /\ c \in stands => call[c].method = "OpenPR"

\* tasks_claimed_total, tasks_completed_total and tasks_failed_total have counted
\* every claim, report and reap once, but for those a handler is about to count
\* and those it was told had failed. Calls and the reaper interleave freely.
CountersExact ==
  \A k \in Counters :
    owed[k] = Cardinality({c \in WorkerCalls : call[c].at = "count" /\ call[c].counts = k})
              + (IF k = "failed" THEN reaper ELSE 0)
=============================================================================
