--------------------------- MODULE TaskLifecycle ---------------------------
(***************************************************************************)
(* What the mastermind's task queue promises, without its clock, its SQL   *)
(* columns or its transactions: which lifecycle state a task is in, who    *)
(* holds it, how often it has been handed out and how often it may be.     *)
(* The states are those of store/tasks.go; the transitions are those the   *)
(* conditional UPDATEs of package store can make. They are more than the   *)
(* matrix in store/transitions.go lists: a claimed task may be completed   *)
(* or fail before its first heartbeat (TaskStore, MatrixFollowed).         *)
(*                                                                         *)
(* TaskStore implements this specification; WorkerBridge uses it as the    *)
(* server its worker process talks to.                                     *)
(***************************************************************************)
EXTENDS Integers

CONSTANTS
  Tasks,      \* task ids (UUIDs, never reused)
  Workers,    \* worker ids
  MaxLimit,   \* largest max_attempts any client asks for
  NULL        \* SQL NULL

ASSUME LifecycleAssumption == MaxLimit \in Nat \ {0} /\ NULL \notin Workers

VARIABLES
  status,     \* [Tasks -> Statuses]
  holder,     \* [Tasks -> Workers or NULL]: who holds the claim
  attempts,   \* [Tasks -> Nat]: claims since creation or the last retry
  limit       \* [Tasks -> Nat]: max_attempts

lcVars == <<status, holder, attempts, limit>>

Active   == {"claimed", "in_progress"}
Parked   == {"pr_opened", "review_requested"}
Terminal == {"completed", "failed"}
Settled  == Terminal \union {"pending"}     \* what an admin may retry or cancel
\* "unborn" and "deleted" stand for the absence of a row before and after its life.
Statuses == {"unborn", "deleted"} \union Settled \union Active \union Parked
Limits   == 1 .. MaxLimit

Held(t) == status[t] \in Active

\* Operators named Mutant... are what a slip in the code would make of the
\* definition that follows them; no specification uses them.
MutantLateExhausted(t) == attempts[t] > limit[t]
Exhausted(t) == attempts[t] >= limit[t]

LifecycleInit ==
  /\ status   = [t \in Tasks |-> "unborn"]
  /\ holder   = [t \in Tasks |-> NULL]
  /\ attempts = [t \in Tasks |-> 0]
  /\ limit    = [t \in Tasks |-> 1]

-----------------------------------------------------------------------------
(* Operator side *)

Submit(t, m) ==
  /\ status[t] = "unborn"
  /\ status' = [status EXCEPT ![t] = "pending"]
  /\ limit'  = [limit EXCEPT ![t] = m]
  /\ UNCHANGED <<holder, attempts>>

\* A pending task may be given any budget, also one it has already used up.
Edit(t, m) ==
  /\ status[t] = "pending"
  /\ limit' = [limit EXCEPT ![t] = m]
  /\ UNCHANGED <<status, holder, attempts>>

Retry(t) ==
  /\ status[t] \in Settled
  /\ status'   = [status EXCEPT ![t] = "pending"]
  /\ attempts' = [attempts EXCEPT ![t] = 0]
  /\ UNCHANGED <<holder, limit>>

Cancel(t) ==
  /\ status[t] \in Settled
  /\ status'   = [status EXCEPT ![t] = "deleted"]
  /\ attempts' = [attempts EXCEPT ![t] = 0]
  /\ limit'    = [limit EXCEPT ![t] = 1]
  /\ UNCHANGED holder

Review(t) ==
  /\ status[t] = "pr_opened"
  /\ status' = [status EXCEPT ![t] = "review_requested"]
  /\ UNCHANGED <<holder, attempts, limit>>

Finalize(t, outcome) ==
  /\ status[t] \in Parked
  /\ outcome \in Terminal
  /\ status' = [status EXCEPT ![t] = outcome]
  /\ UNCHANGED <<holder, attempts, limit>>

-----------------------------------------------------------------------------
(* Worker side *)

Claim(w, t) ==
  /\ status[t] = "pending"
  /\ status'   = [status EXCEPT ![t] = "claimed"]
  /\ holder'   = [holder EXCEPT ![t] = w]
  /\ attempts' = [attempts EXCEPT ![t] = @ + 1]
  /\ UNCHANGED limit

\* The first sign of life after a claim. The code lets it come from a log
\* transaction of an earlier holder too, so no caller is named.
Start(t) ==
  /\ status[t] = "claimed"
  /\ status' = [status EXCEPT ![t] = "in_progress"]
  /\ UNCHANGED <<holder, attempts, limit>>

\* From claimed too, as ReportResult's WHERE clause has it.
Complete(w, t) ==
  /\ Held(t) /\ holder[t] = w
  /\ status' = [status EXCEPT ![t] = "completed"]
  /\ holder' = [holder EXCEPT ![t] = NULL]
  /\ UNCHANGED <<attempts, limit>>

Park(w, t) ==
  /\ status[t] = "in_progress" /\ holder[t] = w
  /\ status' = [status EXCEPT ![t] = "pr_opened"]
  /\ holder' = [holder EXCEPT ![t] = NULL]
  /\ UNCHANGED <<attempts, limit>>

\* The claims on S end without success, all at once: a failure report ends one,
\* one pass of the reaper may end many. The budget decides retry or failure.
Lapse(S) ==
  /\ S # {} /\ \A t \in S : Held(t)
  /\ status' = [t \in Tasks |-> IF t \notin S   THEN status[t]
                                ELSE IF Exhausted(t) THEN "failed" ELSE "pending"]
  /\ holder' = [t \in Tasks |-> IF t \in S THEN NULL ELSE holder[t]]
  /\ UNCHANGED <<attempts, limit>>

-----------------------------------------------------------------------------
Operates(t) ==
  \/ \E m \in Limits : Submit(t, m) \/ Edit(t, m)
  \/ Retry(t) \/ Cancel(t) \/ Review(t)
  \/ \E outcome \in Terminal : Finalize(t, outcome)

LifecycleNext ==
  \/ \E t \in Tasks :
       \/ Operates(t) \/ Start(t)
       \/ \E w \in Workers : Claim(w, t) \/ Complete(w, t) \/ Park(w, t)
  \/ \E S \in SUBSET Tasks : Lapse(S)

LifecycleSpec == LifecycleInit /\ [][LifecycleNext]_lcVars

-----------------------------------------------------------------------------
(* Properties *)

\* How many more steps workers and the reaper can take on a task: three for each
\* attempt its budget may still be raised to, and those left of the current one.
WorkLeft(t) ==
  IF status[t] \in Active \union {"pending"}
  THEN 3 * (MaxLimit - attempts[t])
       + CASE status[t] = "claimed" -> 2 [] status[t] = "in_progress" -> 1 [] OTHER -> 0
  ELSE 0

\* A step that is an operator's, or is not about t, or uses up some of its work.
RunsDown(t) ==
  \/ Operates(t)
  \/ status'[t] = status[t] /\ attempts'[t] = attempts[t]
  \/ WorkLeft(t)' \in 0 .. WorkLeft(t) - 1

\* What ReportResult's and ReapStale's comparison of attempt_count with
\* max_attempts is for: no task is handed out and handed back for ever. Between
\* two interventions of an operator everything that happens to a task uses up a
\* finite amount of work, also after edits that move its budget under or over
\* the attempts already made.
WorkRunsOut == [][\A t \in Tasks : RunsDown(t)]_lcVars
=============================================================================
