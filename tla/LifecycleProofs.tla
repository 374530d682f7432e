--------------------------- MODULE LifecycleProofs ---------------------------
(***************************************************************************)
(* Theorems about TaskLifecycle, for every value of the constants. What is *)
(* proved of its steps here holds of each module whose steps are lifecycle *)
(* steps: WorkerBridge and AdminForms, whose proofs cite it, TaskStore and *)
(* Services by their refinements of it.                                    *)
(***************************************************************************)
EXTENDS TaskLifecycle, TLAPS

\* Every variable stays in its domain.
Domains ==
  /\ status \in [Tasks -> Statuses] /\ holder \in [Tasks -> Workers \union {NULL}]
  /\ attempts \in [Tasks -> Nat] /\ limit \in [Tasks -> Limits]

\* A task may be tried again only while its attempts are below the largest budget.
WithinBudget(t) ==
  /\ attempts[t] <= MaxLimit
  /\ status[t] = "pending" => attempts[t] < MaxLimit
  /\ status[t] = "unborn"  => attempts[t] = 0

\* The inductive invariant of the lifecycle. A task has a holder exactly while it
\* is claimed or in progress.
LifecycleInv ==
  /\ Domains
  /\ \A t \in Tasks : WithinBudget(t)
  /\ \A t \in Tasks : Held(t) <=> holder[t] # NULL

\* The budgets that may be asked for.
LEMMA LimitFacts == MaxLimit \in Nat /\ 0 < MaxLimit /\ \A m \in Limits : m \in Nat /\ m <= MaxLimit
BY LifecycleAssumption DEF Limits

-----------------------------------------------------------------------------
(* Steps on one task *)

\* A step that changes the columns of t alone, and leaves them sound.
Rewrites(t, s, h, a, m) ==
  /\ status'   = [status   EXCEPT ![t] = s] /\ holder' = [holder EXCEPT ![t] = h]
  /\ attempts' = [attempts EXCEPT ![t] = a] /\ limit'  = [limit  EXCEPT ![t] = m]

\* One task is written, the others are left alone.
LEMMA RewriteOK ==
  ASSUME LifecycleInv, NEW t \in Tasks, NEW s \in Statuses, NEW h \in Workers \union {NULL},
         NEW a \in Nat, NEW m \in Limits, Rewrites(t, s, h, a, m),
         a <= MaxLimit, s = "pending" => a < MaxLimit, s = "unborn" => a = 0,
         s \in Active <=> h # NULL
  PROVE  /\ LifecycleInv'
         /\ status'[t] = s /\ attempts'[t] = a
         /\ \A u \in Tasks \ {t} : status'[u] = status[u] /\ attempts'[u] = attempts[u]
<1>1. Domains'
  BY DEF LifecycleInv, Domains, Rewrites
<1>2. /\ status'[t] = s /\ holder'[t] = h /\ attempts'[t] = a
      /\ \A u \in Tasks \ {t} : /\ status'[u] = status[u] /\ holder'[u] = holder[u]
                                /\ attempts'[u] = attempts[u]
  BY DEF LifecycleInv, Domains, Rewrites
<1>3. \A u \in Tasks : WithinBudget(u)'
  BY <1>2 DEF LifecycleInv, WithinBudget
<1>4. \A u \in Tasks : (Held(u) <=> holder[u] # NULL)'
  BY <1>2 DEF LifecycleInv, Held
<1> QED
  BY <1>1, <1>2, <1>3, <1>4 DEF LifecycleInv

\* A column that is not mentioned is written back.
LEMMA WriteBack ==
  ASSUME Domains, NEW t \in Tasks
  PROVE  /\ status = [status EXCEPT ![t] = status[t]] /\ holder = [holder EXCEPT ![t] = holder[t]]
         /\ attempts = [attempts EXCEPT ![t] = attempts[t]] /\ limit = [limit EXCEPT ![t] = limit[t]]
         /\ status[t] \in Statuses /\ holder[t] \in Workers \union {NULL}
         /\ attempts[t] \in Nat /\ limit[t] \in Limits
BY DEF Domains

\* An operator's step keeps the invariant, and leaves the other tasks alone.
LEMMA OperatesOK ==
  ASSUME LifecycleInv, NEW t \in Tasks, Operates(t)
  PROVE  LifecycleInv' /\ \A u \in Tasks : RunsDown(u)
<1>0. /\ Domains /\ WithinBudget(t) /\ (Held(t) <=> holder[t] # NULL)
      /\ 0 \in Nat /\ 1 \in Limits
  BY LifecycleAssumption DEF LifecycleInv, Limits
<1>1. \E s \in Statuses, a \in Nat, m \in Limits :
        /\ Rewrites(t, s, holder[t], a, m)
        /\ a <= MaxLimit /\ (s = "pending" => a < MaxLimit) /\ (s = "unborn" => a = 0)
        /\ s \in Active <=> holder[t] # NULL
  <2>1. ASSUME NEW m \in Limits, Submit(t, m)
        PROVE  /\ Rewrites(t, "pending", holder[t], attempts[t], m)
               /\ attempts[t] = 0 /\ holder[t] = NULL
    BY <1>0, <2>1, WriteBack DEF Submit, Rewrites, WithinBudget, Held, Active
  <2>2. ASSUME NEW m \in Limits, Edit(t, m)
        PROVE  Rewrites(t, status[t], holder[t], attempts[t], m)
    BY <1>0, <2>2, WriteBack DEF Edit, Rewrites
  <2>3. ASSUME Retry(t)
        PROVE  Rewrites(t, "pending", holder[t], 0, limit[t]) /\ holder[t] = NULL
    BY <1>0, <2>3, WriteBack DEF Retry, Rewrites, Held, Active, Settled, Terminal
  <2>4. ASSUME Cancel(t)
        PROVE  Rewrites(t, "deleted", holder[t], 0, 1) /\ holder[t] = NULL
    BY <1>0, <2>4, WriteBack DEF Cancel, Rewrites, Held, Active, Settled, Terminal
  <2>5. ASSUME Review(t)
        PROVE  Rewrites(t, "review_requested", holder[t], attempts[t], limit[t]) /\ holder[t] = NULL
    BY <1>0, <2>5, WriteBack DEF Review, Rewrites, Held, Active
  <2>6. ASSUME NEW outcome \in Terminal, Finalize(t, outcome)
        PROVE  Rewrites(t, outcome, holder[t], attempts[t], limit[t]) /\ holder[t] = NULL
    BY <1>0, <2>6, WriteBack DEF Finalize, Rewrites, Held, Active, Parked
  <2>a. /\ {"pending", "deleted", "review_requested"} \union Terminal \subseteq Statuses
        /\ "pending" \notin Active \union Terminal /\ Terminal \intersect Active = {}
        /\ "deleted" \notin Active /\ "review_requested" \notin Active /\ "unborn" \notin Terminal
    BY DEF Statuses, Settled, Parked, Active, Terminal
  <2>b. /\ status[t] \in Statuses /\ attempts[t] \in Nat /\ limit[t] \in Limits
        /\ attempts[t] <= MaxLimit /\ 0 < MaxLimit
        /\ status[t] = "pending" => attempts[t] < MaxLimit
        /\ status[t] = "unborn" => attempts[t] = 0
        /\ status[t] \in Active <=> holder[t] # NULL
    BY <1>0, WriteBack, LimitFacts DEF WithinBudget, Held
  <2>7. CASE \E m \in Limits : Submit(t, m)
    BY <2>7, <2>1, <2>a, <2>b
  <2>8. CASE \E m \in Limits : Edit(t, m)
    BY <2>8, <2>2, <2>b
  <2>9. CASE Retry(t)
    <3>1. "pending" \in Statuses /\ limit[t] \in Limits
      BY <2>a, <2>b
    <3>2. Rewrites(t, "pending", holder[t], 0, limit[t]) /\ holder[t] = NULL
      BY <2>9, <2>3
    <3>3. 0 <= MaxLimit /\ ("pending" = "pending" => 0 < MaxLimit)
          /\ ("pending" = "unborn" => 0 = 0) /\ ("pending" \in Active <=> holder[t] # NULL)
      BY <3>2, <2>a, <2>b, LimitFacts
    <3> QED
      BY <1>0, <3>1, <3>2, <3>3
  <2>10. CASE Cancel(t)
    <3>1. "deleted" \in Statuses
      BY <2>a
    <3>2. Rewrites(t, "deleted", holder[t], 0, 1) /\ holder[t] = NULL
      BY <2>10, <2>4
    <3>3. 0 <= MaxLimit /\ ("deleted" = "pending" => 0 < MaxLimit)
          /\ ("deleted" = "unborn" => 0 = 0) /\ ("deleted" \in Active <=> holder[t] # NULL)
      BY <3>2, <2>a, <2>b, LimitFacts
    <3> QED
      BY <1>0, <3>1, <3>2, <3>3
  <2>11. CASE Review(t)
    BY <2>11, <2>5, <2>a, <2>b
  <2>12. CASE \E outcome \in Terminal : Finalize(t, outcome)
    BY <2>12, <2>6, <2>a, <2>b
  <2> QED
    BY <2>7, <2>8, <2>9, <2>10, <2>11, <2>12 DEF Operates
<1>2. PICK s \in Statuses, a \in Nat, m \in Limits :
        /\ Rewrites(t, s, holder[t], a, m)
        /\ a <= MaxLimit /\ (s = "pending" => a < MaxLimit) /\ (s = "unborn" => a = 0)
        /\ s \in Active <=> holder[t] # NULL
  BY <1>1
<1>3. holder[t] \in Workers \union {NULL}
  BY <1>0, WriteBack
<1>4. LifecycleInv' /\ \A u \in Tasks \ {t} : status'[u] = status[u] /\ attempts'[u] = attempts[u]
  BY <1>2, <1>3, RewriteOK
<1> QED
  BY <1>4 DEF RunsDown

-----------------------------------------------------------------------------
(* Steps of workers and the reaper *)

\* What is left to do on a task, state by state.
LEMMA WorkValue ==
  ASSUME LifecycleInv, NEW t \in Tasks
  PROVE  /\ status[t] = "pending"     => WorkLeft(t) = 3 * (MaxLimit - attempts[t])
         /\ status[t] = "claimed"     => WorkLeft(t) = 3 * (MaxLimit - attempts[t]) + 2
         /\ status[t] = "in_progress" => WorkLeft(t) = 3 * (MaxLimit - attempts[t]) + 1
         /\ status[t] \notin Active \union {"pending"} => WorkLeft(t) = 0
         /\ attempts[t] \in Nat /\ attempts[t] <= MaxLimit /\ MaxLimit \in Nat
         /\ status[t] = "pending" => attempts[t] < MaxLimit
BY LimitFacts DEF LifecycleInv, Domains, WithinBudget, WorkLeft, Active

\* The same after a step.
LEMMA WorkValueNext ==
  ASSUME LifecycleInv', NEW t \in Tasks
  PROVE  /\ status'[t] = "pending"     => WorkLeft(t)' = 3 * (MaxLimit - attempts'[t])
         /\ status'[t] = "claimed"     => WorkLeft(t)' = 3 * (MaxLimit - attempts'[t]) + 2
         /\ status'[t] = "in_progress" => WorkLeft(t)' = 3 * (MaxLimit - attempts'[t]) + 1
         /\ status'[t] \notin Active \union {"pending"} => WorkLeft(t)' = 0
         /\ attempts'[t] \in Nat /\ attempts'[t] <= MaxLimit
         /\ status'[t] = "pending" => attempts'[t] < MaxLimit
BY LimitFacts DEF LifecycleInv, Domains, WithinBudget, WorkLeft, Active

\* A claim uses up an attempt.
LEMMA ClaimOK ==
  ASSUME LifecycleInv, NEW t \in Tasks, NEW w \in Workers, Claim(w, t)
  PROVE  LifecycleInv' /\ \A u \in Tasks : RunsDown(u)
<1>1. /\ Domains /\ status[t] = "pending" /\ attempts[t] < MaxLimit /\ attempts[t] \in Nat
      /\ limit[t] \in Limits /\ w # NULL
  BY LifecycleAssumption, WriteBack DEF LifecycleInv, WithinBudget, Claim
<1>2. Rewrites(t, "claimed", w, attempts[t] + 1, limit[t])
  BY <1>1, WriteBack DEF Claim, Rewrites
<1>3. /\ LifecycleInv' /\ status'[t] = "claimed" /\ attempts'[t] = attempts[t] + 1
      /\ \A u \in Tasks \ {t} : status'[u] = status[u] /\ attempts'[u] = attempts[u]
  <2>1. /\ "claimed" \in Statuses /\ "claimed" \in Active /\ w \in Workers \union {NULL}
        /\ attempts[t] + 1 \in Nat /\ attempts[t] + 1 <= MaxLimit
    BY <1>1, LimitFacts DEF Statuses, Active
  <2> QED
    BY <1>1, <1>2, <2>1, RewriteOK
<1>4. WorkLeft(t)' \in 0 .. WorkLeft(t) - 1
  BY <1>1, <1>3, WorkValue, WorkValueNext
<1> QED
  BY <1>3, <1>4 DEF RunsDown

\* The first sign of life, a success and a parked task leave the attempts alone.
LEMMA HolderOK ==
  ASSUME LifecycleInv, NEW t \in Tasks, NEW w \in Workers,
         Start(t) \/ Complete(w, t) \/ Park(w, t)
  PROVE  LifecycleInv' /\ \A u \in Tasks : RunsDown(u)
<1>0. Domains /\ (Held(t) <=> holder[t] # NULL) /\ WithinBudget(t)
  BY DEF LifecycleInv
<1>1. PICK s \in {"in_progress", "completed", "pr_opened"} :
        /\ Rewrites(t, s, IF s = "in_progress" THEN holder[t] ELSE NULL, attempts[t], limit[t])
        /\ status[t] \in Active /\ (s = "in_progress" => status[t] = "claimed")
  <2>1. CASE Start(t)
    <3>1. /\ Rewrites(t, "in_progress", holder[t], attempts[t], limit[t])
          /\ status[t] = "claimed"
      BY <1>0, <2>1, WriteBack DEF Start, Rewrites
    <3> QED
      BY <3>1 DEF Active
  <2>2. CASE Complete(w, t)
    <3>1. Rewrites(t, "completed", NULL, attempts[t], limit[t]) /\ status[t] \in Active
      BY <1>0, <2>2, WriteBack DEF Complete, Rewrites, Held
    <3> QED
      BY <3>1
  <2>3. CASE Park(w, t)
    <3>1. Rewrites(t, "pr_opened", NULL, attempts[t], limit[t]) /\ status[t] \in Active
      BY <1>0, <2>3, WriteBack DEF Park, Rewrites, Active
    <3> QED
      BY <3>1
  <2> QED
    BY <2>1, <2>2, <2>3
<1> DEFINE h == IF s = "in_progress" THEN holder[t] ELSE NULL
<1>2. /\ s \in Statuses /\ h \in Workers \union {NULL} /\ (s \in Active <=> h # NULL)
      /\ s # "pending" /\ s # "unborn"
      /\ attempts[t] \in Nat /\ attempts[t] <= MaxLimit /\ limit[t] \in Limits
  BY <1>0, <1>1, WriteBack DEF Held, Statuses, Settled, Terminal, Parked, Active, WithinBudget
<1>3. /\ LifecycleInv' /\ status'[t] = s /\ attempts'[t] = attempts[t]
      /\ \A u \in Tasks \ {t} : status'[u] = status[u] /\ attempts'[u] = attempts[u]
  <2> HIDE DEF h
  <2>1. Rewrites(t, s, h, attempts[t], limit[t])
    BY <1>1 DEF h
  <2> QED
    BY <1>2, <2>1, RewriteOK
<1>4. WorkLeft(t)' \in 0 .. WorkLeft(t) - 1
  BY <1>1, <1>3, WorkValue, WorkValueNext DEF Active
<1> QED
  BY <1>3, <1>4 DEF RunsDown

\* Claims that end without success, one or many, hand nothing back that was not
\* handed out before, and only within the budget.
LEMMA LapseOK ==
  ASSUME LifecycleInv, NEW S \in SUBSET Tasks, Lapse(S)
  PROVE  LifecycleInv' /\ \A u \in Tasks : RunsDown(u)
<1>1. /\ Domains /\ \A t \in Tasks : WithinBudget(t)
      /\ \A t \in Tasks : Held(t) <=> holder[t] # NULL
      /\ attempts' = attempts /\ limit' = limit
  BY DEF LifecycleInv, Lapse
<1>2. \A t \in Tasks \ S : status'[t] = status[t] /\ holder'[t] = holder[t]
  BY DEF Lapse
<1>3. \A t \in S : /\ status[t] \in Active /\ holder'[t] = NULL
                   /\ status'[t] = IF Exhausted(t) THEN "failed" ELSE "pending"
  BY DEF Lapse, Held
<1>4. \A t \in S : status'[t] = "pending" => attempts[t] < MaxLimit
  <2>1. \A t \in S : attempts[t] \in Nat /\ limit[t] \in Nat /\ limit[t] <= MaxLimit
    BY <1>1, WriteBack, LimitFacts
  <2> QED
    BY <1>3, <2>1, LimitFacts DEF Exhausted
<1>5. Domains'
  BY <1>1 DEF Lapse, Domains, Statuses, Settled, Terminal
<1>6. \A t \in Tasks : WithinBudget(t)'
  BY <1>1, <1>2, <1>3, <1>4 DEF WithinBudget
<1>7. \A t \in Tasks : (Held(t) <=> holder[t] # NULL)'
  BY <1>1, <1>2, <1>3 DEF Held, Active
<1>8. LifecycleInv'
  BY <1>5, <1>6, <1>7 DEF LifecycleInv
<1>9. ASSUME NEW t \in S
      PROVE  WorkLeft(t)' \in 0 .. WorkLeft(t) - 1
  <2>1. status[t] = "claimed" \/ status[t] = "in_progress"
    BY <1>3 DEF Active
  <2>2. /\ status'[t] = "pending" \/ status'[t] \notin Active \union {"pending"}
        /\ attempts'[t] = attempts[t]
    BY <1>1, <1>3 DEF Active
  <2> QED
    BY <1>8, <2>1, <2>2, WorkValue, WorkValueNext
<1> QED
  BY <1>1, <1>2, <1>8, <1>9 DEF RunsDown

-----------------------------------------------------------------------------
(* Theorems *)

\* What every step keeps, and what every step uses up.
THEOREM LifecycleStep ==
  ASSUME LifecycleInv, [LifecycleNext]_lcVars
  PROVE  LifecycleInv' /\ \A t \in Tasks : RunsDown(t)
<1>1. CASE UNCHANGED lcVars
  BY <1>1 DEF lcVars, LifecycleInv, Domains, WithinBudget, Held, RunsDown
<1>2. CASE LifecycleNext
  <2>1. \A t \in Tasks : Start(t) => Workers # {}
    BY <1>2 DEF LifecycleInv, Domains, Start, Held, Active
  <2> QED
    BY <1>2, <2>1, OperatesOK, ClaimOK, HolderOK, LapseOK DEF LifecycleNext
<1> QED
  BY <1>1, <1>2

\* The lifecycle starts within its budgets.
LEMMA LifecycleStart == LifecycleInit => LifecycleInv
BY LifecycleAssumption, LimitFacts
   DEF LifecycleInit, LifecycleInv, Domains, WithinBudget, Held, Active, Statuses, Limits

\* No task is held without a holder or handed out more often than the largest
\* budget allows, in any system that implements the lifecycle.
THEOREM LifecycleInvariant == LifecycleSpec => []LifecycleInv
BY LifecycleStart, LifecycleStep, PTL DEF LifecycleSpec

\* No task is handed out and handed back for ever: what workers and the reaper do
\* to it between two interventions of an operator is a finite amount of work.
THEOREM WorkRunsOutHolds == LifecycleSpec => WorkRunsOut
<1>1. LifecycleInv /\ [LifecycleNext]_lcVars => [\A t \in Tasks : RunsDown(t)]_lcVars
  BY LifecycleStep
<1> QED
  BY <1>1, LifecycleInvariant, PTL DEF LifecycleSpec, WorkRunsOut
=============================================================================
