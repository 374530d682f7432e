---------------------------- MODULE RunnerProofs ----------------------------
(***************************************************************************)
(* Polling workers on the task store, for every number of workers, tasks,  *)
(* connections and faults.                                                 *)
(*                                                                         *)
(* Every step of the composition is a step of the store or leaves it alone *)
(* (RunsOnStore), so what TaskStoreProofs shows of the tables holds here,  *)
(* and only the loops are left to be followed: a claim that is not silent  *)
(* is the one its holder's loop was handed, attempt and all.               *)
(***************************************************************************)
EXTENDS Runner, TaskStoreProofs, FiniteSetTheorems

\* A worker that still holds the task it follows follows this very attempt.
SameAttempt ==
  \A w \in Workers :
    LET t == proc[w].task IN
    t \in Tasks /\ Calls(w, t) => row[t].attempts = proc[w].attempt

\* The inductive invariant: the store's, the loops', and what joins the two.
RInv == IInv /\ RunnerOK /\ SameAttempt

-----------------------------------------------------------------------------
(* The loop's records *)

\* A loop at rest follows nothing.
LEMMA LoopOK ==
  ASSUME NEW at \in {"poll", "sleep", "stopped"}
  PROVE  /\ Loop(at) \in Process /\ Loop(at).task = NULL /\ Loop(at).at = at
BY DEF Loop, Process

\* Constants.
LEMMA RunnerBounds ==
  /\ NULL \notin Tasks /\ NULL \notin Workers /\ NULL \notin Nat
  /\ Burst \in Nat /\ Target \in Nat /\ MaxFaults \in Nat
  /\ Submitted \subseteq Tasks /\ IsFiniteSet(Tasks)
BY RunnerAssumption, StoreAssumption

\* A fault is counted within its bound.
LEMMA FaultOK == RunnerOK /\ Fault => faults' \in 0 .. MaxFaults
BY RunnerBounds DEF RunnerOK, Fault

-----------------------------------------------------------------------------
(* What a step of the store does to claims *)

\* A claim that is known to its holder after the step was so before, with the
\* same holder and the same attempt.
Kept ==
  \A t \in Tasks : row'[t].status \in Active /\ t \notin lost' =>
    /\ row[t].status \in Active /\ t \notin lost
    /\ row'[t].claimedBy = row[t].claimedBy
    /\ row'[t].attempts = row[t].attempts

\* One row is written.
LEMMA KeptRow ==
  ASSUME IInv, NEW t \in Tasks, NEW r, SetRow(t, r), lost' = lost,
         r.status \in Active => /\ row[t].status \in Active
                                /\ r.claimedBy = row[t].claimedBy
                                /\ r.attempts = row[t].attempts
  PROVE  Kept
BY DEF IInv, TypeOK, SetRow, Kept

\* No row is written and no claim is heard of again.
LEMMA KeptSame == row' = row /\ lost \subseteq lost' => Kept
BY DEF Kept

\* CreateTask makes no claim.
LEMMA KeptCreate ==
  ASSUME IInv, NEW t \in Tasks, NEW m, NEW p, NEW d, CreateTask(t, m, p, d)
  PROVE  Kept
<1>1. Fresh(m, p, d).status \notin Active
  BY DEF Fresh, Blank, Active
<1> QED
  BY <1>1, KeptRow DEF CreateTask

\* A holder's call leaves the claim as it is, or ends it.
LEMMA KeptCall ==
  ASSUME IInv, NEW w \in Workers, NEW t \in Tasks,
         \/ Heartbeat(w, t) \/ UpdateProgress(w, t, w)
         \/ \E ok \in BOOLEAN : ReportResult(w, t, ok)
  PROVE  Kept
<1>0. row[t] \in Row
  BY DEF IInv, TypeOK
<1>1. row[t].status \in Active
  BY DEF Heartbeat, UpdateProgress, ReportResult, Calls, HeldBy, Held
<1>2. CASE Heartbeat(w, t)
  <2>1. Beaten(row[t]).claimedBy = row[t].claimedBy /\ Beaten(row[t]).attempts = row[t].attempts
    BY <1>0 DEF Beaten, Row
  <2> QED
    BY <1>1, <1>2, <2>1, KeptRow DEF Heartbeat
<1>3. CASE UpdateProgress(w, t, w)
  <2>1. /\ Noted(row[t], w).claimedBy = row[t].claimedBy
        /\ Noted(row[t], w).attempts = row[t].attempts
    BY <1>0 DEF Noted, Beaten, Row
  <2> QED
    BY <1>1, <1>3, <2>1, KeptRow DEF UpdateProgress
<1>4. ASSUME NEW ok \in BOOLEAN, ReportResult(w, t, ok) PROVE Kept
  <2> DEFINE r == IF ok THEN Completed(row[t]) ELSE Failed(row[t], "reported")
  <2>1. r.status \notin Active
    BY <1>0 DEF Completed, Failed, Row, Active
  <2>2. SetRow(t, r) /\ lost' = lost
    BY <1>4 DEF ReportResult
  <2> HIDE DEF r
  <2> QED
    BY <2>1, <2>2, KeptRow
<1> QED
  BY <1>2, <1>3, <1>4

\* A statement of a log transaction at most renews a lease.
LEMMA KeptLog ==
  ASSUME IInv, NEW c \in Conns, LogCheck(c) \/ LogInsert(c) \/ LogCommit(c) \/ LogAbort(c)
  PROVE  Kept
<1>1. CASE LogCommit(c)
  <2> DEFINE t == tx[c].task
             r == LogBeaten(row[t], tx[c].age)
  <2>1. t \in Tasks /\ SetRow(t, r) /\ lost' = lost /\ row[t] \in Row
    BY <1>1 DEF LogCommit, IInv, TypeOK
  <2>2. /\ r.claimedBy = row[t].claimedBy /\ r.attempts = row[t].attempts
        /\ r.status \in Active => row[t].status \in Active
    BY <2>1 DEF LogBeaten, Beating, Row, Active
  <2> HIDE DEF r, t
  <2> QED
    BY <2>1, <2>2, KeptRow
<1>2. CASE row' = row /\ lost' = lost
  BY <1>2, KeptSame
<1> QED
  BY <1>1, <1>2 DEF LogCheck, LogInsert, LogAbort

\* The reaper forgets a silent claim only by ending it.
LEMMA KeptReap == IInv /\ ReapStale => Kept
<1> SUFFICES ASSUME IInv, ReapStale, NEW t \in Tasks,
                    row'[t].status \in Active, t \notin lost'
             PROVE  row'[t] = row[t] /\ t \notin lost
  BY DEF Kept
<1>1. row[t] \in Row
  BY DEF IInv, TypeOK
<1>2. Failed(row[t], "lease_expired").status \notin Active
  BY <1>1 DEF Failed, Row, Active
<1> QED
  BY <1>2 DEF ReapStale

\* Time passes.
LEMMA KeptTick == IInv /\ Tick => Kept
<1> SUFFICES ASSUME IInv, Tick PROVE Kept
  OBVIOUS
<1>1. \A t \in Tasks : /\ row'[t].status = row[t].status
                       /\ row'[t].claimedBy = row[t].claimedBy
                       /\ row'[t].attempts = row[t].attempts
  BY DEF IInv, TypeOK, Tick, Aged, Row
<1> QED
  BY <1>1 DEF Kept, Tick

-----------------------------------------------------------------------------
(* Steps of the composition *)

\* The store takes a step that keeps claims, while no loop turns to another
\* task or drops one it still holds.
LEMMA Follow ==
  ASSUME RInv, IInv', Kept,
         proc' \in [Workers -> Process],
         \A w \in Workers : proc'[w].task # NULL <=> proc'[w].at \in {"work", "report"},
         \A w \in Workers :
           \/ proc'[w].task = proc[w].task /\ proc'[w].attempt = proc[w].attempt
           \/ /\ proc'[w].task = NULL
              /\ \A t \in Tasks : row'[t].status \in Active /\ row'[t].claimedBy = w => t \in lost',
         seeder' \in Nat \union {NULL}, faults' \in 0 .. MaxFaults
  PROVE  RInv'
<1>1. ASSUME NEW t \in Tasks, row'[t].status \in Active, t \notin lost'
      PROVE  proc'[row'[t].claimedBy].task = t
  <2>1. /\ row[t].status \in Active /\ t \notin lost
        /\ row'[t].claimedBy = row[t].claimedBy
    BY <1>1 DEF Kept
  <2>2. row[t].claimedBy \in Workers /\ proc[row[t].claimedBy].task = t
    BY <2>1 DEF RInv, RunnerOK, Held, IInv, TypeOK, RowOK, Row
  <2> QED
    BY <1>1, <2>1, <2>2
<1>2. RunnerOK'
  BY <1>1 DEF RunnerOK, Held
<1>3. ASSUME NEW w \in Workers, proc'[w].task \in Tasks,
             row'[proc'[w].task].status \in Active, row'[proc'[w].task].claimedBy = w,
             proc'[w].task \notin lost'
      PROVE  row'[proc'[w].task].attempts = proc'[w].attempt
  <2> DEFINE t == proc'[w].task
  <2>1. proc[w].task = t /\ proc'[w].attempt = proc[w].attempt
    BY <1>3, RunnerBounds
  <2>2. /\ row[t].status \in Active /\ t \notin lost
        /\ row'[t].claimedBy = row[t].claimedBy /\ row'[t].attempts = row[t].attempts
    BY <1>3 DEF Kept
  <2> QED
    BY <1>3, <2>1, <2>2 DEF RInv, SameAttempt, Calls, HeldBy, Held
<1>4. SameAttempt'
  BY <1>3 DEF SameAttempt, Calls, HeldBy, Held
<1> QED
  BY <1>2, <1>4 DEF RInv

\* One loop moves on, keeping its task or dropping one it no longer holds.
LEMMA Turn ==
  ASSUME RInv, [Next]_vars, Kept, NEW w \in Workers, NEW p \in Process, Goto(w, p),
         p.task # NULL <=> p.at \in {"work", "report"},
         \/ p.task = proc[w].task /\ p.attempt = proc[w].attempt
         \/ /\ p.task = NULL
            /\ \A t \in Tasks : row'[t].status \in Active /\ row'[t].claimedBy = w => t \in lost',
         seeder' = seeder, faults' \in 0 .. MaxFaults
  PROVE  RInv'
<1>1. IInv'
  BY NextIInv DEF RInv
<1>2. /\ proc' \in [Workers -> Process] /\ proc'[w] = p
      /\ \A v \in Workers \ {w} : proc'[v] = proc[v]
  BY DEF RInv, RunnerOK, Goto
<1>3. \A v \in Workers :
           \/ proc'[v].task = proc[v].task /\ proc'[v].attempt = proc[v].attempt
           \/ /\ proc'[v].task = NULL
              /\ \A t \in Tasks : row'[t].status \in Active /\ row'[t].claimedBy = v => t \in lost'
  BY <1>2
<1>4. \A v \in Workers : proc'[v].task # NULL <=> proc'[v].at \in {"work", "report"}
  BY <1>2 DEF RInv, RunnerOK
<1>5. seeder' \in Nat \union {NULL}
  BY DEF RInv, RunnerOK
<1> QED
  BY <1>1, <1>2, <1>3, <1>4, <1>5, Follow

\* The loops stand still while the store takes a step that keeps claims.
LEMMA Still ==
  ASSUME RInv, [Next]_vars, Kept, proc' = proc,
         seeder' \in Nat \union {NULL}, faults' = faults
  PROVE  RInv'
<1>1. IInv'
  BY NextIInv DEF RInv
<1>2. /\ proc' \in [Workers -> Process]
      /\ \A w \in Workers : proc'[w].task # NULL <=> proc'[w].at \in {"work", "report"}
      /\ faults' \in 0 .. MaxFaults
  BY DEF RInv, RunnerOK
<1> QED
  BY <1>1, <1>2, Follow

\* A worker that follows nothing holds only silent claims.
LEMMA NothingHeld ==
  ASSUME RInv, NEW w \in Workers, NEW t \in Tasks, HeldBy(t, w), proc[w].task # t
  PROVE  t \in lost
BY DEF RInv, RunnerOK, HeldBy, Held

\* The task of a loop at work is a task.
LEMMA Following ==
  ASSUME RInv, NEW w \in Workers, proc[w].at \in {"work", "report"}
  PROVE  proc[w].task \in Tasks /\ proc[w] \in Process
<1>1. proc[w] \in Process /\ proc[w].task # NULL
  BY DEF RInv, RunnerOK
<1> QED
  BY <1>1 DEF Process

-----------------------------------------------------------------------------
(* Every action is a step of the store, or leaves it alone *)

LEMMA OnStore == RInv /\ [RunnerNext]_runnerVars => [Next]_vars
<1> SUFFICES ASSUME RInv, RunnerNext PROVE [Next]_vars
  BY DEF runnerVars, storeVars
<1>1. ASSUME NEW w \in Workers, LoopNext(w) PROVE [Next]_vars
  <2>1. ASSUME NEW t \in Tasks, WorkerNext(w, t) PROVE Next
    BY <2>1 DEF Next
  <2>2. CASE Claim(w) \/ ClaimUnheard(w)
    <3>1. PICK t \in Tasks, d \in BOOLEAN : ClaimTask(w, t, d)
      BY <2>2 DEF Claim, ClaimUnheard
    <3> QED
      BY <2>1, <3>1 DEF WorkerNext, HolderNext
  <2>3. CASE Beat(w) \/ Note(w)
    <3>1. proc[w].task \in Tasks
      BY <2>3, Following DEF Beat, Note
    <3>2. Heartbeat(w, proc[w].task) \/ UpdateProgress(w, proc[w].task, w)
      BY <2>3 DEF Beat, Note
    <3> QED
      BY <2>1, <3>1, <3>2 DEF WorkerNext, HolderNext
  <2>4. CASE Report(w)
    <3>1. proc[w].task \in Tasks /\ proc[w].ok \in BOOLEAN
      BY <2>4, Following DEF Report, Process
    <3>2. ReportResult(w, proc[w].task, proc[w].ok) \/ UNCHANGED vars
      BY <2>4 DEF Report, storeVars
    <3> QED
      BY <2>1, <3>1, <3>2 DEF WorkerNext, HolderNext
  <2>5. CASE AppendLog(w)
    <3>1. proc[w].task \in Tasks
      BY <2>5, Following DEF AppendLog
    <3>2. PICK c \in Conns : LogBegin(c, w, proc[w].task)
      BY <2>5 DEF AppendLog
    <3> QED
      BY <3>1, <3>2 DEF Next, LogNext
  <2>6. CASE ReportUnsent(w) \/ Stop(w)
    BY <2>6 DEF ReportUnsent, Stop, LeftBehind, Next
  <2>7. CASE ClaimNothing(w) \/ Wake(w) \/ Start(w) \/ HandlerEnds(w)
    BY <2>7 DEF ClaimNothing, Wake, Start, HandlerEnds, HandlerReturns, storeVars
  <2> QED
    BY <1>1, <2>2, <2>3, <2>4, <2>5, <2>6, <2>7 DEF LoopNext, LoopStep
<1>2. ASSUME NEW c \in Conns, LogStep(c) \/ LogFails(c) PROVE Next
  BY <1>2 DEF LogStep, LogFails, Next, LogNext
<1>3. CASE SeederTick
  BY <1>3 DEF SeederTick, storeVars
<1>4. CASE SeedOne \/ Submit
  <2>1. CASE UNCHANGED vars
    BY <2>1
  <2>2. CASE ~UNCHANGED vars
    <3>1. PICK t \in Tasks, m \in Limits, p \in Priorities, d \in Delays : CreateTask(t, m, p, d)
      <4>1. MaxLimit \in Limits /\ 0 \in Delays
        BY StoreAssumption DEF Limits, Delays
      <4> QED
        BY <1>4, <2>2, <4>1, RunnerBounds DEF SeedOne, Submit, storeVars
    <3> QED
      BY <3>1 DEF Next, OperatorNext
  <2> QED
    BY <2>1, <2>2
<1>5. CASE Clock \/ Reap
  BY <1>5 DEF Clock, Reap, Next
<1> QED
  BY <1>1, <1>2, <1>3, <1>4, <1>5 DEF RunnerNext

-----------------------------------------------------------------------------
(* Every action preserves the invariant *)

\* The loops start without a task.
LEMMA InitRInv == RunnerInit => RInv
<1> SUFFICES ASSUME RunnerInit PROVE RInv
  OBVIOUS
<1>1. IInv
  BY InitIInv DEF RunnerInit
<1>2. \A w \in Workers : proc[w] = Loop("poll") /\ proc[w] \in Process
                         /\ proc[w].task = NULL /\ proc[w].at = "poll"
  BY LoopOK DEF RunnerInit
<1>3. \A t \in Tasks : ~Held(t)
  BY DEF RunnerInit, Init, Held, Blank, Active
<1>4. RunnerOK
  BY <1>2, <1>3, RunnerBounds DEF RunnerOK, RunnerInit
<1>5. SameAttempt
  BY <1>3 DEF SameAttempt, Calls, HeldBy
<1> QED
  BY <1>1, <1>4, <1>5 DEF RInv

\* The row a claim hands out, and the others.
LEMMA ClaimRow ==
  ASSUME IInv, NEW w \in Workers, NEW t \in Tasks, NEW d \in BOOLEAN, ClaimTask(w, t, d)
  PROVE  /\ row[t].status = "pending" /\ t \notin lost
         /\ row'[t].claimedBy = w /\ row'[t].attempts \in Nat
         /\ \A u \in Tasks \ {t} : row'[u] = row[u]
<1>1. row \in [Tasks -> Row] /\ row[t] \in Row /\ row[t].status = "pending"
  BY DEF IInv, TypeOK, ClaimTask, Eligible
<1>2. t \notin lost
  BY <1>1 DEF IInv, Held, Active
<1> QED
  BY <1>1, <1>2 DEF ClaimTask, SetRow, Claimed, Row

\* A claim that is heard of is followed, with the attempt it started.
LEMMA ClaimRInv ==
  ASSUME RInv, NEW w \in Workers, Claim(w)
  PROVE  RInv'
<1>1. PICK t \in Tasks : ClaimTask(w, t, TRUE) /\ Goto(w, Handed(t))
  BY DEF Claim
<1>2. IInv'
  <2>1. Next
    BY <1>1 DEF Next, WorkerNext, HolderNext
  <2> QED
    BY <2>1, NextIInv DEF RInv
<1>3. /\ row[t].status = "pending" /\ t \notin lost
      /\ row'[t].claimedBy = w /\ row'[t].attempts \in Nat
      /\ \A u \in Tasks \ {t} : row'[u] = row[u]
  BY <1>1, ClaimRow DEF RInv
<1>4. lost' = lost
  BY <1>1 DEF ClaimTask
<1> DEFINE p == Handed(t)
<1>5. /\ p \in Process /\ p.task = t /\ p.at = "work" /\ p.attempt = row'[t].attempts
  BY <1>3 DEF Handed, Loop, Process
<1>6. Goto(w, p)
  BY <1>1
<1> HIDE DEF p
<1>7. /\ proc' \in [Workers -> Process] /\ proc'[w] = p
      /\ \A v \in Workers \ {w} : proc'[v] = proc[v]
  BY <1>5, <1>6 DEF RInv, RunnerOK, Goto
<1>8. proc[w].task = NULL
  BY DEF RInv, RunnerOK, Claim
<1>9. ASSUME NEW u \in Tasks, row'[u].status \in Active, u \notin lost'
      PROVE  proc'[row'[u].claimedBy].task = u
  <2>1. CASE u = t
    BY <1>3, <1>5, <1>7, <2>1
  <2>2. CASE u # t
    <3>1. row'[u] = row[u] /\ Held(u) /\ u \notin lost
      BY <1>3, <1>4, <1>9, <2>2 DEF Held
    <3>2. row[u].claimedBy \in Workers /\ proc[row[u].claimedBy].task = u
      BY <3>1 DEF RInv, RunnerOK, Held, IInv, TypeOK, RowOK, Row
    <3>3. row[u].claimedBy # w
      BY <1>8, <3>2, RunnerBounds
    <3> QED
      BY <1>7, <3>1, <3>2, <3>3
  <2> QED
    BY <2>1, <2>2
<1>10. \A v \in Workers : proc'[v].task # NULL <=> proc'[v].at \in {"work", "report"}
  BY <1>5, <1>7, RunnerBounds DEF RInv, RunnerOK
<1>11. RunnerOK'
  <2>1. seeder' \in Nat \union {NULL} /\ faults' \in 0 .. MaxFaults
    BY DEF Claim, RInv, RunnerOK
  <2> QED
    BY <1>7, <1>9, <1>10, <2>1 DEF RunnerOK, Held
<1>12. ASSUME NEW v \in Workers, NEW u \in Tasks, proc'[v].task = u,
              row'[u].status \in Active, row'[u].claimedBy = v, u \notin lost'
       PROVE  row'[u].attempts = proc'[v].attempt
  <2>1. CASE v = w
    BY <1>5, <1>7, <1>12, <2>1
  <2>2. CASE v # w
    <3>1. u # t
      BY <1>3, <1>12, <2>2
    <3>2. /\ row'[u] = row[u] /\ proc'[v] = proc[v] /\ Calls(v, u) /\ proc[v].task = u
      BY <1>3, <1>4, <1>7, <1>12, <2>2, <3>1 DEF Calls, HeldBy, Held
    <3> QED
      BY <3>2 DEF RInv, SameAttempt
  <2> QED
    BY <2>1, <2>2
<1>13. SameAttempt'
  BY <1>12 DEF SameAttempt, Calls, HeldBy, Held
<1> QED
  BY <1>2, <1>11, <1>13 DEF RInv

\* A claim that is not heard of is silent from the start.
LEMMA UnheardRInv ==
  ASSUME RInv, NEW w \in Workers, ClaimUnheard(w)
  PROVE  RInv'
<1>1. PICK t \in Tasks : ClaimTask(w, t, FALSE)
  BY DEF ClaimUnheard
<1>2. [Next]_vars
  BY <1>1 DEF Next, WorkerNext, HolderNext
<1>3. /\ row[t].status = "pending" /\ t \notin lost /\ row'[t].claimedBy = w
      /\ \A u \in Tasks \ {t} : row'[u] = row[u]
  BY <1>1, ClaimRow DEF RInv
<1>4. lost' = lost \union {t}
  BY <1>1 DEF ClaimTask
<1>5. Kept
  BY <1>3, <1>4 DEF Kept
<1>6. proc[w].task = NULL
  BY DEF RInv, RunnerOK, ClaimUnheard
<1>7. ASSUME NEW u \in Tasks, row'[u].status \in Active, row'[u].claimedBy = w
      PROVE  u \in lost'
  <2>1. CASE u # t
    BY <1>3, <1>4, <1>6, <1>7, <2>1, NothingHeld, RunnerBounds DEF HeldBy, Held
  <2> QED
    BY <1>4, <2>1
<1> DEFINE p == Loop("sleep")
<1>8. p \in Process /\ p.task = NULL /\ p.at = "sleep" /\ Goto(w, p)
  BY LoopOK DEF ClaimUnheard
<1> HIDE DEF p
<1>9. seeder' = seeder /\ faults' \in 0 .. MaxFaults
  BY FaultOK DEF ClaimUnheard, RInv
<1> QED
  BY <1>2, <1>5, <1>7, <1>8, <1>9, Turn

\* A loop that has nothing in hand moves between its resting states.
LEMMA RestRInv ==
  ASSUME RInv, NEW w \in Workers, ClaimNothing(w) \/ Wake(w) \/ Start(w)
  PROVE  RInv'
<1>1. PICK at \in {"poll", "sleep"} : Goto(w, Loop(at))
  BY DEF ClaimNothing, Wake, Start
<1>2. /\ [Next]_vars /\ row' = row /\ lost' = lost
      /\ seeder' = seeder
  BY DEF ClaimNothing, Wake, Start, storeVars, vars
<1>3. faults' \in 0 .. MaxFaults
  BY FaultOK DEF ClaimNothing, Wake, Start, RInv, RunnerOK
<1>4. Kept
  BY <1>2, KeptSame
<1>5. proc[w].task = NULL
  BY DEF RInv, RunnerOK, ClaimNothing, Wake, Start
<1>6. ASSUME NEW u \in Tasks, row'[u].status \in Active, row'[u].claimedBy = w
      PROVE  u \in lost'
  BY <1>2, <1>5, <1>6, NothingHeld, RunnerBounds DEF HeldBy, Held
<1> DEFINE p == Loop(at)
<1>7. p \in Process /\ p.task = NULL /\ p.at \in {"poll", "sleep"} /\ Goto(w, p)
  BY <1>1, LoopOK
<1> HIDE DEF p
<1> QED
  BY <1>2, <1>3, <1>4, <1>6, <1>7, Turn

\* Heartbeats and notes keep the claim.
LEMMA BeatRInv ==
  ASSUME RInv, NEW w \in Workers, Beat(w) \/ Note(w)
  PROVE  RInv'
<1>1. proc[w].task \in Tasks
  BY Following DEF Beat, Note
<1>2. Heartbeat(w, proc[w].task) \/ UpdateProgress(w, proc[w].task, w)
  BY DEF Beat, Note
<1>3. Kept
  BY <1>1, <1>2, KeptCall DEF RInv
<1>4. [Next]_vars
  BY <1>1, <1>2 DEF Next, WorkerNext, HolderNext
<1>5. proc' = proc /\ seeder' \in Nat \union {NULL} /\ faults' = faults
  BY DEF Beat, Note, RInv, RunnerOK
<1> QED
  BY <1>3, <1>4, <1>5, Still

\* A log call is begun.
LEMMA AppendRInv ==
  ASSUME RInv, NEW w \in Workers, AppendLog(w)
  PROVE  RInv'
<1>1. proc[w].task \in Tasks /\ proc[w] \in Process /\ proc[w].at = "work"
  BY Following DEF AppendLog
<1>2. PICK c \in Conns : LogBegin(c, w, proc[w].task) /\ Goto(w, [proc[w] EXCEPT !.call = c])
  BY DEF AppendLog
<1>3. [Next]_vars
  BY <1>1, <1>2 DEF Next, LogNext
<1>4. Kept
  BY <1>2, KeptSame DEF LogBegin
<1> DEFINE p == [proc[w] EXCEPT !.call = c]
<1>5. /\ p \in Process /\ p.task = proc[w].task /\ p.attempt = proc[w].attempt
      /\ p.at = "work"
  BY <1>1 DEF Process
<1>6. Goto(w, p)
  BY <1>2
<1> HIDE DEF p
<1>7. p.task # NULL <=> p.at \in {"work", "report"}
  BY <1>1, <1>5, RunnerBounds
<1>8. seeder' = seeder /\ faults' \in 0 .. MaxFaults
  BY DEF AppendLog, RInv, RunnerOK
<1> QED
  BY <1>3, <1>4, <1>5, <1>6, <1>7, <1>8, Turn

\* The handler returns: the loop turns to the report.
LEMMA HandlerRInv ==
  ASSUME RInv, NEW w \in Workers, HandlerEnds(w)
  PROVE  RInv'
<1>1. PICK ok \in BOOLEAN : HandlerReturns(w, ok)
  BY DEF HandlerEnds
<1>2. proc[w].task \in Tasks /\ proc[w] \in Process
  BY <1>1, Following DEF HandlerReturns
<1>3. [Next]_vars /\ row' = row /\ lost' = lost /\ seeder' = seeder /\ faults' = faults
  BY <1>1 DEF HandlerReturns, storeVars, vars
<1>4. Kept
  BY <1>3, KeptSame
<1> DEFINE p == [proc[w] EXCEPT !.at = "report", !.ok = ok]
<1>5. p \in Process
  BY <1>2 DEF Process
<1>6. p.task = proc[w].task /\ p.attempt = proc[w].attempt /\ p.at = "report"
  BY <1>2 DEF Process
<1>7. Goto(w, p)
  BY <1>1 DEF HandlerReturns
<1> HIDE DEF p
<1>8. p.task # NULL <=> p.at \in {"work", "report"}
  BY <1>2, <1>6, RunnerBounds
<1>9. faults' \in 0 .. MaxFaults
  BY <1>3 DEF RInv, RunnerOK
<1> QED
  BY <1>3, <1>4, <1>5, <1>6, <1>7, <1>8, <1>9, Turn

\* After a report the worker holds nothing it knows of, whether the report
\* ended its claim or found it ended.
LEMMA ReportRInv ==
  ASSUME RInv, NEW w \in Workers, Report(w)
  PROVE  RInv'
<1> DEFINE t == proc[w].task
<1>1. t \in Tasks /\ proc[w].ok \in BOOLEAN
  BY Following DEF Report, Process
<1>2. /\ Calls(w, t) => ReportResult(w, t, proc[w].ok)
      /\ ~Calls(w, t) => UNCHANGED vars
  BY DEF Report, storeVars
<1>3. [Next]_vars
  BY <1>1, <1>2 DEF Next, WorkerNext, HolderNext
<1>4. Kept
  BY <1>1, <1>2, KeptCall, KeptSame DEF RInv, vars
<1>5. ASSUME NEW u \in Tasks, row'[u].status \in Active, row'[u].claimedBy = w, u \notin lost'
      PROVE  FALSE
  <2>1. HeldBy(u, w) /\ u \notin lost
    BY <1>4, <1>5 DEF Kept, HeldBy, Held
  <2>2. u = t
    BY <2>1, NothingHeld
  <2>3. Calls(w, t)
    BY <2>1, <2>2 DEF Calls
  <2>4. row'[t] = IF proc[w].ok THEN Completed(row[t]) ELSE Failed(row[t], "reported")
    BY <1>1, <1>2, <2>3 DEF ReportResult, SetRow, RInv, IInv, TypeOK
  <2>5. row[t] \in Row
    BY <1>1 DEF RInv, IInv, TypeOK
  <2>6. row'[t].status \notin Active
    BY <2>4, <2>5 DEF Completed, Failed, Row, Active
  <2> QED
    BY <1>5, <2>2, <2>6
<1> DEFINE p == Loop("poll")
<1>6. p \in Process /\ p.task = NULL /\ p.at = "poll" /\ Goto(w, p)
  BY LoopOK DEF Report
<1> HIDE DEF p
<1>7. seeder' = seeder /\ faults' \in 0 .. MaxFaults
  BY DEF Report, RInv, RunnerOK
<1> QED
  BY <1>3, <1>4, <1>5, <1>6, <1>7, Turn

\* A worker that leaves its claim behind leaves it silent.
LEMMA LeaveRInv ==
  ASSUME RInv, NEW w \in Workers, ReportUnsent(w) \/ Stop(w)
  PROVE  RInv'
<1>1. Crash(w) /\ seeder' = seeder /\ Fault
  BY DEF ReportUnsent, Stop, LeftBehind
<1>2. [Next]_vars
  BY <1>1 DEF Next
<1>3. row' = row /\ lost' = lost \union {u \in Tasks : HeldBy(u, w)}
  BY <1>1 DEF Crash
<1>4. Kept
  BY <1>3, KeptSame
<1>5. ASSUME NEW u \in Tasks, row'[u].status \in Active, row'[u].claimedBy = w
      PROVE  u \in lost'
  BY <1>3, <1>5 DEF HeldBy, Held
<1>6. PICK at \in {"poll", "stopped"} : Goto(w, Loop(at))
  BY DEF ReportUnsent, Stop
<1> DEFINE p == Loop(at)
<1>7. p \in Process /\ p.task = NULL /\ p.at \in {"poll", "stopped"} /\ Goto(w, p)
  BY <1>6, LoopOK
<1> HIDE DEF p
<1>8. faults' \in 0 .. MaxFaults
  BY <1>1, FaultOK DEF RInv
<1> QED
  BY <1>1, <1>2, <1>4, <1>5, <1>7, <1>8, Turn

\* A log call goes on or ends: its caller waits or not, with the same claim.
LEMMA LogRInv ==
  ASSUME RInv, NEW c \in Conns, LogStep(c) \/ LogFails(c)
  PROVE  RInv'
<1>1. LogCheck(c) \/ LogInsert(c) \/ LogCommit(c) \/ LogAbort(c)
  BY DEF LogStep, LogFails
<1>2. IInv'
  <2>1. Next
    BY <1>1 DEF Next, LogNext
  <2> QED
    BY <2>1, NextIInv DEF RInv
<1>3. Kept
  BY <1>1, KeptLog DEF RInv
<1>4. Returned(c)
  BY DEF LogStep, LogFails
<1>5. seeder' \in Nat \union {NULL} /\ faults' \in 0 .. MaxFaults
  BY FaultOK DEF LogStep, LogFails, RInv, RunnerOK
<1>6. ASSUME NEW w \in Workers
      PROVE  /\ proc'[w] \in Process /\ proc'[w].task = proc[w].task
             /\ proc'[w].attempt = proc[w].attempt /\ proc'[w].at = proc[w].at
  <2>1. proc[w] \in Process
    BY DEF RInv, RunnerOK
  <2>2. proc'[w] = [proc[w] EXCEPT !.call = NULL] \/ proc'[w] = proc[w]
    BY <1>4 DEF Returned
  <2> QED
    BY <2>1, <2>2 DEF Process
<1>7. proc' \in [Workers -> Process]
  BY <1>4, <1>6 DEF Returned
<1>8. \A w \in Workers : proc'[w].task # NULL <=> proc'[w].at \in {"work", "report"}
  BY <1>6 DEF RInv, RunnerOK
<1> QED
  BY <1>2, <1>3, <1>5, <1>6, <1>7, <1>8, Follow

\* The size of a batch is a number of tasks.
LEMMA BatchOK == SeederTick => seeder' \in Nat
<1> SUFFICES ASSUME SeederTick PROVE seeder' \in Nat
  OBVIOUS
<1> DEFINE k == Cardinality({t \in Tasks : row[t].status = "pending"})
<1>1. k \in Nat
  BY RunnerBounds, FS_Subset, FS_CardinalityType
<1> HIDE DEF k
<1>2. ASSUME NEW a \in Nat, NEW b \in Nat PROVE Least(a, b) \in Nat /\ Most(a, b) \in Nat
  BY DEF Least, Most
<1> DEFINE q == Least(k, 200)
           s == IF Target > q THEN Target - q ELSE 0
<1>3. q \in Nat
  BY <1>1, <1>2
<1>4. seeder' = Least(Most(s, Burst), 6)
  BY DEF SeederTick, k
<1> HIDE DEF q
<1>5. s \in Nat
  BY <1>3, RunnerBounds
<1> HIDE DEF s
<1> QED
  BY <1>2, <1>4, <1>5, RunnerBounds

\* The seeder, the operator, the clock and the reaper leave the loops alone.
LEMMA RestOfSystemRInv ==
  ASSUME RInv, SeederTick \/ SeedOne \/ Submit \/ Clock \/ Reap
  PROVE  RInv'
<1>1. proc' = proc /\ faults' = faults
  BY DEF SeederTick, SeedOne, Submit, Clock, Reap
<1>2. [Next]_vars
  BY OnStore DEF RunnerNext
<1>3. seeder' \in Nat \union {NULL}
  <2>1. CASE SeederTick
    BY <2>1, BatchOK
  <2>2. CASE SeedOne
    <3>1. seeder' = NULL \/ (seeder > 0 /\ seeder' = seeder - 1 /\ seeder # NULL)
      BY <2>2 DEF SeedOne
    <3> QED
      BY <3>1 DEF RInv, RunnerOK
  <2> QED
    BY <2>1, <2>2 DEF Submit, Clock, Reap, RInv, RunnerOK
<1>4. Kept
  <2>1. CASE row' = row /\ lost' = lost
    BY <2>1, KeptSame
  <2>2. ASSUME NEW t \in Tasks, NEW m, NEW p, NEW d, CreateTask(t, m, p, d)
        PROVE  Kept
    BY <2>2, KeptCreate DEF RInv
  <2> QED
    BY <2>1, <2>2, KeptTick, KeptReap, RunnerBounds
       DEF SeederTick, SeedOne, Submit, Clock, Reap, RInv, storeVars, vars
<1> QED
  BY <1>1, <1>2, <1>3, <1>4, Still

\* The invariant is inductive.
LEMMA NextRInv == RInv /\ [RunnerNext]_runnerVars => RInv'
<1> SUFFICES ASSUME RInv, [RunnerNext]_runnerVars PROVE RInv'
  OBVIOUS
<1>1. ASSUME NEW w \in Workers, LoopNext(w) PROVE RInv'
  BY <1>1, ClaimRInv, UnheardRInv, RestRInv, BeatRInv, AppendRInv, HandlerRInv, ReportRInv, LeaveRInv
     DEF LoopNext, LoopStep
<1>2. CASE UNCHANGED runnerVars
  <2>1. [Next]_vars /\ row' = row /\ lost' = lost /\ proc' = proc
        /\ seeder' = seeder /\ faults' = faults
    BY <1>2 DEF runnerVars, storeVars, vars
  <2>2. Kept
    BY <2>1, KeptSame
  <2> QED
    BY <2>1, <2>2, Still DEF RInv, RunnerOK
<1> QED
  BY <1>1, <1>2, LogRInv, RestOfSystemRInv DEF RunnerNext

LEMMA RunnerInvariant == RunnerSpec => []RInv
BY InitRInv, NextRInv, PTL DEF RunnerSpec

-----------------------------------------------------------------------------
(* Theorems *)

\* A worker follows a claim exactly while it works or reports on it, and every
\* claim no process follows is known to be silent.
THEOREM RunnerOKHolds == RunnerSpec => []RunnerOK
<1>1. RInv => RunnerOK
  BY DEF RInv
<1> QED
  BY <1>1, RunnerInvariant, PTL

\* Every behaviour of workers, seeder and reaper is one of the store: what is
\* proved of the tables, TaskLifecycle included, holds while they run.
THEOREM RunsOnStore == RunnerSpec => Spec
<1>1. RunnerInit => Init
  BY DEF RunnerInit
<1> QED
  BY <1>1, OnStore, RunnerInvariant, PTL DEF RunnerSpec, Spec

\* While workers, seeder and reaper run, the tables keep the store's promises: its
\* lifecycle, that the claim of a worker that died or never heard of it ends only
\* by expiry, and that its lease runs down: the safety half of OrphansReclaimed.
THEOREM OrphansRunDown ==
  RunnerSpec => ImplementsLifecycle /\ SilentClaimEndsByExpiry /\ SilentLeaseRunsDown
BY RunsOnStore, Refinement, SilentClaimHolds, SilentLeaseRunsDownHolds

\* A report that takes effect is about the claim its worker was handed, though
\* the statement names the worker and not the attempt.
THEOREM ReportsOwnClaimHolds == RunnerSpec => ReportsOwnClaim
<1>1. RInv /\ [RunnerNext]_runnerVars =>
        [\A w \in Workers : Report(w) /\ row' # row =>
           LET t == proc[w].task IN
           row[t].claimedBy = w /\ row[t].attempts = proc[w].attempt]_runnerVars
  <2> SUFFICES ASSUME RInv, NEW w \in Workers, Report(w), row' # row
               PROVE  LET t == proc[w].task IN
                      row[t].claimedBy = w /\ row[t].attempts = proc[w].attempt
    OBVIOUS
  <2>1. proc[w].task \in Tasks
    BY Following DEF Report
  <2>2. Calls(w, proc[w].task)
    BY DEF Report, storeVars, vars
  <2> QED
    BY <2>1, <2>2 DEF RInv, SameAttempt, Calls, HeldBy
<1> QED
  BY <1>1, RunnerInvariant, PTL DEF RunnerSpec, ReportsOwnClaim
=============================================================================
