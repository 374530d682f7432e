--------------------------- MODULE ServicesProofs ---------------------------
(***************************************************************************)
(* For any number of tasks, admin clients and workers, any budget and any  *)
(* number of faults: what a reply tells its client is true when the client *)
(* reads it, and the counters miss nothing.                                *)
(*                                                                         *)
(* Replies are read late, so the argument is about what other calls may    *)
(* meanwhile do to a task (LcStep): it never becomes unborn again, and it  *)
(* stays deleted. Calls of one worker overlap, so what a refusal tells it  *)
(* rests on stands: a task that another of its calls has won back since is *)
(* not one it held all along. At the end: each handler, the web UI and the *)
(* reaper is a step of the task lifecycle, or invisible to it.             *)
(***************************************************************************)
EXTENDS Services, FiniteSetTheorems, TLAPS

\* What TaskLifecycle keeps of a task.
LcOK ==
  /\ status \in [Tasks -> LC!Statuses]
  /\ holder \in [Tasks -> Workers \union {NULL}]
  /\ attempts \in [Tasks -> Nat]
  /\ limit \in [Tasks -> LC!Limits]

\* A call on its way names a task that was created and a worker, has done nothing
\* before its statement, and follows the path of its service.
OnPath(c, r) ==
  /\ r.id \in Tasks => status[r.id] # "unborn"
  /\ r.at \in {"handler", "classify"} => ~r.did
  /\ r.at = "classify" => c \in Admins
  /\ c \in WorkerCalls /\ r.at = "handler" => r.by \in Workers
  /\ c \in WorkerCalls /\ r.at = "handler" /\ r.method = "ClaimTask" => r.id = NULL

Paths == \A c \in Callers : OnPath(c, call[c])

IInv == LcOK /\ TypeOK /\ Paths /\ RepliesTruthful /\ RefusedHoldsNothing /\ CountersExact

-----------------------------------------------------------------------------
(* What a step may do to the tasks *)

LcStep ==
  /\ LcOK'
  /\ \A t \in Tasks :
       /\ status[t] # "unborn" => status'[t] # "unborn"
       /\ status[t] = "deleted" => status'[t] = "deleted"

\* Tasks whose claim or end the counter k is about.
Events(k) ==
  {t \in Tasks :
    \/ k = "claimed" /\ status[t] = "pending" /\ status'[t] = "claimed"
    \/ k # "claimed" /\ status[t] \in LC!Active /\ status'[t] = k}

\* Nothing a counter is about.
Uneventful == \A k \in Counters : Events(k) = {}

LEMMA StandsStill ==
  ASSUME LcOK, UNCHANGED lcVars
  PROVE  LcStep /\ Uneventful
<1>1. LcStep
  BY DEF LcOK, LcStep, lcVars
<1>2. Uneventful
  BY DEF LcOK, Uneventful, Events, Counters, lcVars, LC!Active
<1> QED
  BY <1>1, <1>2

\* What operators may do, from a client or from the web UI.
LEMMA OperatorSteps ==
  ASSUME LcOK, NEW t \in Tasks,
         \/ \E m \in LC!Limits : LC!Submit(t, m) \/ LC!Edit(t, m)
         \/ LC!Retry(t) \/ LC!Cancel(t) \/ LC!Review(t)
         \/ \E outcome : LC!Finalize(t, outcome)
  PROVE  LcStep /\ Uneventful
<1> USE DEF LC!Statuses, LC!Settled, LC!Terminal, LC!Active, LC!Parked
<1>0. 1 \in LC!Limits
  BY ServicesAssumption DEF LC!Limits
<1>1. LcOK'
  <2>1. ASSUME NEW m \in LC!Limits, LC!Submit(t, m) \/ LC!Edit(t, m) PROVE LcOK'
    BY <2>1 DEF LcOK, LC!Submit, LC!Edit
  <2>2. ASSUME LC!Retry(t) \/ LC!Cancel(t) PROVE LcOK'
    BY <1>0, <2>2 DEF LcOK, LC!Retry, LC!Cancel
  <2>3. ASSUME LC!Review(t) \/ \E outcome : LC!Finalize(t, outcome) PROVE LcOK'
    BY <2>3 DEF LcOK, LC!Review, LC!Finalize
  <2> QED
    BY <2>1, <2>2, <2>3
<1>2. /\ status[t] \notin LC!Active
      /\ status[t] # "deleted"
      /\ status'[t] \notin LC!Active \union {"unborn"}
      /\ holder' = holder
      /\ \A u \in Tasks \ {t} : status'[u] = status[u]
  BY DEF LcOK, LC!Submit, LC!Edit, LC!Retry, LC!Cancel, LC!Review, LC!Finalize
<1>3. LcStep
  BY <1>1, <1>2 DEF LcStep
<1>4. Uneventful
  BY <1>2 DEF Uneventful, Events, Counters
<1> QED
  BY <1>3, <1>4

LEMMA ClaimSteps ==
  ASSUME LcOK, NEW t \in Tasks, NEW w \in Workers, LC!Claim(w, t)
  PROVE  /\ LcStep
         /\ \A k \in Counters : Events(k) = IF k = "claimed" THEN {t} ELSE {}
<1> USE DEF LC!Statuses, LC!Settled, LC!Terminal, LC!Active, LC!Parked
<1>1. LcOK'
  BY DEF LcOK, LC!Claim
<1>2. /\ status[t] = "pending" /\ status'[t] = "claimed" /\ holder'[t] = w
      /\ \A u \in Tasks \ {t} : status'[u] = status[u] /\ holder'[u] = holder[u]
  BY DEF LcOK, LC!Claim
<1>3. LcStep
  BY <1>1, <1>2 DEF LcStep
<1>4. ASSUME NEW k \in Counters PROVE Events(k) = IF k = "claimed" THEN {t} ELSE {}
  BY <1>2 DEF Events, Counters
<1> QED
  BY <1>3, <1>4

\* A sign of life and a pull request: the holder stays or leaves, uncounted.
LEMMA HolderSteps ==
  ASSUME LcOK, NEW t \in Tasks, LC!Start(t) \/ \E w \in Workers : LC!Park(w, t)
  PROVE  LcStep /\ Uneventful
<1> USE DEF LC!Statuses, LC!Settled, LC!Terminal, LC!Active, LC!Parked
<1>1. LcOK'
  BY DEF LcOK, LC!Start, LC!Park
<1>2. /\ status[t] \in LC!Active
      /\ \/ status'[t] = "in_progress" /\ holder'[t] = holder[t]
         \/ status'[t] = "pr_opened"
      /\ \A u \in Tasks \ {t} : status'[u] = status[u] /\ holder'[u] = holder[u]
  BY DEF LcOK, LC!Start, LC!Park
<1>3. LcStep
  BY <1>1, <1>2 DEF LcStep
<1>4. Uneventful
  BY <1>2 DEF Uneventful, Events, Counters
<1> QED
  BY <1>3, <1>4

LEMMA CompleteSteps ==
  ASSUME LcOK, NEW t \in Tasks, NEW w, LC!Complete(w, t)
  PROVE  /\ LcStep
         /\ \A k \in Counters : Events(k) = IF k = "completed" THEN {t} ELSE {}
<1> USE DEF LC!Statuses, LC!Settled, LC!Terminal, LC!Active, LC!Parked
<1>1. LcOK'
  BY DEF LcOK, LC!Complete
<1>2. /\ status[t] \in LC!Active /\ status'[t] = "completed"
      /\ \A u \in Tasks \ {t} : status'[u] = status[u] /\ holder'[u] = holder[u]
  BY DEF LcOK, LC!Complete, LC!Held
<1>3. LcStep
  BY <1>1, <1>2 DEF LcStep
<1>4. ASSUME NEW k \in Counters PROVE Events(k) = IF k = "completed" THEN {t} ELSE {}
  BY <1>2 DEF Events, Counters
<1> QED
  BY <1>3, <1>4

\* Only the claims that used up their budget are counted.
LEMMA LapseSteps ==
  ASSUME LcOK, NEW S \in SUBSET Tasks, LC!Lapse(S)
  PROVE  /\ LcStep
         /\ \A k \in Counters :
              Events(k) = IF k = "failed" THEN {t \in S : LC!Exhausted(t)} ELSE {}
<1> USE DEF LC!Statuses, LC!Settled, LC!Terminal, LC!Active, LC!Parked
<1>1. LcOK'
  BY DEF LcOK, LC!Lapse
<1>2. /\ \A t \in S : /\ status[t] \in LC!Active
                      /\ status'[t] = IF LC!Exhausted(t) THEN "failed" ELSE "pending"
      /\ \A u \in Tasks \ S : status'[u] = status[u] /\ holder'[u] = holder[u]
  BY DEF LC!Lapse, LC!Held
<1>3. LcStep
  BY <1>1, <1>2 DEF LcStep
<1>4. ASSUME NEW k \in Counters
      PROVE  Events(k) = IF k = "failed" THEN {t \in S : LC!Exhausted(t)} ELSE {}
  BY <1>2 DEF Events, Counters
<1> QED
  BY <1>3, <1>4

-----------------------------------------------------------------------------
(* Counters *)

\* Calls about to count.
Tally(k) == {c \in WorkerCalls : call[c].at = "count" /\ call[c].counts = k}

TallyNext(k) == {c \in WorkerCalls : call'[c].at = "count" /\ call'[c].counts = k}

LEMMA Finite ==
  ASSUME NEW k
  PROVE  /\ IsFiniteSet(Events(k)) /\ Cardinality(Events(k)) \in Nat
         /\ IsFiniteSet(Tally(k)) /\ Cardinality(Tally(k)) \in Nat
<1>1. Events(k) \in SUBSET Tasks /\ Tally(k) \in SUBSET WorkerCalls
  BY DEF Events, Tally
<1>2. IsFiniteSet(Events(k)) /\ IsFiniteSet(Tally(k))
  BY <1>1, ServicesAssumption, FS_Subset
<1> QED
  BY <1>2, FS_CardinalityType

\* Observed in terms of Events.
LEMMA Observes ==
  ASSUME Observed
  PROVE  owed' = [k \in Counters |-> owed[k] + Cardinality(Events(k))]
BY DEF Observed, Happened, Events

LEMMA ObservesNothing ==
  ASSUME TypeOK, Observed, Uneventful
  PROVE  owed' = owed
<1>1. \A k \in Counters : Cardinality(Events(k)) = 0
  BY FS_EmptySet DEF Uneventful
<1>2. owed \in [Counters -> Int]
  BY DEF TypeOK
<1>3. owed' = [k \in Counters |-> owed[k] + Cardinality(Events(k))]
  BY Observes
<1>4. \A k \in Counters : owed'[k] = owed[k]
  BY <1>1, <1>2, <1>3
<1> QED
  BY <1>2, <1>3, <1>4

\* A step of a call that neither begins nor ends a count.
LEMMA CountStays ==
  ASSUME TypeOK, CountersExact, NEW c \in Callers, NEW e,
         call' = [call EXCEPT ![c] = e], call[c].at # "count", e.at # "count",
         owed' = owed, reaper' = reaper
  PROVE  CountersExact'
<1>1. ASSUME NEW k \in Counters PROVE TallyNext(k) = Tally(k)
  BY DEF Tally, TallyNext, TypeOK, Callers
<1> QED
  BY <1>1 DEF CountersExact, Tally, TallyNext

\* A call whose statement was an event of k0 is about to count it.
LEMMA CountBegins ==
  ASSUME TypeOK, CountersExact, NEW c \in WorkerCalls, NEW k0 \in Counters, NEW e,
         call' = [call EXCEPT ![c] = e], call[c].at # "count", e.at = "count", e.counts = k0,
         Observed, NEW t,
         \A k \in Counters : Events(k) = IF k = k0 THEN {t} ELSE {},
         reaper' = reaper
  PROVE  CountersExact' /\ owed' \in [Counters -> Int]
<1>1. owed \in [Counters -> Int] /\ reaper \in Nat
  BY ServicesAssumption, FS_CardinalityType DEF TypeOK
<1>2. owed' = [k \in Counters |-> owed[k] + Cardinality(Events(k))]
  BY Observes
<1>3. \A k \in Counters : Cardinality(Events(k)) = IF k = k0 THEN 1 ELSE 0
  BY FS_EmptySet, FS_Singleton
<1>4. ASSUME NEW k \in Counters
      PROVE  Cardinality(TallyNext(k)) = Cardinality(Tally(k)) + (IF k = k0 THEN 1 ELSE 0)
  <2>1. CASE k = k0
    <3>1. TallyNext(k) = Tally(k) \union {c} /\ c \notin Tally(k)
      BY <2>1 DEF Tally, TallyNext, TypeOK, Callers
    <3>2. IsFiniteSet(Tally(k)) /\ Cardinality(Tally(k)) \in Nat
      BY Finite
    <3>3. Cardinality(Tally(k) \union {c}) = Cardinality(Tally(k)) + 1
      BY ONLY <3>1, <3>2, FS_AddElement
    <3> QED
      BY ONLY <2>1, <3>1, <3>3
  <2>2. CASE k # k0
    <3>1. TallyNext(k) = Tally(k)
      BY <2>2 DEF Tally, TallyNext, TypeOK, Callers
    <3> QED
      BY <2>2, <3>1, Finite
  <2> QED
    BY <2>1, <2>2
<1>5. ASSUME NEW k \in Counters
      PROVE  owed'[k] = Cardinality(TallyNext(k)) + (IF k = "failed" THEN reaper' ELSE 0)
  <2>1. owed[k] = Cardinality(Tally(k)) + (IF k = "failed" THEN reaper ELSE 0)
    BY DEF CountersExact, Tally
  <2> QED
    BY <1>1, <1>2, <1>3, <1>4, <2>1, Finite
<1>6. CountersExact'
  BY <1>5 DEF CountersExact, TallyNext
<1>7. owed' \in [Counters -> Int]
  BY <1>1, <1>2, <1>3
<1> QED
  BY <1>6, <1>7

\* The counter is increased, or will never be.
LEMMA CountEnds ==
  ASSUME TypeOK, CountersExact, NEW c \in WorkerCalls, NEW e,
         call' = [call EXCEPT ![c] = e], call[c].at = "count", e.at # "count",
         owed' = [owed EXCEPT ![call[c].counts] = @ - 1],
         reaper' = reaper
  PROVE  CountersExact' /\ owed' \in [Counters -> Int]
<1>1. owed \in [Counters -> Int] /\ reaper \in Nat
  BY ServicesAssumption, FS_CardinalityType DEF TypeOK
<1> DEFINE k0 == call[c].counts
<1>2. k0 \in Counters
  BY DEF TypeOK, Call, Callers
<1>3. \A k \in Counters : owed'[k] = IF k = k0 THEN owed[k] - 1 ELSE owed[k]
  BY <1>1
<1>4. ASSUME NEW k \in Counters
      PROVE  Cardinality(TallyNext(k)) = Cardinality(Tally(k)) - (IF k = k0 THEN 1 ELSE 0)
  <2>1. CASE k = k0
    <3>1. TallyNext(k) = Tally(k) \ {c} /\ c \in Tally(k)
      BY <2>1 DEF Tally, TallyNext, TypeOK, Callers
    <3>2. IsFiniteSet(Tally(k)) /\ Cardinality(Tally(k)) \in Nat
      BY Finite
    <3>3. Cardinality(Tally(k) \ {c}) = Cardinality(Tally(k)) - 1
      BY ONLY <3>1, <3>2, FS_RemoveElement
    <3> QED
      BY ONLY <2>1, <3>1, <3>3
  <2>2. CASE k # k0
    <3>1. TallyNext(k) = Tally(k)
      BY <2>2 DEF Tally, TallyNext, TypeOK, Callers
    <3> QED
      BY <2>2, <3>1, Finite
  <2> QED
    BY <2>1, <2>2
<1> HIDE DEF k0
<1>5. ASSUME NEW k \in Counters
      PROVE  owed'[k] = Cardinality(TallyNext(k)) + (IF k = "failed" THEN reaper' ELSE 0)
  <2>1. owed[k] = Cardinality(Tally(k)) + (IF k = "failed" THEN reaper ELSE 0)
    BY DEF CountersExact, Tally
  <2> QED
    BY <1>1, <1>3, <1>4, <2>1, Finite
<1>6. CountersExact'
  BY <1>5 DEF CountersExact, TallyNext
<1>7. owed' \in [Counters -> Int]
  BY <1>1, <1>2 DEF k0
<1> QED
  BY <1>6, <1>7

-----------------------------------------------------------------------------
(* Calls *)

\* What must hold of the call e of c after a step, in the state of the tasks
\* that the step leaves.
Sound(c, e) ==
  /\ e.at = "reply" <=> e.code # NULL
  /\ e.at = "count" => e.counts # NULL
  /\ e.at = "handler" => e.id # "malformed"
  /\ e.id \in Tasks => status'[e.id] # "unborn"
  /\ e.at \in {"handler", "classify"} => ~e.did
  /\ e.at = "classify" => c \in Admins
  /\ c \in WorkerCalls /\ e.at = "handler" => e.by \in Workers
  /\ c \in WorkerCalls /\ e.at = "handler" /\ e.method = "ClaimTask" => e.id = NULL
  /\ c \in Admins /\ e.at = "reply" =>
       /\ e.code = "OK" => e.did
       /\ e.code = "NotFound" => ~(e.id \in Tasks /\ status'[e.id] \in Present)
       /\ e.did => e.code \in {"OK", "Internal", "DeadlineExceeded"}
  /\ c \in WorkerCalls /\ e.at = "reply" /\ e.code \in {"FailedPrecondition", "NotFound"} =>
       /\ ~e.did
       /\ e.id \in Tasks /\ status'[e.id] \in LC!Active /\ holder'[e.id] = e.by => e.method = "OpenPR"

To(c, e) == e \in Call /\ Sound(c, e) /\ call' = [call EXCEPT ![c] = e]

\* Other calls stay sound while c takes a step: what their clients were told of
\* a task does not become false.
LEMMA CallStep ==
  ASSUME IInv, Watch, NEW c \in Callers, NEW e, To(c, e), LcStep,
         reaper' = reaper, owed' \in [Counters -> Int], CountersExact'
  PROVE  IInv'
<1>1. /\ call' \in [Callers -> Call] /\ call'[c] = e
      /\ \A d \in Callers \ {c} : call'[d] = call[d]
  BY DEF IInv, TypeOK, To
<1>2. TypeOK'
  BY <1>1 DEF IInv, TypeOK, To, Sound, Watch
<1>3. Paths'
  <2>1. ASSUME NEW d \in Callers PROVE OnPath(d, call[d])'
    <3>1. CASE d = c
      BY <1>1, <3>1 DEF OnPath, To, Sound
    <3>2. CASE d # c
      BY <1>1, <3>2 DEF IInv, Paths, OnPath, LcStep
    <3> QED
      BY <3>1, <3>2
  <2> QED
    BY <2>1 DEF Paths
<1>4. RepliesTruthful'
  <2> SUFFICES ASSUME NEW d \in Admins, call'[d].at = "reply"
               PROVE  /\ call'[d].code = "OK" => call'[d].did
                      /\ call'[d].code = "NotFound" => ~(call'[d].id \in Tasks /\ status'[call'[d].id] \in Present)
                      /\ call'[d].did => call'[d].code \in {"OK", "Internal", "DeadlineExceeded"}
    BY DEF RepliesTruthful, Finds, Present, LC!Statuses, LC!Settled, LC!Terminal, LC!Active, LC!Parked
  <2>1. CASE d = c
    BY <1>1, <2>1 DEF To, Sound
  <2>2. CASE d # c
    <3>1. d \in Callers /\ call'[d] = call[d]
      BY <1>1, <2>2 DEF Callers
    <3>2. call[d].id \in Tasks => status[call[d].id] # "unborn" /\ status[call[d].id] \in LC!Statuses
      BY <3>1 DEF IInv, Paths, OnPath, LcOK
    <3>3. /\ call[d].code = "OK" => call[d].did
          /\ call[d].code = "NotFound" => ~(call[d].id \in Tasks /\ status[call[d].id] \in Present)
          /\ call[d].did => call[d].code \in {"OK", "Internal", "DeadlineExceeded"}
      BY <3>1 DEF IInv, RepliesTruthful, Finds
    <3>4. ASSUME call[d].code = "NotFound", call[d].id \in Tasks
          PROVE  status'[call[d].id] \notin Present
      <4>1. status[call[d].id] = "deleted"
        BY <3>2, <3>3, <3>4 DEF Present
      <4> QED
        BY <3>4, <4>1 DEF LcStep, Present
    <3> QED
      BY <3>1, <3>3, <3>4
  <2> QED
    BY <2>1, <2>2
<1>5. RefusedHoldsNothing'
  <2> SUFFICES ASSUME NEW d \in WorkerCalls, call'[d].at = "reply",
                      call'[d].code \in {"FailedPrecondition", "NotFound"}
               PROVE  ~call'[d].did /\ (d \in stands' => call'[d].method = "OpenPR")
    BY DEF RefusedHoldsNothing
  <2>1. CASE d = c
    <3>1. d \in stands' => /\ call'[d].id \in Tasks
                           /\ status'[call'[d].id] \in LC!Active
                           /\ holder'[call'[d].id] = call'[d].by
      BY DEF Watch, Mine, Finds, LC!Active
    <3> QED
      BY <1>1, <2>1, <3>1 DEF To, Sound
  <2>2. CASE d # c
    <3>1. d \in Callers /\ call'[d] = call[d]
      BY <1>1, <2>2 DEF Callers
    <3>2. d \in stands' => d \in stands
      BY <3>1 DEF Watch
    <3> QED
      BY <3>1, <3>2 DEF IInv, RefusedHoldsNothing
  <2> QED
    BY <2>1, <2>2
<1> QED
  BY <1>2, <1>3, <1>4, <1>5 DEF IInv, LcStep

\* A step of a call that no counter is about.
LEMMA PlainStep ==
  ASSUME IInv, Watch, NEW c \in Callers, NEW e, To(c, e), LcStep,
         call[c].at # "count", e.at # "count", owed' = owed, reaper' = reaper
  PROVE  IInv'
<1>1. CountersExact'
  BY CountStays DEF IInv, To
<1>2. owed' \in [Counters -> Int]
  BY DEF IInv, TypeOK
<1> QED
  BY <1>1, <1>2, CallStep

\* A step without a call: the web UI's and the reaper's.
LEMMA IdleStep ==
  ASSUME IInv, Watch, LcStep, call' = call, reaper' \in 0 .. Cardinality(Tasks),
         owed' \in [Counters -> Int], CountersExact'
  PROVE  IInv'
<1>1. TypeOK'
  BY DEF IInv, TypeOK, Watch
<1>2. Paths'
  BY DEF IInv, Paths, OnPath, LcStep
<1>3. RepliesTruthful'
  <2> SUFFICES ASSUME NEW d \in Admins, call[d].at = "reply"
               PROVE  /\ call[d].code = "OK" => call[d].did
                      /\ call[d].code = "NotFound" => ~(call[d].id \in Tasks /\ status'[call[d].id] \in Present)
                      /\ call[d].did => call[d].code \in {"OK", "Internal", "DeadlineExceeded"}
    BY DEF RepliesTruthful, Finds, Present, LC!Statuses, LC!Settled, LC!Terminal, LC!Active, LC!Parked
  <2>1. call[d].id \in Tasks => status[call[d].id] # "unborn" /\ status[call[d].id] \in LC!Statuses
    BY DEF IInv, Paths, OnPath, LcOK, Callers
  <2>2. /\ call[d].code = "OK" => call[d].did
        /\ call[d].code = "NotFound" => ~(call[d].id \in Tasks /\ status[call[d].id] \in Present)
        /\ call[d].did => call[d].code \in {"OK", "Internal", "DeadlineExceeded"}
    BY DEF IInv, RepliesTruthful, Finds
  <2>3. ASSUME call[d].code = "NotFound", call[d].id \in Tasks
        PROVE  status'[call[d].id] \notin Present
    <3>1. status[call[d].id] = "deleted"
      BY <2>1, <2>2, <2>3 DEF Present
    <3> QED
      BY <2>3, <3>1 DEF LcStep, Present
  <2> QED
    BY <2>2, <2>3
<1>4. RefusedHoldsNothing'
  <2> SUFFICES ASSUME NEW d \in WorkerCalls, call[d].at = "reply",
                      call[d].code \in {"FailedPrecondition", "NotFound"}
               PROVE  ~call[d].did /\ (d \in stands' => call[d].method = "OpenPR")
    BY DEF RefusedHoldsNothing
  <2>1. d \in stands' => d \in stands
    BY DEF Watch
  <2> QED
    BY <2>1 DEF IInv, RefusedHoldsNothing
<1> QED
  BY <1>1, <1>2, <1>3, <1>4 DEF IInv, LcStep

-----------------------------------------------------------------------------
(* Answers *)

\* What Answered makes of a call, whatever is said to have been done.
AnswerTo(r, code, e) ==
  /\ e.at = "reply" /\ e.counts = NULL
  /\ e.id = NULL \/ e.id = r.id
  /\ code \in {"FailedPrecondition", "NotFound"} =>
       e.id = r.id /\ e.by = r.by /\ e.method = r.method
  /\ e.code = code \/ e.code = "Internal"

LEMMA ToldCode ==
  ASSUME NEW code \in Codes
  PROVE  ToolErr(code) \in Codes /\ (ToolErr(code) = code \/ ToolErr(code) = "Internal")
BY DEF ToolErr, Codes

LEMMA NoCallTyped == NoCall \in Call
BY DEF NoCall, Call

LEMMA AnswerDone ==
  ASSUME NEW r \in Call, NEW code \in Codes
  PROVE  /\ Answered(r, code, TRUE) \in Call
         /\ AnswerTo(r, code, Answered(r, code, TRUE))
         /\ Answered(r, code, TRUE).did
<1> DEFINE refused == code \in {"FailedPrecondition", "NotFound"}
           m == IF refused THEN r.method ELSE NULL
           i == IF refused THEN r.id ELSE NULL
           b == IF refused THEN r.by ELSE NULL
           told == IF r.mcp THEN ToolErr(code) ELSE code
           e == [NoCall EXCEPT !.at = "reply", !.did = TRUE, !.id = i, !.by = b, !.method = m, !.code = told]
<1>1. Answered(r, code, TRUE) = e
  BY DEF Answered
<1>2. /\ m \in TaskMethods \union AdminMethods \union {NULL}
      /\ i \in Ids \union {NULL}
      /\ b \in Workers \union {NULL}
  BY DEF Call
<1>3. told \in Codes /\ (told = code \/ told = "Internal")
  BY ToldCode
<1>4. TRUE \in BOOLEAN
  BY DEF Call
<1>5. /\ i = NULL \/ i = r.id
      /\ refused => i = r.id /\ b = r.by /\ m = r.method
  OBVIOUS
<1> HIDE DEF refused, m, i, b, told
<1>6. e \in Call
  BY <1>2, <1>3, <1>4, NoCallTyped DEF Call
<1>7. e.at = "reply" /\ e.counts = NULL /\ e.id = i /\ e.by = b /\ e.method = m /\ e.code = told
  BY DEF NoCall
<1>8. e.did
  BY <1>4 DEF NoCall
<1> HIDE DEF e
<1>9. AnswerTo(r, code, e)
  BY <1>3, <1>5, <1>7 DEF AnswerTo, refused
<1> QED
  BY <1>1, <1>6, <1>8, <1>9

LEMMA AnswerUndone ==
  ASSUME NEW r \in Call, NEW code \in Codes
  PROVE  /\ Answered(r, code, FALSE) \in Call
         /\ AnswerTo(r, code, Answered(r, code, FALSE))
         /\ ~Answered(r, code, FALSE).did
<1> DEFINE refused == code \in {"FailedPrecondition", "NotFound"}
           m == IF refused THEN r.method ELSE NULL
           i == IF refused THEN r.id ELSE NULL
           b == IF refused THEN r.by ELSE NULL
           told == IF r.mcp THEN ToolErr(code) ELSE code
           e == [NoCall EXCEPT !.at = "reply", !.did = FALSE, !.id = i, !.by = b, !.method = m, !.code = told]
<1>1. Answered(r, code, FALSE) = e
  BY DEF Answered
<1>2. /\ m \in TaskMethods \union AdminMethods \union {NULL}
      /\ i \in Ids \union {NULL}
      /\ b \in Workers \union {NULL}
  BY DEF Call
<1>3. told \in Codes /\ (told = code \/ told = "Internal")
  BY ToldCode
<1>4. FALSE \in BOOLEAN
  BY DEF Call
<1>5. /\ i = NULL \/ i = r.id
      /\ refused => i = r.id /\ b = r.by /\ m = r.method
  OBVIOUS
<1> HIDE DEF refused, m, i, b, told
<1>6. e \in Call
  BY <1>2, <1>3, <1>4, NoCallTyped DEF Call
<1>7. e.at = "reply" /\ e.counts = NULL /\ e.id = i /\ e.by = b /\ e.method = m /\ e.code = told
  BY DEF NoCall
<1>8. ~e.did
  BY <1>4 DEF NoCall
<1> HIDE DEF e
<1>9. AnswerTo(r, code, e)
  BY <1>3, <1>5, <1>7 DEF AnswerTo, refused
<1> QED
  BY <1>1, <1>6, <1>8, <1>9

LEMMA AnswerAsIs ==
  ASSUME NEW r \in Call, NEW code \in Codes
  PROVE  /\ Answered(r, code, r.did) \in Call
         /\ AnswerTo(r, code, Answered(r, code, r.did))
         /\ (Answered(r, code, r.did).did <=> r.did)
<1> DEFINE refused == code \in {"FailedPrecondition", "NotFound"}
           m == IF refused THEN r.method ELSE NULL
           i == IF refused THEN r.id ELSE NULL
           b == IF refused THEN r.by ELSE NULL
           told == IF r.mcp THEN ToolErr(code) ELSE code
           e == [NoCall EXCEPT !.at = "reply", !.did = r.did, !.id = i, !.by = b, !.method = m, !.code = told]
<1>1. Answered(r, code, r.did) = e
  BY DEF Answered
<1>2. /\ m \in TaskMethods \union AdminMethods \union {NULL}
      /\ i \in Ids \union {NULL}
      /\ b \in Workers \union {NULL}
  BY DEF Call
<1>3. told \in Codes /\ (told = code \/ told = "Internal")
  BY ToldCode
<1>4. r.did \in BOOLEAN
  BY DEF Call
<1>5. /\ i = NULL \/ i = r.id
      /\ refused => i = r.id /\ b = r.by /\ m = r.method
  OBVIOUS
<1> HIDE DEF refused, m, i, b, told
<1>6. e \in Call
  BY <1>2, <1>3, <1>4, NoCallTyped DEF Call
<1>7. e.at = "reply" /\ e.counts = NULL /\ e.id = i /\ e.by = b /\ e.method = m /\ e.code = told
  BY DEF NoCall
<1>8. (e.did <=> r.did)
  BY <1>4 DEF NoCall
<1> HIDE DEF e
<1>9. AnswerTo(r, code, e)
  BY <1>3, <1>5, <1>7 DEF AnswerTo, refused
<1> QED
  BY <1>1, <1>6, <1>8, <1>9

\* A call on its way has no code yet, and what it names was created.
LEMMA Underway ==
  ASSUME IInv, NEW c \in Callers
  PROVE  /\ call[c] \in Call
         /\ call[c].at # "reply" => call[c].code = NULL
         /\ call[c].id \in Tasks => status[call[c].id] # "unborn"
BY DEF IInv, TypeOK, Paths, OnPath

\* The caller hears that it was done, or nothing definite.
LEMMA DoneSound ==
  ASSUME IInv, NEW c \in Callers, LcStep,
         NEW code \in {"OK", "Internal", "DeadlineExceeded"}, Reply(c, code, TRUE)
  PROVE  \E e : To(c, e) /\ e.at = "reply"
<1> DEFINE e == Answered(call[c], code, TRUE)
<1>1. call' = [call EXCEPT ![c] = e]
  BY DEF Reply, IInv, TypeOK
<1>2. e \in Call /\ AnswerTo(call[c], code, e) /\ e.did
  BY Underway, AnswerDone DEF Codes
<1> HIDE DEF e
<1>3. e.code \in {"OK", "Internal", "DeadlineExceeded"} /\ e.at = "reply" /\ e.code # NULL
  BY <1>2, ServicesAssumption DEF AnswerTo
<1>4. e.id \in Tasks => status'[e.id] # "unborn"
  BY <1>2, Underway, ServicesAssumption DEF AnswerTo, LcStep
<1>5. Sound(c, e)
  BY <1>2, <1>3, <1>4 DEF Sound
<1> QED
  BY <1>1, <1>2, <1>3, <1>5 DEF To

\* The caller hears that it was not done. NotFound is said of a task that is not
\* there; a refusal is said to a worker that does not hold the task, or by OpenPR.
LEMMA UndoneSound ==
  ASSUME IInv, NEW c \in Callers, UNCHANGED lcVars,
         NEW code \in Codes \ {"OK"}, Reply(c, code, FALSE),
         c \in Admins /\ code = "NotFound" => ~Finds(c, Present),
         c \in WorkerCalls /\ Mine(c) /\ code \in {"FailedPrecondition", "NotFound"} =>
           call[c].method = "OpenPR"
  PROVE  \E e : To(c, e) /\ e.at = "reply"
<1> DEFINE e == Answered(call[c], code, FALSE)
<1>1. call' = [call EXCEPT ![c] = e]
  BY DEF Reply, IInv, TypeOK
<1>2. e \in Call /\ AnswerTo(call[c], code, e) /\ ~e.did
  BY Underway, AnswerUndone
<1> HIDE DEF e
<1>3. e.code \in Codes \ {"OK"} /\ e.at = "reply" /\ e.code # NULL
  BY <1>2, ServicesAssumption DEF AnswerTo, Codes
<1>4. e.id \in Tasks => status'[e.id] # "unborn"
  BY <1>2, Underway, ServicesAssumption DEF AnswerTo, lcVars
<1>5. ASSUME e.code \in {"FailedPrecondition", "NotFound"}
      PROVE  /\ code = e.code /\ e.id = call[c].id
             /\ e.by = call[c].by /\ e.method = call[c].method
  BY <1>2, <1>5 DEF AnswerTo
<1>6. c \in Admins /\ e.code = "NotFound" => ~(e.id \in Tasks /\ status'[e.id] \in Present)
  BY <1>5 DEF Finds, lcVars
<1>7. c \in WorkerCalls /\ e.code \in {"FailedPrecondition", "NotFound"}
        /\ e.id \in Tasks /\ status'[e.id] \in LC!Active /\ holder'[e.id] = e.by
      => e.method = "OpenPR"
  BY <1>5 DEF Finds, Mine, lcVars
<1>8. Sound(c, e)
  BY <1>2, <1>3, <1>4, <1>6, <1>7 DEF Sound
<1> QED
  BY <1>1, <1>2, <1>3, <1>8 DEF To

\* A fault tells nothing definite; only an explanation that could not be read is
\* replaced by a guess, and then nothing had been done.
LEMMA FaultSound ==
  ASSUME IInv, NEW c \in Callers, UNCHANGED lcVars,
         NEW code \in {"Internal", "DeadlineExceeded", "FailedPrecondition"},
         code = "FailedPrecondition" => call[c].at = "classify",
         Reply(c, code, call[c].did)
  PROVE  \E e : To(c, e) /\ e.at = "reply"
<1> DEFINE e == Answered(call[c], code, call[c].did)
<1>1. call' = [call EXCEPT ![c] = e]
  BY DEF Reply, IInv, TypeOK
<1>2. e \in Call /\ AnswerTo(call[c], code, e) /\ (e.did <=> call[c].did)
  <2>1. call[c] \in Call /\ code \in Codes
    BY Underway DEF Codes
  <2> QED
    BY <2>1, AnswerAsIs, Zenon
<1> HIDE DEF e
<1>3. /\ e.code \in {"Internal", "DeadlineExceeded", "FailedPrecondition"}
      /\ e.at = "reply" /\ e.code # NULL
  BY <1>2, ServicesAssumption DEF AnswerTo
<1>4. e.id \in Tasks => status'[e.id] # "unborn"
  BY <1>2, Underway, ServicesAssumption DEF AnswerTo, lcVars
<1>5. e.code = "FailedPrecondition" => c \in Admins /\ ~e.did
  BY <1>2 DEF AnswerTo, IInv, Paths, OnPath
<1>6. c \in Admins => c \notin WorkerCalls
  BY ServicesAssumption
<1>7. Sound(c, e)
  BY <1>2, <1>3, <1>4, <1>5, <1>6 DEF Sound
<1> QED
  BY <1>1, <1>2, <1>3, <1>7 DEF To

\* On to the next statement of the call.
LEMMA OnwardSound ==
  ASSUME IInv, NEW c \in Callers, LcStep, call[c].at \in {"handler", "second"},
         \/ Goto(c, "second", TRUE) \/ Goto(c, "second", FALSE)
         \/ c \in Admins /\ Goto(c, "classify", FALSE)
  PROVE  \E e : To(c, e) /\ e.at \in {"second", "classify"}
<1>1. ASSUME NEW d \in BOOLEAN, NEW a \in {"second", "classify"},
             a = "classify" => c \in Admins /\ ~d,
             call' = [call EXCEPT ![c] = [call[c] EXCEPT !.at = a, !.did = d]]
      PROVE  \E e : To(c, e) /\ e.at \in {"second", "classify"}
  <2> DEFINE e == [call[c] EXCEPT !.at = a, !.did = d]
  <2>1. call[c] \in Call /\ call[c].code = NULL
    BY Underway
  <2>2. e \in Call
    BY <2>1 DEF Call
  <2>3. e.at = a /\ e.id = call[c].id /\ e.code = NULL
    BY <2>1 DEF Call
  <2>4. e.did <=> d
    BY <2>1 DEF Call
  <2> HIDE DEF e
  <2>5. e.id \in Tasks => status'[e.id] # "unborn"
    BY <2>3, Underway DEF LcStep
  <2>6. Sound(c, e)
    BY <1>1, <2>3, <2>4, <2>5 DEF Sound
  <2> QED
    BY <1>1, <2>2, <2>3, <2>6 DEF To, e
<1>2. CASE Goto(c, "second", TRUE)
  <2>1. call' = [call EXCEPT ![c] = [call[c] EXCEPT !.at = "second", !.did = TRUE]]
    BY <1>2 DEF Goto, IInv, TypeOK
  <2> QED
    BY <1>1, <2>1
<1>3. CASE Goto(c, "second", FALSE)
  <2>1. call' = [call EXCEPT ![c] = [call[c] EXCEPT !.at = "second", !.did = FALSE]]
    BY <1>3 DEF Goto, IInv, TypeOK
  <2> QED
    BY <1>1, <2>1
<1>4. CASE c \in Admins /\ Goto(c, "classify", FALSE)
  <2>1. call' = [call EXCEPT ![c] = [call[c] EXCEPT !.at = "classify", !.did = FALSE]]
    BY <1>4 DEF Goto, IInv, TypeOK
  <2> QED
    BY <1>1, <1>4, <2>1
<1> QED
  BY <1>2, <1>3, <1>4

\* On to the counter.
LEMMA CountingSound ==
  ASSUME IInv, NEW c \in WorkerCalls, LcStep, call[c].at = "handler",
         NEW k \in Counters, Counting(c, k)
  PROVE  \E e : To(c, e) /\ e.at = "count" /\ e.counts = k
<1> DEFINE e == [call[c] EXCEPT !.at = "count", !.did = TRUE, !.counts = k]
<1>0. c \in Callers
  BY DEF Callers
<1>1. call' = [call EXCEPT ![c] = e]
  BY <1>0 DEF Counting, IInv, TypeOK
<1>2. call[c] \in Call /\ call[c].code = NULL
  BY <1>0, Underway
<1>3. e \in Call
  BY <1>2 DEF Call
<1>4. e.at = "count" /\ e.counts = k /\ e.id = call[c].id /\ e.code = NULL
  BY <1>2 DEF Call
<1> HIDE DEF e
<1>5. e.id \in Tasks => status'[e.id] # "unborn"
  BY <1>0, <1>4, Underway DEF LcStep
<1>6. k # NULL
  BY ServicesAssumption DEF Counters
<1>7. Sound(c, e)
  BY <1>4, <1>5, <1>6 DEF Sound
<1> QED
  BY <1>1, <1>3, <1>4, <1>7 DEF To

-----------------------------------------------------------------------------
(* Getting in *)

\* A request as its client makes it.
Fresh(c, r) ==
  /\ r \in Call /\ r.at = "idle" /\ r.code = NULL /\ ~r.did
  /\ r.id \in Tasks => status[r.id] # "unborn"
  /\ c \in WorkerCalls => r.by \in Workers
  /\ c \in WorkerCalls /\ r.method = "ClaimTask" => r.id = NULL

\* Turned away by the interceptor or an argument check, or with its handler.
Opens(c, r) ==
  /\ call[c].at = "idle"
  /\ UNCHANGED <<lcVars, reaper, owed, faults>>
  /\ \/ call' = [call EXCEPT ![c] = Answered(r, "Unauthenticated", FALSE)]
     \/ call' = [call EXCEPT ![c] = Answered(r, "InvalidArgument", FALSE)]
     \/ r.id # "malformed" /\ call' = [call EXCEPT ![c] = [r EXCEPT !.at = "handler"]]

LEMMA AskOpens ==
  ASSUME NEW c, NEW r, NEW token, NEW valid, Ask(c, r, token, valid)
  PROVE  Opens(c, r)
BY DEF Ask, Entered, Opens

LEMMA OpensKeeps ==
  ASSUME IInv, Watch, NEW c \in Callers, NEW r, Fresh(c, r), Opens(c, r)
  PROVE  IInv'
<1>1. LcStep
  BY StandsStill DEF IInv, Opens
<1>2. ASSUME NEW code \in {"Unauthenticated", "InvalidArgument"},
             call' = [call EXCEPT ![c] = Answered(r, code, FALSE)]
      PROVE  IInv'
  <2> DEFINE e == Answered(r, code, FALSE)
  <2>1. r \in Call /\ code \in Codes
    BY DEF Fresh, Codes
  <2>2. e \in Call /\ AnswerTo(r, code, e) /\ ~e.did
    BY <2>1, AnswerUndone
  <2> HIDE DEF e
  <2>3. e.code \in {"Unauthenticated", "InvalidArgument", "Internal"} /\ e.at = "reply" /\ e.code # NULL
    BY <2>2, ServicesAssumption DEF AnswerTo
  <2>4. e.id \in Tasks => status'[e.id] # "unborn"
    BY <2>2, <1>1, ServicesAssumption DEF AnswerTo, Fresh, LcStep
  <2>5. Sound(c, e)
    BY <2>2, <2>3, <2>4 DEF Sound
  <2>6. To(c, e)
    BY <1>2, <2>2, <2>5 DEF To, e
  <2> QED
    BY <1>1, <2>3, <2>6, PlainStep DEF Opens
<1>3. ASSUME r.id # "malformed", call' = [call EXCEPT ![c] = [r EXCEPT !.at = "handler"]]
      PROVE  IInv'
  <2> DEFINE e == [r EXCEPT !.at = "handler"]
  <2>1. e \in Call
    BY DEF Fresh, Call
  <2>2. /\ e.at = "handler" /\ e.id = r.id /\ e.code = NULL
        /\ e.by = r.by /\ e.method = r.method /\ ~e.did
    BY DEF Fresh, Call
  <2> HIDE DEF e
  <2>3. e.id \in Tasks => status'[e.id] # "unborn"
    BY <1>1, <2>2 DEF Fresh, LcStep
  <2>4. Sound(c, e)
    BY <1>3, <2>2, <2>3 DEF Sound, Fresh
  <2>5. To(c, e)
    BY <1>3, <2>1, <2>4 DEF To, e
  <2> QED
    BY <1>1, <2>2, <2>5, PlainStep DEF Opens
<1> QED
  BY <1>2, <1>3 DEF Opens

\* The four shapes of an operator's request.
LEMMA RequestFresh ==
  ASSUME NEW c, c \notin WorkerCalls, NEW method \in TaskMethods \union AdminMethods,
         NEW id \in Names \union {NULL},
         NEW outcome \in LC!Terminal
  PROVE  /\ Fresh(c, Request(method, id))
         /\ Fresh(c, [Request(method, id) EXCEPT !.outcome = outcome])
         /\ Fresh(c, Tool(method, id))
         /\ Fresh(c, [Tool(method, id) EXCEPT !.outcome = outcome])
<1> DEFINE r == Request(method, id)
<1>1. id \in Ids \union {NULL} /\ (id \in Tasks => status[id] # "unborn")
  BY ServicesAssumption DEF Names, Born, Ids
<1>2. r \in Call
  BY <1>1, NoCallTyped DEF Request, Call
<1>3. r.at = "idle" /\ r.code = NULL /\ r.id = id /\ r.method = method
  BY DEF Request, NoCall
<1>4. ~r.did
  BY DEF Request, NoCall
<1> DEFINE q == Tool(method, id)
<1>5. q = [r EXCEPT !.mcp = TRUE]
  BY DEF Tool
<1> HIDE DEF r, q
<1>6. q \in Call /\ q.at = "idle" /\ q.code = NULL /\ q.id = id /\ q.method = method /\ ~q.did
  BY <1>2, <1>3, <1>4, <1>5 DEF Call
<1>7. outcome \in {"completed", "failed", NULL}
  BY DEF LC!Terminal
<1>8. ASSUME NEW x \in Call, x.at = "idle", x.code = NULL, x.id = id, x.method = method, ~x.did
      PROVE  Fresh(c, x) /\ Fresh(c, [x EXCEPT !.outcome = outcome])
  <2> DEFINE y == [x EXCEPT !.outcome = outcome]
  <2>1. y \in Call
    BY <1>7 DEF Call
  <2>2. y.at = "idle" /\ y.code = NULL /\ y.id = id /\ y.method = method
    BY <1>8 DEF Call
  <2>3. ~y.did
    BY <1>8 DEF Call
  <2> HIDE DEF y
  <2>4. Fresh(c, x)
    BY <1>1, <1>8 DEF Fresh
  <2>5. Fresh(c, y)
    BY <1>1, <2>1, <2>2, <2>3 DEF Fresh
  <2> QED
    BY <2>4, <2>5 DEF y
<1> QED
  BY <1>2, <1>3, <1>4, <1>6, <1>8 DEF r, q

\* A worker's.
LEMMA OwnFresh ==
  ASSUME NEW c, NEW w \in Workers, NEW method \in TaskMethods, NEW id \in Born \union {NULL},
         method = "ClaimTask" => id = NULL,
         NEW outcome \in LC!Terminal
  PROVE  /\ Fresh(c, Own(w, method, id))
         /\ Fresh(c, [Own(w, method, id) EXCEPT !.outcome = outcome])
<1> DEFINE x == Own(w, method, id)
           y == [x EXCEPT !.outcome = outcome]
<1>1. id \in Ids \union {NULL} /\ (id \in Tasks => status[id] # "unborn")
  BY ServicesAssumption DEF Born, Ids
<1>2. x \in Call
  BY <1>1, NoCallTyped DEF Own, Request, Call
<1>3. x.at = "idle" /\ x.code = NULL /\ x.id = id /\ x.by = w /\ x.method = method
  BY DEF Own, Request, NoCall
<1>4. ~x.did
  BY DEF Own, Request, NoCall
<1>5. outcome \in {"completed", "failed", NULL}
  BY DEF LC!Terminal
<1> HIDE DEF x
<1>6. y \in Call
  BY <1>2, <1>5 DEF Call
<1>7. y.at = "idle" /\ y.code = NULL /\ y.id = id /\ y.by = w /\ y.method = method
  BY <1>2, <1>3 DEF Call
<1>8. ~y.did
  BY <1>2, <1>4 DEF Call
<1> HIDE DEF y
<1>9. Fresh(c, x) /\ Fresh(c, y)
  BY <1>1, <1>2, <1>3, <1>4, <1>6, <1>7, <1>8 DEF Fresh
<1> QED
  BY <1>9 DEF x, y

\* A client's request, whatever token and arguments it comes with.
LEMMA Asks ==
  ASSUME IInv, Watch, NEW c \in Callers, NEW r, NEW token, NEW valid,
         Fresh(c, r), Ask(c, r, token, valid)
  PROVE  IInv'
BY AskOpens, OpensKeeps, Zenon

LEMMA CLIKeeps ==
  ASSUME IInv, Watch, NEW c \in Admins, RunCLI(c)
  PROVE  IInv'
<1>0. c \in Callers /\ c \notin WorkerCalls
  BY ServicesAssumption DEF Callers
<1>1. PICK token \in Tokens : RunTasks(c, token) \/ RunWorkersList(c, token) \/ AskTaskLogs(c, token)
  BY DEF RunCLI
<1>2. "completed" \in LC!Terminal /\ {NULL, "malformed"} \subseteq Names \union {NULL}
  BY DEF LC!Terminal, Names
<1>3. ASSUME NEW method \in {"CreateTask", "ListTasks", "ListWorkers"}
      PROVE  Fresh(c, Request(method, NULL))
  BY <1>0, <1>2, RequestFresh DEF AdminMethods
<1>4. ASSUME NEW method \in {"GetTask", "CancelTask", "RetryTask", "RequestReview", "ListTaskLogs"},
             NEW id \in Names
      PROVE  Fresh(c, Request(method, id))
  BY <1>0, <1>2, RequestFresh DEF AdminMethods
<1>5. ASSUME NEW id \in Names, NEW outcome \in LC!Terminal
      PROVE  Fresh(c, [Request("FinalizeTask", id) EXCEPT !.outcome = outcome])
  BY <1>0, <1>2, RequestFresh DEF AdminMethods
<1>6. CASE RunTasksCreate(c, token)
  BY <1>0, <1>3, <1>6, Asks, Zenon DEF RunTasksCreate
<1>7. CASE RunTasksGet(c, token)
  BY <1>0, <1>4, <1>7, Asks, Zenon DEF RunTasksGet
<1>8. CASE RunTasksList(c, token)
  BY <1>0, <1>3, <1>8, Asks, Zenon DEF RunTasksList
<1>9. CASE RunTasksCancel(c, token)
  BY <1>0, <1>4, <1>9, Asks, Zenon DEF RunTasksCancel
<1>10. CASE RunTasksRetry(c, token)
  BY <1>0, <1>4, <1>10, Asks, Zenon DEF RunTasksRetry
<1>11. CASE RunTasksRequestReview(c, token)
  BY <1>0, <1>4, <1>11, Asks, Zenon DEF RunTasksRequestReview
<1>12. CASE RunTasksFinalize(c, token)
  <2>1. PICK id \in Names, outcome \in LC!Terminal, order \in {"id_first", "flag_first"} :
          Ask(c, [Request("FinalizeTask", IF order = "flag_first" /\ outcome = "failed"
                                          THEN "malformed" ELSE id) EXCEPT !.outcome = outcome],
              token, TRUE)
    BY <1>12 DEF RunTasksFinalize
  <2> DEFINE first == IF order = "flag_first" /\ outcome = "failed" THEN "malformed" ELSE id
  <2>2. first \in Names
    BY DEF Names
  <2>3. Ask(c, [Request("FinalizeTask", first) EXCEPT !.outcome = outcome], token, TRUE)
    BY <2>1
  <2> HIDE DEF first
  <2> QED
    BY <1>0, <1>5, <2>2, <2>3, Asks, Zenon
<1>13. CASE RunWorkersList(c, token)
  BY <1>0, <1>3, <1>13, Asks, Zenon DEF RunWorkersList
<1>14. CASE AskTaskLogs(c, token)
  BY <1>0, <1>4, <1>14, Asks, Zenon DEF AskTaskLogs
<1> QED
  BY <1>1, <1>6, <1>7, <1>8, <1>9, <1>10, <1>11, <1>12, <1>13, <1>14 DEF RunTasks

LEMMA MCPKeeps ==
  ASSUME IInv, Watch, NEW c \in Admins, RunMCP(c)
  PROVE  IInv'
<1>0. c \in Callers /\ c \notin WorkerCalls
  BY ServicesAssumption DEF Callers
<1>1. "completed" \in LC!Terminal
  BY DEF LC!Terminal
<1>2. ASSUME NEW method \in {"CreateTask", "ListTasks"}
      PROVE  Fresh(c, Tool(method, NULL))
  BY <1>0, <1>1, RequestFresh DEF AdminMethods
<1>3. ASSUME NEW method \in {"GetTask", "RequestReview"}, NEW id \in Names
      PROVE  Fresh(c, Tool(method, id))
  BY <1>0, <1>1, RequestFresh DEF AdminMethods
<1>4. ASSUME NEW id \in Names, NEW outcome \in LC!Terminal
      PROVE  Fresh(c, [Tool("FinalizeTask", id) EXCEPT !.outcome = outcome])
  BY <1>0, RequestFresh DEF AdminMethods
<1>5. CASE ToolCreateTask(c)
  BY <1>0, <1>2, <1>5, Asks, Zenon DEF ToolCreateTask
<1>6. CASE ToolGetTask(c)
  BY <1>0, <1>3, <1>6, Asks, Zenon DEF ToolGetTask
<1>7. CASE ToolListTasks(c)
  BY <1>0, <1>2, <1>7, Asks, Zenon DEF ToolListTasks
<1>8. CASE ToolRequestReview(c)
  BY <1>0, <1>3, <1>8, Asks, Zenon DEF ToolRequestReview
<1>9. CASE ToolFinalizeTask(c)
  BY <1>0, <1>4, <1>9, Asks, Zenon DEF ToolFinalizeTask
<1> QED
  BY <1>5, <1>6, <1>7, <1>8, <1>9 DEF RunMCP

LEMMA WorkerKeeps ==
  ASSUME IInv, Watch, NEW c \in WorkerCalls, NEW w \in Workers, RunWorker(w, c)
  PROVE  IInv'
<1>0. c \in Callers
  BY DEF Callers
<1>1. "completed" \in LC!Terminal
  BY DEF LC!Terminal
<1>2. Fresh(c, Own(w, "ClaimTask", NULL))
  BY <1>1, OwnFresh DEF TaskMethods
<1>3. ASSUME NEW method \in TaskMethods \ {"ClaimTask"}, NEW t \in Born
      PROVE  Fresh(c, Own(w, method, t))
  BY <1>1, OwnFresh DEF Names
<1>4. ASSUME NEW t \in Born, NEW outcome \in LC!Terminal
      PROVE  Fresh(c, [Own(w, "ReportResult", t) EXCEPT !.outcome = outcome])
  BY OwnFresh DEF TaskMethods, Names
<1>5. CASE Ask(c, Own(w, "ClaimTask", NULL), "worker_token", TRUE)
  BY <1>0, <1>2, <1>5, Asks, Zenon
<1>6. ASSUME NEW method \in TaskMethods \ {"ClaimTask", "ReportResult"}, NEW t \in Born,
             Ask(c, Own(w, method, t), "worker_token", TRUE)
      PROVE  IInv'
  <2>1. Fresh(c, Own(w, method, t))
    BY <1>3
  <2> QED
    BY <1>0, <1>6, <2>1, Asks, Zenon
<1>7. ASSUME NEW t \in Born, NEW outcome \in LC!Terminal,
             Ask(c, [Own(w, "ReportResult", t) EXCEPT !.outcome = outcome], "worker_token", TRUE)
      PROVE  IInv'
  BY <1>0, <1>4, <1>7, Asks, Zenon
<1> QED
  BY <1>5, <1>6, <1>7, Zenon DEF RunWorker

-----------------------------------------------------------------------------
(* Handlers *)

\* A statement that no counter is about.
LEMMA Served ==
  ASSUME IInv, Watch, NEW c \in Callers, LcStep, Uneventful, Others, Observed,
         call[c].at # "count", \E e : To(c, e) /\ e.at # "count"
  PROVE  IInv'
<1>1. owed' = owed
  BY ObservesNothing DEF IInv
<1> QED
  BY <1>1, PlainStep DEF Others

LEMMA AdminKeeps ==
  ASSUME IInv, Watch, NEW c \in Admins, ServeAdmin(c), Others, Observed
  PROVE  IInv'
<1>0. c \in Callers /\ c \notin WorkerCalls /\ LcOK
  BY ServicesAssumption DEF Callers, IInv
<1>1. ASSUME LcStep, Uneventful, call[c].at # "count", Reply(c, "OK", TRUE)
      PROVE  IInv'
  <2>1. \E e : To(c, e) /\ e.at = "reply"
    BY <1>0, <1>1, DoneSound
  <2> QED
    BY <1>0, <1>1, <2>1, Served
<1>2. ASSUME UNCHANGED lcVars, call[c].at # "count",
             NEW code \in {"NotFound", "FailedPrecondition"}, Reply(c, code, FALSE),
             code = "NotFound" => ~Finds(c, Present)
      PROVE  IInv'
  <2>1. \E e : To(c, e) /\ e.at = "reply"
    BY <1>0, <1>2, UndoneSound DEF Codes
  <2> QED
    BY <1>0, <1>2, <2>1, Served, StandsStill
<1>3. ASSUME LcStep, Uneventful, call[c].at = "handler",
             \/ Goto(c, "second", TRUE) \/ Goto(c, "second", FALSE) \/ Goto(c, "classify", FALSE)
      PROVE  IInv'
  <2>1. \E e : To(c, e) /\ e.at \in {"second", "classify"}
    BY <1>0, <1>3, OnwardSound
  <2> QED
    BY <1>0, <1>3, <2>1, Served
<1>4. CASE CreateTask(c)
  <2>1. PICK t \in Tasks, m \in LC!Limits : LC!Submit(t, m)
    BY <1>4 DEF CreateTask
  <2>2. LcStep /\ Uneventful
    BY <1>0, <2>1, OperatorSteps
  <2> QED
    BY <1>1, <1>4, <2>2 DEF CreateTask, In
<1>5. CASE GetTask(c)
  <2>1. LcStep /\ Uneventful
    BY <1>0, <1>5, StandsStill DEF GetTask
  <2> QED
    BY <1>1, <1>2, <1>5, <2>1 DEF GetTask, In
<1>6. CASE ListTasks(c) \/ ListWorkers(c) \/ ReadLogs(c)
  <2>1. LcStep /\ Uneventful
    BY <1>0, <1>6, StandsStill DEF ListTasks, ListWorkers, ReadLogs
  <2> QED
    BY <1>1, <1>6, <2>1 DEF ListTasks, ListWorkers, ReadLogs, In
<1>7. CASE ListTaskLogs(c)
  <2>1. LcStep /\ Uneventful
    BY <1>0, <1>7, StandsStill DEF ListTaskLogs
  <2> QED
    BY <1>2, <1>3, <1>7, <2>1 DEF ListTaskLogs, In
<1>8. CASE CancelTask(c) \/ RetryTask(c)
  <2>1. CASE Finds(c, LC!Settled)
    <3>1. LcStep /\ Uneventful
      BY <1>0, <1>8, <2>1, OperatorSteps DEF CancelTask, RetryTask, Finds
    <3> QED
      BY <1>1, <1>8, <2>1, <3>1 DEF CancelTask, RetryTask, In
  <2>2. CASE ~Finds(c, LC!Settled)
    <3>1. LcStep /\ Uneventful
      BY <1>0, <1>8, <2>2, StandsStill DEF CancelTask, RetryTask
    <3> QED
      BY <1>3, <1>8, <2>2, <3>1 DEF CancelTask, RetryTask, In
  <2> QED
    BY <2>1, <2>2
<1>9. CASE RequestReview(c)
  <2>1. CASE Finds(c, {"pr_opened"})
    <3>1. LcStep /\ Uneventful
      BY <1>0, <1>9, <2>1, OperatorSteps DEF RequestReview, Finds
    <3> QED
      BY <1>3, <1>9, <2>1, <3>1 DEF RequestReview, In
  <2>2. CASE ~Finds(c, {"pr_opened"})
    <3>1. LcStep /\ Uneventful
      BY <1>0, <1>9, <2>2, StandsStill DEF RequestReview
    <3> QED
      BY <1>3, <1>9, <2>2, <3>1 DEF RequestReview, In
  <2> QED
    BY <2>1, <2>2
<1>10. CASE FinalizeTask(c)
  <2>1. CASE Finds(c, LC!Parked)
    <3>1. LcStep /\ Uneventful
      BY <1>0, <1>10, <2>1, OperatorSteps DEF FinalizeTask, Finds
    <3> QED
      BY <1>3, <1>10, <2>1, <3>1 DEF FinalizeTask, In
  <2>2. CASE ~Finds(c, LC!Parked)
    <3>1. LcStep /\ Uneventful
      BY <1>0, <1>10, <2>2, StandsStill DEF FinalizeTask
    <3> QED
      BY <1>3, <1>10, <2>2, <3>1 DEF FinalizeTask, In
  <2> QED
    BY <2>1, <2>2
<1>11. CASE Classify(c)
  BY <1>2, <1>11 DEF Classify
<1>12. CASE Reread(c)
  <2>1. LcStep /\ Uneventful
    BY <1>0, <1>12, StandsStill DEF Reread
  <2>2. \E e : To(c, e) /\ e.at = "reply"
    BY <1>0, <1>12, <2>1, DoneSound DEF Reread
  <2> QED
    BY <1>0, <1>12, <2>1, <2>2, Served DEF Reread
<1> QED
  BY <1>4, <1>5, <1>6, <1>7, <1>8, <1>9, <1>10, <1>11, <1>12 DEF ServeAdmin

\* A statement that a counter is about, once.
LEMMA ServedCounted ==
  ASSUME IInv, Watch, NEW c \in WorkerCalls, NEW k \in Counters, NEW t,
         LcStep, Others, Observed, call[c].at = "handler", Counting(c, k),
         \A j \in Counters : Events(j) = IF j = k THEN {t} ELSE {}
  PROVE  IInv'
<1>1. PICK e : To(c, e) /\ e.at = "count" /\ e.counts = k
  BY CountingSound
<1>2. CountersExact' /\ owed' \in [Counters -> Int]
  BY <1>1, CountBegins DEF IInv, To, Others
<1> QED
  BY <1>1, <1>2, CallStep DEF Others, Callers

\* A sign of life of a task that may have been deleted.
LEMMA SignOfLifeSteps ==
  ASSUME LcOK, NEW c, SignOfLife(c)
  PROVE  LcStep /\ Uneventful
<1>1. CASE Finds(c, {"claimed"})
  BY <1>1, HolderSteps DEF SignOfLife, Finds
<1>2. CASE ~Finds(c, {"claimed"})
  BY <1>2, StandsStill DEF SignOfLife
<1> QED
  BY <1>1, <1>2

LEMMA TaskKeeps ==
  ASSUME IInv, Watch, NEW c \in WorkerCalls, ServeTask(c), Others, Observed
  PROVE  IInv'
<1>0. c \in Callers /\ c \notin Admins /\ LcOK
  BY ServicesAssumption DEF Callers, IInv
<1>w. call[c].at = "handler" => call[c].by \in Workers
  BY <1>0 DEF IInv, Paths, OnPath
<1>1. ASSUME LcStep, Uneventful, call[c].at # "count", Reply(c, "OK", TRUE)
      PROVE  IInv'
  <2>1. \E e : To(c, e) /\ e.at = "reply"
    BY <1>0, <1>1, DoneSound
  <2> QED
    BY <1>0, <1>1, <2>1, Served
<1>2. ASSUME UNCHANGED lcVars, call[c].at # "count",
             NEW code \in {"NotFound", "FailedPrecondition"}, Reply(c, code, FALSE),
             Mine(c) => call[c].method = "OpenPR"
      PROVE  IInv'
  <2>1. \E e : To(c, e) /\ e.at = "reply"
    BY <1>0, <1>2, UndoneSound DEF Codes
  <2> QED
    BY <1>0, <1>2, <2>1, Served, StandsStill
<1>3. ASSUME call[c].at = "handler", Refused(c), Mine(c) => call[c].method = "OpenPR"
      PROVE  IInv'
  BY <1>2, <1>3 DEF Refused
<1>4. CASE ClaimTask(c)
  <2>1. ASSUME NEW t \in Tasks, LC!Claim(call[c].by, t), Counting(c, "claimed") PROVE IInv'
    <3>1. /\ LcStep
          /\ \A j \in Counters : Events(j) = IF j = "claimed" THEN {t} ELSE {}
      BY <1>0, <1>w, <1>4, <2>1, ClaimSteps DEF ClaimTask, In
    <3> QED
      BY <1>4, <2>1, <3>1, ServedCounted DEF ClaimTask, In, Counters
  <2>2. ASSUME Reply(c, "NotFound", FALSE), UNCHANGED lcVars PROVE IInv'
    <3>1. ~Mine(c)
      BY <1>0, <1>4, ServicesAssumption DEF ClaimTask, In, IInv, Paths, OnPath, Mine, Finds
    <3> QED
      BY <1>2, <1>4, <2>2, <3>1 DEF ClaimTask, In
  <2> QED
    BY <1>4, <2>1, <2>2 DEF ClaimTask
<1>5. CASE Heartbeat(c) \/ UpdateProgress(c)
  <2>1. CASE Mine(c)
    <3>1. LcStep /\ Uneventful
      BY <1>0, <1>5, <2>1, SignOfLifeSteps DEF Heartbeat, UpdateProgress
    <3> QED
      BY <1>1, <1>5, <2>1, <3>1 DEF Heartbeat, UpdateProgress, In
  <2>2. CASE ~Mine(c)
    BY <1>3, <1>5, <2>2 DEF Heartbeat, UpdateProgress, In
  <2> QED
    BY <2>1, <2>2
<1>6. CASE SetJiraURL(c)
  <2>1. LcStep /\ Uneventful
    BY <1>0, <1>6, StandsStill DEF SetJiraURL
  <2> QED
    BY <1>1, <1>3, <1>6, <2>1 DEF SetJiraURL, In
<1>7. CASE OpenPR(c)
  <2>1. CASE Mine(c) /\ Finds(c, {"in_progress"})
    <3>1. LcStep /\ Uneventful
      BY <1>0, <1>w, <1>7, <2>1, HolderSteps DEF OpenPR, In, Finds
    <3> QED
      BY <1>1, <1>7, <2>1, <3>1 DEF OpenPR, In
  <2>2. CASE ~(Mine(c) /\ Finds(c, {"in_progress"}))
    BY <1>3, <1>7, <2>2 DEF OpenPR, In
  <2> QED
    BY <2>1, <2>2
<1>8. CASE AppendLog(c)
  <2>1. CASE Mine(c)
    <3>1. LcStep /\ Uneventful
      BY <1>0, <1>8, StandsStill DEF AppendLog
    <3>2. \E e : To(c, e) /\ e.at \in {"second", "classify"}
      BY <1>0, <1>8, <2>1, <3>1, OnwardSound DEF AppendLog, In
    <3> QED
      BY <1>0, <1>8, <3>1, <3>2, Served DEF AppendLog, In
  <2>2. CASE ~Mine(c)
    BY <1>2, <1>8, <2>2 DEF AppendLog, In
  <2> QED
    BY <2>1, <2>2
<1>9. CASE InsertLog(c)
  <2>1. LcStep /\ Uneventful
    BY <1>0, <1>9, SignOfLifeSteps DEF InsertLog
  <2>2. CASE Finds(c, Present)
    BY <1>1, <1>9, <2>1, <2>2 DEF InsertLog
  <2>3. CASE ~Finds(c, Present)
    <3>1. UNCHANGED lcVars
      BY <1>9, <2>3 DEF InsertLog, SignOfLife, Finds, Present, LC!Statuses, LC!Active
    <3>2. \E e : To(c, e) /\ e.at = "reply"
      BY <1>0, <1>9, <2>3, <3>1, UndoneSound DEF InsertLog, Codes
    <3> QED
      BY <1>0, <1>9, <2>1, <3>2, Served DEF InsertLog
  <2> QED
    BY <2>2, <2>3
<1>10. CASE ReportResult(c)
  <2> DEFINE t == call[c].id
  <2>1. CASE ~Mine(c)
    BY <1>3, <1>10, <2>1 DEF ReportResult, In
  <2>2. CASE Mine(c) /\ call[c].outcome = "completed"
    <3>1. t \in Tasks /\ LC!Complete(call[c].by, t) /\ Counting(c, "completed") /\ call[c].at = "handler"
      BY <1>10, <2>2 DEF ReportResult, Mine, Finds, In
    <3>2. /\ LcStep
          /\ \A j \in Counters : Events(j) = IF j = "completed" THEN {t} ELSE {}
      BY <1>0, <3>1, CompleteSteps
    <3> QED
      BY <3>1, <3>2, ServedCounted DEF Counters
  <2>3. CASE Mine(c) /\ call[c].outcome # "completed"
    <3>1. /\ t \in Tasks /\ LC!Lapse({t}) /\ call[c].at = "handler"
          /\ IF LC!Exhausted(t) THEN Counting(c, "failed") ELSE Reply(c, "OK", TRUE)
      BY <1>10, <2>3 DEF ReportResult, Mine, Finds, In
    <3>2. /\ LcStep
          /\ \A j \in Counters :
               Events(j) = IF j = "failed" THEN {u \in {t} : LC!Exhausted(u)} ELSE {}
      BY <1>0, <3>1, LapseSteps
    <3>3. CASE LC!Exhausted(t)
      <4>1. {u \in {t} : LC!Exhausted(u)} = {t}
        BY <3>3
      <4>2. \A j \in Counters : Events(j) = IF j = "failed" THEN {t} ELSE {}
        BY <3>2, <4>1
      <4> QED
        BY <3>1, <3>2, <3>3, <4>2, ServedCounted DEF Counters
    <3>4. CASE ~LC!Exhausted(t)
      <4>1. {u \in {t} : LC!Exhausted(u)} = {}
        BY <3>4
      <4>2. Uneventful
        BY <3>2, <4>1 DEF Uneventful
      <4> QED
        BY <1>1, <3>1, <3>2, <3>4, <4>2
    <3> QED
      BY <3>3, <3>4
  <2> QED
    BY <2>1, <2>2, <2>3
<1> QED
  BY <1>4, <1>5, <1>6, <1>7, <1>8, <1>9, <1>10 DEF ServeTask

-----------------------------------------------------------------------------
(* Counters, faults and the rest of the system *)

LEMMA CountKeeps ==
  ASSUME IInv, Watch, NEW c \in WorkerCalls, Count(c) \/ CommitUnheard(c)
  PROVE  IInv'
<1>0. c \in Callers
  BY DEF Callers
<1>1. /\ call[c].at = "count" /\ UNCHANGED lcVars /\ reaper' = reaper
      /\ owed' = [owed EXCEPT ![call[c].counts] = @ - 1]
      /\ Reply(c, "OK", TRUE) \/ Reply(c, "Internal", TRUE)
  BY DEF Count, CommitUnheard
<1>2. LcStep
  BY <1>1, StandsStill DEF IInv
<1>3. PICK e : To(c, e) /\ e.at = "reply"
  BY <1>0, <1>1, <1>2, DoneSound
<1>4. CountersExact' /\ owed' \in [Counters -> Int]
  BY <1>1, <1>3, CountEnds DEF IInv, To
<1> QED
  BY <1>0, <1>1, <1>2, <1>3, <1>4, CallStep

LEMMA FaultKeeps ==
  ASSUME IInv, Watch, NEW c \in Callers, StatementFails(c) \/ Deadline(c)
  PROVE  IInv'
<1>1. UNCHANGED lcVars /\ reaper' = reaper /\ owed' = owed /\ call[c].at # "count"
  BY DEF StatementFails, Deadline
<1>2. LcStep
  BY <1>1, StandsStill DEF IInv
<1>3. PICK e : To(c, e) /\ e.at = "reply"
  <2>1. ASSUME NEW code \in {"Internal", "DeadlineExceeded", "FailedPrecondition"},
               code = "FailedPrecondition" => call[c].at = "classify",
               Reply(c, code, call[c].did)
        PROVE  \E e : To(c, e) /\ e.at = "reply"
    BY <1>1, <2>1, FaultSound
  <2>2. CASE Deadline(c)
    <3>1. Reply(c, "DeadlineExceeded", call[c].did)
      BY <2>2 DEF Deadline
    <3> QED
      BY <2>1, <3>1
  <2>3. CASE StatementFails(c)
    <3> DEFINE code == IF call[c].at = "classify" THEN "FailedPrecondition" ELSE "Internal"
    <3>1. Reply(c, code, call[c].did)
      BY <2>3 DEF StatementFails
    <3>2. /\ code \in {"Internal", "DeadlineExceeded", "FailedPrecondition"}
          /\ code = "FailedPrecondition" => call[c].at = "classify"
      OBVIOUS
    <3> HIDE DEF code
    <3> QED
      BY <2>1, <3>1, <3>2
  <2> QED
    BY <2>2, <2>3
<1> QED
  BY <1>1, <1>2, <1>3, PlainStep

LEMMA DoneKeeps ==
  ASSUME IInv, Watch, NEW c \in Callers, Done(c)
  PROVE  IInv'
<1>1. /\ call[c].at = "reply" /\ call' = [call EXCEPT ![c] = NoCall]
      /\ UNCHANGED lcVars /\ reaper' = reaper /\ owed' = owed
  BY DEF Done
<1>2. LcStep
  BY <1>1, StandsStill DEF IInv
<1>3. NoCall.at = "idle" /\ NoCall.code = NULL /\ NoCall.id = NULL
  BY DEF NoCall
<1>4. Sound(c, NoCall)
  BY <1>3, ServicesAssumption DEF Sound
<1>5. To(c, NoCall)
  BY <1>1, <1>4, NoCallTyped DEF To
<1> QED
  BY <1>1, <1>2, <1>3, <1>5, PlainStep

LEMMA WebUIKeeps ==
  ASSUME IInv, Watch, WebUI, Observed
  PROVE  IInv'
<1>1. call' = call /\ reaper' = reaper
  BY DEF WebUI
<1>2. LcStep /\ Uneventful
  BY OperatorSteps DEF WebUI, IInv
<1>3. owed' = owed
  BY <1>2, ObservesNothing DEF IInv
<1>4. CountersExact'
  BY <1>1, <1>3 DEF IInv, CountersExact
<1>5. reaper' \in 0 .. Cardinality(Tasks) /\ owed' \in [Counters -> Int]
  BY <1>1, <1>3 DEF IInv, TypeOK
<1> QED
  BY <1>1, <1>2, <1>4, <1>5, IdleStep

\* The reaper counts what its statement failed, all at once.
LEMMA ReapKeeps ==
  ASSUME IInv, Watch, Reap, Observed
  PROVE  IInv'
<1>1. PICK S \in SUBSET Tasks :
        LC!Lapse(S) /\ reaper' = Cardinality({t \in S : LC!Exhausted(t)})
  BY DEF Reap
<1> DEFINE F == {t \in S : LC!Exhausted(t)}
<1>2. reaper = 0 /\ call' = call
  BY DEF Reap
<1>3. /\ LcStep
      /\ \A k \in Counters : Events(k) = IF k = "failed" THEN F ELSE {}
  BY <1>1, LapseSteps DEF IInv
<1>4. F \in SUBSET Tasks
  OBVIOUS
<1>5. reaper' \in 0 .. Cardinality(Tasks)
  <2>1. IsFiniteSet(F) /\ Cardinality(F) <= Cardinality(Tasks)
    BY <1>4, ServicesAssumption, FS_Subset
  <2>2. Cardinality(F) \in Nat /\ Cardinality(Tasks) \in Nat
    BY <2>1, ServicesAssumption, FS_CardinalityType
  <2> QED
    BY <1>1, <2>1, <2>2
<1> HIDE DEF F
<1>6. owed' = [k \in Counters |-> owed[k] + Cardinality(Events(k))]
  BY Observes
<1>7. owed \in [Counters -> Int] /\ reaper' \in Nat
  BY <1>5, ServicesAssumption, FS_CardinalityType DEF IInv, TypeOK
<1>8. \A k \in Counters : Cardinality(Events(k)) = IF k = "failed" THEN reaper' ELSE 0
  BY <1>1, <1>3, FS_EmptySet DEF F
<1>9. owed' \in [Counters -> Int]
  BY <1>6, <1>7, <1>8
<1>10. CountersExact'
  <2>1. ASSUME NEW k \in Counters
        PROVE  owed'[k] = Cardinality(Tally(k)) + (IF k = "failed" THEN reaper' ELSE 0)
    <3>1. owed[k] = Cardinality(Tally(k)) + (IF k = "failed" THEN reaper ELSE 0)
      BY DEF IInv, CountersExact, Tally
    <3> QED
      BY <1>2, <1>6, <1>7, <1>8, <3>1, Finite
  <2> QED
    BY <1>2, <2>1 DEF CountersExact, Tally
<1> QED
  BY <1>2, <1>3, <1>5, <1>9, <1>10, IdleStep

LEMMA ReapCountKeeps ==
  ASSUME IInv, Watch, ReapCount \/ ReapUnheard
  PROVE  IInv'
<1>1. /\ reaper' = 0 /\ call' = call /\ UNCHANGED lcVars
      /\ owed' = [owed EXCEPT !["failed"] = @ - reaper]
  BY DEF ReapCount, ReapUnheard
<1>2. LcStep
  BY <1>1, StandsStill DEF IInv
<1>3. Cardinality(Tasks) \in Nat
  BY ServicesAssumption, FS_CardinalityType
<1>4. owed \in [Counters -> Int] /\ reaper \in Nat
  BY <1>3 DEF IInv, TypeOK
<1>5. reaper' \in 0 .. Cardinality(Tasks) /\ owed' \in [Counters -> Int]
  BY <1>1, <1>3, <1>4 DEF Counters
<1>6. CountersExact'
  <2>1. ASSUME NEW k \in Counters
        PROVE  owed'[k] = Cardinality(Tally(k)) + (IF k = "failed" THEN reaper' ELSE 0)
    <3>1. owed[k] = Cardinality(Tally(k)) + (IF k = "failed" THEN reaper ELSE 0)
      BY DEF IInv, CountersExact, Tally
    <3> QED
      BY <1>1, <1>4, <3>1, Finite
  <2> QED
    BY <1>1, <2>1 DEF CountersExact, Tally
<1> QED
  BY <1>1, <1>2, <1>5, <1>6, IdleStep

-----------------------------------------------------------------------------
LEMMA InitHolds ==
  ASSUME Init
  PROVE  IInv
<1>1. LcOK
  BY ServicesAssumption DEF Init, LC!LifecycleInit, LcOK, LC!Statuses, LC!Limits
<1>2. NoCall.at = "idle" /\ NoCall.code = NULL /\ NoCall.id = NULL
  BY DEF NoCall
<1>3. Cardinality(Tasks) \in Nat
  BY ServicesAssumption, FS_CardinalityType
<1>4. TypeOK
  BY <1>2, <1>3, NoCallTyped DEF Init, TypeOK
<1>5. Paths
  BY <1>2, ServicesAssumption DEF Init, Paths, OnPath
<1>6. RepliesTruthful /\ RefusedHoldsNothing
  BY <1>2 DEF Init, RepliesTruthful, RefusedHoldsNothing, Callers
<1>7. CountersExact
  <2>1. ASSUME NEW k \in Counters
        PROVE  owed[k] = Cardinality(Tally(k)) + (IF k = "failed" THEN reaper ELSE 0)
    <3>1. Tally(k) = {}
      BY <1>2 DEF Init, Callers, Tally
    <3>2. Cardinality(Tally(k)) = 0
      BY <3>1, FS_EmptySet
    <3>3. owed[k] = 0 /\ reaper = 0
      BY DEF Init
    <3> QED
      BY <3>2, <3>3
  <2> QED
    BY <2>1 DEF CountersExact, Tally
<1> QED
  BY <1>1, <1>4, <1>5, <1>6, <1>7 DEF IInv

LEMMA StepKeeps ==
  ASSUME IInv, Watch, Step
  PROVE  IInv'
<1>1. ASSUME NEW c \in Admins, RunCLI(c) \/ RunMCP(c) \/ (ServeAdmin(c) /\ Others /\ Observed)
      PROVE  IInv'
  BY <1>1, CLIKeeps, MCPKeeps, AdminKeeps
<1>2. ASSUME NEW c \in WorkerCalls,
             (\E w \in Workers : RunWorker(w, c)) \/ (ServeTask(c) /\ Others /\ Observed) \/ Count(c) \/ CommitUnheard(c)
      PROVE  IInv'
  BY <1>2, WorkerKeeps, TaskKeeps, CountKeeps
<1>3. ASSUME NEW c \in Callers, StatementFails(c) \/ Deadline(c) \/ Done(c) PROVE IInv'
  BY <1>3, FaultKeeps, DoneKeeps
<1>4. ASSUME (WebUI /\ Observed) \/ (Reap /\ Observed) \/ ReapCount \/ ReapUnheard PROVE IInv'
  BY <1>4, WebUIKeeps, ReapKeeps, ReapCountKeeps
<1> QED
  BY <1>1, <1>2, <1>3, <1>4 DEF Step

LEMMA NextKeeps ==
  ASSUME IInv, [Next]_vars
  PROVE  IInv'
<1>1. CASE UNCHANGED vars
  BY <1>1 DEF vars, lcVars, IInv, LcOK, TypeOK, Paths, OnPath, RepliesTruthful, Finds, Mine,
              RefusedHoldsNothing, CountersExact
<1>2. CASE Next
  BY <1>2, StepKeeps DEF Next
<1> QED
  BY <1>1, <1>2

LEMMA Invariance == Spec => []IInv
<1>1. Init => IInv
  BY InitHolds
<1>2. IInv /\ [Next]_vars => IInv'
  BY NextKeeps
<1> QED
  BY <1>1, <1>2, PTL DEF Spec

-----------------------------------------------------------------------------
\* Calls stay well formed on every path through client, handler and faults, and
\* the reaper never owes more ends than there are tasks.
THEOREM TypeCorrect == Spec => []TypeOK
<1>1. IInv => TypeOK
  BY DEF IInv
<1> QED
  BY <1>1, Invariance, PTL

\* AdminService's codes can be relied on, however many clients, workers, reaps
\* and faults come between the statements of a call and the reading of its reply.
THEOREM RepliesTruthfulHolds == Spec => []RepliesTruthful
<1>1. IInv => RepliesTruthful
  BY DEF IInv
<1> QED
  BY <1>1, Invariance, PTL

\* TaskService refuses no worker that holds the task from the request to the
\* reply, whatever its other calls do, but for OpenPR before the first sign of life.
THEOREM RefusedHoldsNothingHolds == Spec => []RefusedHoldsNothing
<1>1. IInv => RefusedHoldsNothing
  BY DEF IInv
<1> QED
  BY <1>1, Invariance, PTL

\* The counters of ClaimTask, ReportResult and the reaper are exact for any number
\* of concurrent calls and any size of a reaper pass.
THEOREM CountersExactHolds == Spec => []CountersExact
<1>1. IInv => CountersExact
  BY DEF IInv
<1> QED
  BY <1>1, Invariance, PTL

-----------------------------------------------------------------------------
(* The lifecycle behind the services *)

\* A step of the lifecycle, or one it does not see.
Follows == LC!LifecycleNext \/ UNCHANGED lcVars

\* What operators do.
LEMMA OperatorFollows ==
  ASSUME NEW t \in Tasks,
         \/ \E m \in LC!Limits : LC!Submit(t, m) \/ LC!Edit(t, m)
         \/ LC!Retry(t) \/ LC!Cancel(t) \/ LC!Review(t)
         \/ \E outcome \in LC!Terminal : LC!Finalize(t, outcome)
  PROVE  Follows
<1>1. LC!Operates(t)
  BY DEF LC!Operates
<1> QED
  BY <1>1 DEF Follows, LC!LifecycleNext

\* What a worker and the reaper do.
LEMMA WorkerFollows ==
  ASSUME NEW t \in Tasks, NEW w \in Workers,
         LC!Claim(w, t) \/ LC!Complete(w, t) \/ LC!Park(w, t)
  PROVE  Follows
BY DEF Follows, LC!LifecycleNext

LEMMA LapseFollows ==
  ASSUME NEW S \in SUBSET Tasks, LC!Lapse(S)
  PROVE  Follows
BY DEF Follows, LC!LifecycleNext

\* A handler of AdminService applies its transition to the task its statement found.
LEMMA AdminFollows ==
  ASSUME NEW c \in Admins, ServeAdmin(c)
  PROVE  Follows
<1> DEFINE t == call[c].id
<1>1. CASE CreateTask(c)
  BY <1>1, OperatorFollows DEF CreateTask
<1>2. CASE CancelTask(c)
  <2>1. (t \in Tasks /\ LC!Cancel(t)) \/ UNCHANGED lcVars
    BY <1>2 DEF CancelTask, Finds
  <2> QED
    BY <2>1, OperatorFollows DEF Follows
<1>3. CASE RetryTask(c)
  <2>1. (t \in Tasks /\ LC!Retry(t)) \/ UNCHANGED lcVars
    BY <1>3 DEF RetryTask, Finds
  <2> QED
    BY <2>1, OperatorFollows DEF Follows
<1>4. CASE RequestReview(c)
  <2>1. (t \in Tasks /\ LC!Review(t)) \/ UNCHANGED lcVars
    BY <1>4 DEF RequestReview, Finds
  <2> QED
    BY <2>1, OperatorFollows DEF Follows
<1>5. CASE FinalizeTask(c)
  <2>1. (t \in Tasks /\ LC!Finalize(t, call[c].outcome)) \/ UNCHANGED lcVars
    BY <1>5 DEF FinalizeTask, Finds
  <2>2. LC!Finalize(t, call[c].outcome) => call[c].outcome \in LC!Terminal
    BY DEF LC!Finalize
  <2> QED
    BY <2>1, <2>2, OperatorFollows DEF Follows
<1>6. CASE \/ GetTask(c) \/ ListTasks(c) \/ ListTaskLogs(c) \/ ReadLogs(c)
           \/ ListWorkers(c) \/ Classify(c) \/ Reread(c)
  BY <1>6 DEF GetTask, ListTasks, ListTaskLogs, ReadLogs, ListWorkers, Classify, Reread, Follows
<1> QED
  BY <1>1, <1>2, <1>3, <1>4, <1>5, <1>6 DEF ServeAdmin

\* A handler of TaskService does so if its caller holds the task.
LEMMA TaskFollows ==
  ASSUME IInv, NEW c \in WorkerCalls, ServeTask(c)
  PROVE  Follows
<1> DEFINE t == call[c].id
<1>0. Mine(c) => t \in Tasks
  BY DEF Mine, Finds
<1>w. call[c].at = "handler" => call[c].by \in Workers
  BY DEF IInv, Paths, OnPath, Callers
<1>a. ASSUME SignOfLife(c) PROVE Follows
  <2>1. (t \in Tasks /\ LC!Start(t)) \/ UNCHANGED lcVars
    BY <1>a DEF SignOfLife, Finds
  <2> QED
    BY <2>1 DEF Follows, LC!LifecycleNext
<1>b. ASSUME Refused(c) PROVE Follows
  BY <1>b DEF Refused, Follows
<1>1. CASE ClaimTask(c)
  BY <1>1, <1>w, WorkerFollows DEF ClaimTask, In, Follows
<1>2. CASE Heartbeat(c) \/ UpdateProgress(c) \/ InsertLog(c)
  BY <1>2, <1>a, <1>b DEF Heartbeat, UpdateProgress, InsertLog
<1>3. CASE SetJiraURL(c) \/ AppendLog(c)
  BY <1>3 DEF SetJiraURL, AppendLog, Follows
<1>4. CASE OpenPR(c)
  <2>1. Refused(c) \/ (Mine(c) /\ call[c].by \in Workers /\ LC!Park(call[c].by, t))
    BY <1>4, <1>w DEF OpenPR, In
  <2> QED
    BY <1>0, <1>b, <2>1, WorkerFollows
<1>5. CASE ReportResult(c)
  <2>1. \/ Refused(c)
        \/ Mine(c) /\ call[c].by \in Workers /\ LC!Complete(call[c].by, t)
        \/ Mine(c) /\ LC!Lapse({t})
    BY <1>5, <1>w DEF ReportResult, In
  <2>2. Mine(c) => {t} \in SUBSET Tasks
    BY <1>0
  <2> QED
    BY <1>0, <1>b, <2>1, <2>2, WorkerFollows, LapseFollows
<1> QED
  BY <1>1, <1>2, <1>3, <1>4, <1>5 DEF ServeTask

\* Asking, counting, faults and reading a reply are invisible.
LEMMA UnseenFollows ==
  ASSUME NEW c \in Callers,
         \/ RunCLI(c) \/ RunMCP(c) \/ (\E w : RunWorker(w, c)) \/ Count(c) \/ CommitUnheard(c)
         \/ StatementFails(c) \/ Deadline(c) \/ Done(c)
  PROVE  UNCHANGED lcVars
<1>1. \A r, token, valid : Ask(c, r, token, valid) => UNCHANGED lcVars
  BY DEF Ask
<1>2. CASE RunCLI(c)
  BY <1>1, <1>2 DEF RunCLI, RunTasks, RunTasksCreate, RunTasksGet, RunTasksList, RunTasksCancel,
                    RunTasksRetry, RunTasksRequestReview, RunTasksFinalize, AskTaskLogs, RunWorkersList
<1>3. CASE RunMCP(c)
  BY <1>1, <1>3 DEF RunMCP, ToolCreateTask, ToolGetTask, ToolListTasks, ToolRequestReview, ToolFinalizeTask
<1>4. CASE \E w : RunWorker(w, c)
  BY <1>1, <1>4 DEF RunWorker
<1>5. CASE Count(c) \/ CommitUnheard(c) \/ StatementFails(c) \/ Deadline(c) \/ Done(c)
  BY <1>5 DEF Count, CommitUnheard, StatementFails, Deadline, Done
<1> QED
  BY <1>2, <1>3, <1>4, <1>5

\* Between clients that come in late and statements that fail, the queue keeps its
\* promise: no call takes a task through a transition the lifecycle does not have.
THEOREM ServicesFollowLifecycle == Spec => LC!LifecycleSpec
<1>1. Init => LC!LifecycleInit
  BY DEF Init
<1>2. ASSUME IInv, [Next]_vars PROVE [LC!LifecycleNext]_(LC!lcVars)
  <2>1. UNCHANGED vars \/ ReapCount \/ ReapUnheard => UNCHANGED lcVars
    BY DEF vars, ReapCount, ReapUnheard, lcVars
  <2>2. WebUI => Follows
    BY OperatorFollows DEF WebUI
  <2>3. Reap => Follows
    BY LapseFollows DEF Reap
  <2>4. ASSUME NEW c \in Admins, RunCLI(c) \/ RunMCP(c) \/ ServeAdmin(c) PROVE Follows
    BY <2>4, AdminFollows, UnseenFollows DEF Callers, Follows
  <2>5. ASSUME NEW c \in WorkerCalls,
               (\E w \in Workers : RunWorker(w, c)) \/ ServeTask(c) \/ Count(c) \/ CommitUnheard(c)
        PROVE  Follows
    BY <1>2, <2>5, TaskFollows, UnseenFollows DEF Callers, Follows
  <2>6. ASSUME NEW c \in Callers, StatementFails(c) \/ Deadline(c) \/ Done(c) PROVE Follows
    BY <2>6, UnseenFollows DEF Follows
  <2>7. Follows
    BY <1>2, <2>1, <2>2, <2>3, <2>4, <2>5, <2>6 DEF Next, Step, Follows
  <2> QED
    BY <2>7 DEF Follows, LC!lcVars, lcVars
<1> QED
  BY <1>1, <1>2, Invariance, PTL DEF Spec, LC!LifecycleSpec
=============================================================================
