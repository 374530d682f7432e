------------------------- MODULE WorkerBridgeProofs -------------------------
(***************************************************************************)
(* The safety properties of WorkerBridge, for every set of tasks, rivals,  *)
(* tool calls and handles.                                                 *)
(*                                                                         *)
(* The invariant has two halves. Threads is about the process alone: which *)
(* call may hold which handle, where. Claims ties the handles to what the  *)
(* mastermind says. Only the claim RPC, and the RPC that ends a claim,     *)
(* touch both; every other step of the mastermind is Quiet.                *)
(***************************************************************************)
EXTENDS WorkerBridge, LifecycleProofs

\* A call is only ever where its tool takes it.
Steps ==
  \A c \in Calls :
    /\ At(c, "idle") => call[c].op = "none"
    /\ At(c, "ask") \/ At(c, "install") => call[c].op = "claim"
    /\ At(c, "mark") => call[c].op \in Finalizing \union {"drop"}
    /\ At(c, "rpc") => call[c].op \in Finalizing \union {"drop", "note"}
    /\ At(c, "clear") => call[c].op \in Finalizing

\* A claim that is not installed, or lost the race, is known to one call only
\* and is finalized by no one else.
Owner(c) == At(c, "install") \/ call[c].op = "drop"
Owned ==
  \A c \in Calls : Owner(c) =>
    /\ call[c].h # current
    /\ \A d \in Calls \ {c} : call[d].h # call[c].h
    /\ ~At(c, "rpc") => ~handle[call[c].h].finalized

\* A call that talks to the mastermind about a task's end has marked its handle.
Sending(c) == call[c].op # "note" /\ call[c].pc \in {"rpc", "clear"}
Marked == \A c \in Calls : Sending(c) => handle[call[c].h].finalized

\* A finalizing call works on the current handle, or is about to learn that
\* another one was first.
OnCurrent ==
  \A c \in Calls : call[c].op \in Finalizing =>
    call[c].h = current \/ (At(c, "mark") /\ handle[call[c].h].finalized)

Threads ==
  Steps /\ Owned /\ Marked /\ OnCurrent /\ BeatsCurrentOnly /\ SingleFinalizer

\* A handle in use stands for a claim that was made.
Points(h) == handle[h].task \in Tasks /\ handle[h].attempt <= attempts[handle[h].task]
HandlesPoint == \A h \in Handles : InUse(h) => Points(h)

\* The claim a call is about to clear has ended; if the task is this worker's
\* again, that is a later claim.
Over(h) == Mine(handle[h].task) => handle[h].attempt < attempts[handle[h].task]
Cleared == \A c \in Calls : At(c, "clear") => Over(call[c].h)

Claims == HandlesPoint /\ Cleared /\ ClaimsTracked

IInv == TypeOK /\ Threads /\ Claims

-----------------------------------------------------------------------------
(* The mastermind *)

\* The lifecycle's variables are in their domains.
LcOK ==
  /\ status \in [Tasks -> Statuses] /\ holder \in [Tasks -> Workers \union {NULL}]
  /\ attempts \in [Tasks -> Nat] /\ limit \in [Tasks -> Limits]

\* Mine(t) after the step, for a t from before it.
MineNext(t) == status'[t] \in Active /\ holder'[t] = Me

\* A step that gives this worker no claim: attempts only grow, and a claim that
\* is still there afterwards was there before.
Quiet ==
  /\ LcOK'
  /\ \A t \in Tasks : attempts[t] <= attempts'[t]
  /\ \A t \in Tasks : MineNext(t) => Mine(t) /\ attempts'[t] = attempts[t]

\* A step that does not involve the mastermind is quiet.
LEMMA UnchangedQuiet == LcOK /\ UNCHANGED lcVars => Quiet
BY DEF LcOK, Quiet, lcVars, Mine, MineNext, Held

\* The start of a task is quiet.
LEMMA StartQuiet ==
  ASSUME LcOK, NEW t \in Tasks, Start(t)
  PROVE  Quiet
BY DEF LcOK, Quiet, Start, Mine, MineNext, Held, Active, Statuses

\* A lapse is quiet, and ends the claim.
LEMMA LapseQuiet ==
  ASSUME LcOK, NEW t \in Tasks, Lapse({t})
  PROVE  Quiet /\ ~MineNext(t)
BY DEF LcOK, Quiet, Lapse, Mine, MineNext, Held, Active, Statuses, Settled, Terminal

\* Completing and parking are quiet, and end the claim.
LEMMA EndQuiet ==
  ASSUME LcOK, NEW t \in Tasks, NEW w \in Workers, Complete(w, t) \/ Park(w, t)
  PROVE  Quiet /\ ~MineNext(t)
BY DEF LcOK, Quiet, Complete, Park, Mine, MineNext, Held, Active, Statuses, Settled, Terminal, Parked

\* A rival's claim is quiet: pending tasks are nobody's.
LEMMA RivalClaimQuiet ==
  ASSUME LcOK, NEW t \in Tasks, NEW w \in Workers \ {Me}, Claim(w, t)
  PROVE  Quiet
<1>1. LcOK'
  BY DEF LcOK, Claim, Statuses, Active
<1>2. \A u \in Tasks : attempts[u] <= attempts'[u]
  BY DEF LcOK, Claim
<1>3. \A u \in Tasks : MineNext(u) => Mine(u) /\ attempts'[u] = attempts[u]
  BY DEF LcOK, Claim, Mine, MineNext, Held
<1> QED
  BY <1>1, <1>2, <1>3 DEF Quiet

\* A claim of this worker starts the next attempt of a task it did not hold.
LEMMA OwnClaim ==
  ASSUME LcOK, NEW t \in Tasks, Claim(Me, t)
  PROVE  /\ LcOK' /\ attempts'[t] = attempts[t] + 1
         /\ \A u \in Tasks \ {t} : attempts'[u] = attempts[u] /\ (MineNext(u) => Mine(u))
<1>1. LcOK'
  BY BridgeAssumption DEF LcOK, Claim, Statuses, Active
<1> QED
  BY <1>1 DEF LcOK, Claim, Mine, MineNext, Held

\* A served heartbeat or note is quiet.
LEMMA NoticedQuiet ==
  ASSUME LcOK, NEW t \in Tasks, Noticed(t)
  PROVE  Quiet
BY UnchangedQuiet, StartQuiet DEF Noticed

-----------------------------------------------------------------------------
(* The process *)

\* The process's own variables are in their domains.
OwnOK ==
  /\ current \in Handles \union {NULL}
  /\ handle \in [Handles -> Handle]
  /\ call \in [Calls -> Call]
  /\ \A c \in Calls : call[c].h = NULL <=> call[c].pc \in {"idle", "ask"}
  /\ beats \subseteq Handles /\ leaked \subseteq Tasks /\ up \in BOOLEAN

\* The type invariant is about the mastermind and about the process.
LEMMA TypeParts == TypeOK <=> LcOK /\ OwnOK
BY DEF TypeOK, LcOK, OwnOK

\* Return and Goto change one call.
LEMMA ReturnOne ==
  ASSUME OwnOK, NEW c \in Calls, Return(c)
  PROVE  /\ call' \in [Calls -> Call] /\ call'[c] = Idle
         /\ \A d \in Calls \ {c} : call'[d] = call[d]
BY DEF OwnOK, Return, Idle, Call, Ops

\* See above.
LEMMA GotoOne ==
  ASSUME OwnOK, NEW c \in Calls, NEW pc \in {"rpc", "clear"}, Goto(c, pc)
  PROVE  /\ call' \in [Calls -> Call]
         /\ call'[c] = [op |-> call[c].op, pc |-> pc, h |-> call[c].h]
         /\ \A d \in Calls \ {c} : call'[d] = call[d]
BY DEF OwnOK, Goto, Call

\* A call that returns without touching handles leaves everyone else in order.
LEMMA ReturnThreads ==
  ASSUME OwnOK, Threads, NEW c \in Calls, Return(c), UNCHANGED <<current, handle>>
  PROVE  Threads'
<1>1. /\ call'[c].op = "none" /\ call'[c].pc = "idle" /\ call'[c].h = NULL
      /\ \A d \in Calls \ {c} : call'[d] = call[d]
  BY ReturnOne DEF Idle
<1>2. \A d \in Calls : Owner(d) \/ Sending(d) \/ call[d].op \in Finalizing => call[d].h # NULL
  BY DEF OwnOK, Threads, Steps, Owner, Sending, At, Call, Finalizing
<1>3. Steps'
  BY <1>1 DEF Threads, Steps, At, Finalizing
<1>4. Owned'
  BY <1>1, <1>2 DEF Threads, Owned, Owner, At
<1>5. Marked'
  BY <1>1 DEF Threads, Marked, Sending
<1>6. OnCurrent'
  BY <1>1 DEF Threads, OnCurrent, At, Finalizing
<1>7. BeatsCurrentOnly'
  BY DEF Threads, BeatsCurrentOnly
<1>8. SingleFinalizer'
  BY <1>1 DEF Threads, SingleFinalizer
<1> QED
  BY <1>3, <1>4, <1>5, <1>6, <1>7, <1>8 DEF Threads

\* claim_next_task asks only while State is empty, and holds nothing yet.
LEMMA ClaimCheckThreads ==
  ASSUME OwnOK, Threads, NEW c \in Calls, ClaimCheck(c)
  PROVE  OwnOK' /\ Threads'
<1>1. /\ call' \in [Calls -> Call]
      /\ call'[c].op = "claim" /\ call'[c].pc = "ask" /\ call'[c].h = NULL
      /\ \A d \in Calls \ {c} : call'[d] = call[d]
      /\ UNCHANGED <<current, handle, beats, leaked, up>>
  BY DEF ClaimCheck, OwnOK, Call, Idle, Ops
<1>2. OwnOK'
  BY <1>1 DEF OwnOK
<1>3. Steps'
  BY <1>1 DEF Threads, Steps, At
<1>4. Owned'
  <2>1. \A d \in Calls : Owner(d) => call[d].h # NULL
    BY DEF OwnOK, Threads, Steps, Owner, At, Finalizing
  <2> QED
    BY <1>1, <2>1 DEF Threads, Owned, Owner, At
<1>5. Marked' /\ OnCurrent'
  BY <1>1 DEF Threads, Marked, Sending, OnCurrent, At, Finalizing
<1>6. BeatsCurrentOnly' /\ SingleFinalizer'
  BY <1>1 DEF Threads, BeatsCurrentOnly, SingleFinalizer
<1> QED
  BY <1>2, <1>3, <1>4, <1>5, <1>6 DEF Threads

\* ClaimRPC when the reply arrives, and when it does not.
Receive(c, t, h) ==
  /\ At(c, "ask") /\ ~InUse(h) /\ Claim(Me, t)
  /\ handle' = [handle EXCEPT ![h] = NewHandle(t)]
  /\ call' = [call EXCEPT ![c].pc = "install", ![c].h = h]
  /\ UNCHANGED <<current, beats, leaked, up>>
Miss(c, t) ==
  /\ At(c, "ask") /\ Claim(Me, t) /\ leaked' = leaked \union {t} /\ Return(c)
  /\ UNCHANGED <<handle, current, beats, up>>

\* There is no third case.
LEMMA ClaimRPCCases ==
  ASSUME NEW c, NEW t, NEW h, NEW delivered \in BOOLEAN, ClaimRPC(c, t, h, delivered)
  PROVE  Receive(c, t, h) \/ Miss(c, t)
BY DEF ClaimRPC, Receive, Miss

\* A delivered claim comes with a handle no one else refers to.
LEMMA ReceiveThreads ==
  ASSUME LcOK, OwnOK, Threads, NEW c \in Calls, NEW t \in Tasks, NEW h \in Handles,
         Receive(c, t, h)
  PROVE  /\ OwnOK' /\ Threads'
         /\ handle'[h] = [task |-> t, attempt |-> attempts'[t],
                          finalized |-> FALSE, beating |-> FALSE]
         /\ \A g \in Handles \ {h} : handle'[g] = handle[g]
         /\ call'[c].h = h /\ call'[c].pc = "install"
         /\ \A d \in Calls \ {c} : call'[d] = call[d]
         /\ h # current /\ \A d \in Calls : call[d].h # h
<1>1. /\ call[c].op = "claim" /\ call[c].pc = "ask"
      /\ h # current /\ \A d \in Calls : call[d].h # h
      /\ UNCHANGED <<current, beats, leaked, up>>
  BY DEF Receive, InUse, At, Threads, Steps
<1>2. attempts'[t] \in Nat /\ NULL \notin Handles
  BY OwnClaim, BridgeAssumption DEF Receive, LcOK
<1>3. /\ handle' \in [Handles -> Handle] /\ handle'[h] = NewHandle(t)
      /\ \A g \in Handles \ {h} : handle'[g] = handle[g]
  <2>1. handle' = [handle EXCEPT ![h] = NewHandle(t)]
    BY DEF Receive
  <2>2. NewHandle(t) \in Handle
    BY <1>2 DEF Handle, NewHandle
  <2> QED
    BY <2>1, <2>2 DEF OwnOK
<1>4. /\ call' \in [Calls -> Call]
      /\ call'[c].op = "claim" /\ call'[c].pc = "install" /\ call'[c].h = h
      /\ \A d \in Calls \ {c} : call'[d] = call[d]
  BY <1>1 DEF Receive, OwnOK, Call
<1>5. OwnOK'
  BY <1>1, <1>2, <1>3, <1>4 DEF OwnOK
<1>6. Steps'
  BY <1>4 DEF Threads, Steps, At
<1>7. \A d \in Calls : Owner(d) \/ Sending(d) \/ call[d].op \in Finalizing => call[d].h \in Handles
  BY DEF OwnOK, Threads, Steps, Owner, Sending, At, Call, Finalizing
<1>8. handle'[h].finalized = FALSE /\ handle'[h].beating = FALSE
  BY <1>3 DEF NewHandle
<1>9. Owned'
  BY <1>1, <1>3, <1>4, <1>7, <1>8 DEF Threads, Owned, Owner, At
<1>10. Marked' /\ OnCurrent'
  BY <1>1, <1>3, <1>4, <1>7 DEF Threads, Marked, Sending, OnCurrent, At, Finalizing
<1>11. BeatsCurrentOnly' /\ SingleFinalizer'
  BY <1>1, <1>3, <1>4, <1>8 DEF Threads, BeatsCurrentOnly, SingleFinalizer
<1> QED
  BY <1>1, <1>3, <1>4, <1>5, <1>6, <1>9, <1>10, <1>11 DEF Threads, NewHandle

\* The first claim to come back becomes the current one; a later one is dropped.
LEMMA InstallThreads ==
  ASSUME OwnOK, Threads, NEW c \in Calls, Install(c)
  PROVE  OwnOK' /\ Threads'
<1>1. /\ call[c].op = "claim" /\ call[c].pc = "install" /\ call[c].h \in Handles
      /\ call[c].h # current /\ Owner(c)
      /\ handle[call[c].h].finalized = FALSE
      /\ \A d \in Calls \ {c} : call[d].h # call[c].h
      /\ UNCHANGED <<beats, leaked, up>>
  BY DEF Install, At, Threads, Steps, Owned, Owner, OwnOK, Call, Handle
<1>2. NULL \notin Handles
  BY BridgeAssumption
<1>3. CASE current = NULL
  <2> DEFINE h == call[c].h
  <2>1. /\ current' = h /\ handle' \in [Handles -> Handle]
        /\ handle'[h].beating = TRUE /\ handle'[h].finalized = FALSE
        /\ \A g \in Handles \ {h} : handle'[g] = handle[g]
    <3>1. current' = h /\ handle' = [handle EXCEPT ![h].beating = TRUE]
      BY <1>3 DEF Install
    <3>2. handle \in [Handles -> Handle] /\ handle[h] \in Handle /\ handle[h].finalized = FALSE
      BY <1>1 DEF OwnOK
    <3>3. [handle[h] EXCEPT !.beating = TRUE] \in Handle
      BY <3>2 DEF Handle
    <3>4. handle'[h] = [handle[h] EXCEPT !.beating = TRUE]
      BY <1>1, <3>1, <3>2
    <3> QED
      BY <1>1, <3>1, <3>2, <3>3, <3>4 DEF Handle
  <2>2. /\ call' \in [Calls -> Call]
        /\ call'[c].op = "none" /\ call'[c].pc = "idle" /\ call'[c].h = NULL
        /\ \A d \in Calls \ {c} : call'[d] = call[d]
    BY <1>3, ReturnOne DEF Install, Idle
  <2>3. OwnOK'
    BY <1>1, <2>1, <2>2 DEF OwnOK
  <2>4. Steps'
    BY <2>2 DEF Threads, Steps, At
  <2>5. \A d \in Calls \ {c} : Owner(d) \/ Sending(d) \/ call[d].op \in Finalizing =>
           call[d].h \in Handles \ {h}
    BY <1>1 DEF OwnOK, Threads, Steps, Owner, Sending, At, Call, Finalizing
  <2>6. Owned'
    BY <1>1, <1>2, <2>1, <2>2, <2>5 DEF Threads, Owned, Owner, At
  <2>7. Marked' /\ OnCurrent'
    BY <1>1, <1>3, <2>1, <2>2, <2>5, <1>2 DEF Threads, Marked, Sending, OnCurrent, At, Finalizing
  <2>8. BeatsCurrentOnly'
    BY <1>1, <1>2, <1>3, <2>1 DEF Threads, BeatsCurrentOnly
  <2>9. SingleFinalizer'
    BY <2>2 DEF Threads, SingleFinalizer
  <2> QED
    BY <2>3, <2>4, <2>6, <2>7, <2>8, <2>9 DEF Threads
<1>4. CASE current # NULL
  <2>1. /\ call' \in [Calls -> Call]
        /\ call'[c].op = "drop" /\ call'[c].pc = "mark" /\ call'[c].h = call[c].h
        /\ \A d \in Calls \ {c} : call'[d] = call[d]
        /\ UNCHANGED <<current, handle>>
    BY <1>4 DEF Install, OwnOK, Call, Ops
  <2>2. OwnOK'
    BY <1>1, <1>2, <2>1 DEF OwnOK
  <2>3. Steps' /\ Marked' /\ OnCurrent'
    BY <2>1 DEF Threads, Steps, At, Marked, Sending, OnCurrent, Finalizing
  <2>4. Owned'
    BY <1>1, <2>1 DEF Threads, Owned, Owner, At
  <2>5. BeatsCurrentOnly' /\ SingleFinalizer'
    BY <2>1 DEF Threads, BeatsCurrentOnly, SingleFinalizer
  <2> QED
    BY <2>2, <2>3, <2>4, <2>5 DEF Threads
<1> QED
  BY <1>3, <1>4

\* requireTask hands out the current handle, which no owner has.
LEMMA RequireThreads ==
  ASSUME OwnOK, Threads, NEW c \in Calls, NEW op \in Finalizing \union {"note"}, Require(c, op)
  PROVE  OwnOK' /\ Threads'
<1>1. /\ call' \in [Calls -> Call]
      /\ call'[c].op = op /\ call'[c].h = current
      /\ call'[c].pc = IF op \in Finalizing THEN "mark" ELSE "rpc"
      /\ \A d \in Calls \ {c} : call'[d] = call[d]
      /\ current \in Handles /\ current # NULL
      /\ UNCHANGED <<current, handle, beats, leaked, up>>
  BY BridgeAssumption DEF Require, OwnOK, Call, Ops
<1>2. OwnOK'
  BY <1>1 DEF OwnOK
<1>3. Steps'
  BY <1>1 DEF Threads, Steps, At, Finalizing
<1>4. Owned'
  BY <1>1 DEF Threads, Owned, Owner, At, Finalizing
<1>5. Marked' /\ OnCurrent'
  BY <1>1 DEF Threads, Marked, Sending, OnCurrent, At, Finalizing
<1>6. BeatsCurrentOnly' /\ SingleFinalizer'
  BY <1>1 DEF Threads, BeatsCurrentOnly, SingleFinalizer, Finalizing
<1> QED
  BY <1>2, <1>3, <1>4, <1>5, <1>6 DEF Threads

\* markFinalized lets one call through; it stops the heartbeat first.
LEMMA MarkThreads ==
  ASSUME OwnOK, Threads, NEW c \in Calls, MarkFinalized(c), ~handle[call[c].h].finalized
  PROVE  /\ OwnOK' /\ Threads'
         /\ call'[c] = [op |-> call[c].op, pc |-> "rpc", h |-> call[c].h]
         /\ \A d \in Calls \ {c} : call'[d] = call[d]
         /\ \A g \in Handles : handle'[g].task = handle[g].task
                               /\ handle'[g].attempt = handle[g].attempt
<1> DEFINE h == call[c].h
<1>1. /\ h \in Handles /\ call[c].pc = "mark" /\ call[c].op \in Finalizing \union {"drop"}
      /\ handle \in [Handles -> Handle] /\ handle[h] \in Handle
      /\ UNCHANGED <<current, beats, leaked, up>>
  BY DEF MarkFinalized, At, OwnOK, Call, Threads, Steps
<1>2. /\ handle' = [handle EXCEPT ![h] = [@ EXCEPT !.finalized = TRUE, !.beating = FALSE]]
      /\ Goto(c, "rpc")
  <2>1. /\ handle' = [handle EXCEPT ![h].finalized = TRUE, ![h].beating = FALSE]
        /\ Goto(c, "rpc")
    BY DEF MarkFinalized
  <2> QED
    BY <1>1, <2>1
<1>3. /\ call' \in [Calls -> Call]
      /\ call'[c] = [op |-> call[c].op, pc |-> "rpc", h |-> call[c].h]
      /\ \A d \in Calls \ {c} : call'[d] = call[d]
  BY <1>2, GotoOne
<1>4. [handle[h] EXCEPT !.finalized = TRUE, !.beating = FALSE] \in Handle
  BY <1>1 DEF Handle
<1>5. /\ handle'[h] = [handle[h] EXCEPT !.finalized = TRUE, !.beating = FALSE]
      /\ \A g \in Handles \ {h} : handle'[g] = handle[g]
      /\ handle' \in [Handles -> Handle]
  BY <1>1, <1>2, <1>4
<1>6. /\ handle'[h].finalized = TRUE /\ handle'[h].beating = FALSE
      /\ handle'[h].task = handle[h].task /\ handle'[h].attempt = handle[h].attempt
  BY <1>1, <1>5 DEF Handle
<1>7. OwnOK'
  BY <1>1, <1>3, <1>5, BridgeAssumption DEF OwnOK
<1>8. Steps'
  BY <1>1, <1>3 DEF Threads, Steps, At
<1>9. \A d \in Calls : Owner(d) \/ Sending(d) \/ call[d].op \in Finalizing => call[d].h \in Handles
  BY DEF OwnOK, Threads, Steps, Owner, Sending, At, Call, Finalizing
<1>10. Owned'
  BY <1>1, <1>3, <1>5, <1>9 DEF Threads, Owned, Owner, At
<1>11. Marked'
  <2> SUFFICES ASSUME NEW d \in Calls, Sending(d)' PROVE handle'[call'[d].h].finalized
    BY DEF Marked
  <2>1. CASE d = c
    BY <1>3, <1>6, <2>1
  <2>2. CASE d # c
    <3>1. call'[d] = call[d] /\ Sending(d)
      BY <1>3, <2>2 DEF Sending
    <3>2. call[d].h \in Handles /\ handle[call[d].h].finalized
      BY <1>9, <3>1 DEF Threads, Marked
    <3> QED
      BY <1>5, <1>6, <3>1, <3>2
  <2> QED
    BY <2>1, <2>2
<1>12. OnCurrent'
  BY <1>1, <1>3, <1>5, <1>6, <1>9 DEF Threads, OnCurrent, At
<1>13. BeatsCurrentOnly'
  BY <1>1, <1>5, <1>6 DEF Threads, BeatsCurrentOnly
<1>14. SingleFinalizer'
  <2>1. \A d \in Calls : Sending(d) => call[d].h # h
    BY DEF Threads, Marked
  <2> QED
    BY <1>3, <2>1 DEF Threads, SingleFinalizer, Sending
<1> QED
  BY <1>3, <1>5, <1>6, <1>7, <1>8, <1>10, <1>11, <1>12, <1>13, <1>14 DEF Threads

\* A served report goes on to clear() with its handle.
LEMMA SucceedThreads ==
  ASSUME OwnOK, Threads, NEW c \in Calls, At(c, "rpc"), call[c].op \in Finalizing,
         Goto(c, "clear"), UNCHANGED <<current, handle>>
  PROVE  Threads'
<1>1. /\ call'[c] = [op |-> call[c].op, pc |-> "clear", h |-> call[c].h]
      /\ \A d \in Calls \ {c} : call'[d] = call[d]
  BY GotoOne
<1>2. Steps'
  BY <1>1 DEF Threads, Steps, At
<1>3. Owned'
  BY <1>1 DEF Threads, Owned, Owner, At, Finalizing
<1>4. Marked'
  BY <1>1 DEF Threads, Marked, Sending, At
<1>5. OnCurrent'
  BY <1>1 DEF Threads, OnCurrent, At
<1>6. BeatsCurrentOnly'
  BY DEF Threads, BeatsCurrentOnly
<1>7. SingleFinalizer'
  BY <1>1 DEF Threads, SingleFinalizer, At
<1> QED
  BY <1>2, <1>3, <1>4, <1>5, <1>6, <1>7 DEF Threads

\* clear() empties State of the very handle its call finalized; every other
\* call on that handle finds it finalized.
LEMMA ClearThreads ==
  ASSUME OwnOK, Threads, NEW c \in Calls, Clear(c)
  PROVE  /\ OwnOK' /\ Threads' /\ current = call[c].h
         /\ call'[c] = Idle /\ \A d \in Calls \ {c} : call'[d] = call[d]
         /\ \A g \in Handles : handle'[g].task = handle[g].task
                               /\ handle'[g].attempt = handle[g].attempt
<1>1. /\ call[c].pc = "clear" /\ call[c].op \in Finalizing /\ call[c].h = current
      /\ current \in Handles /\ current # NULL /\ Sending(c)
      /\ UNCHANGED <<beats, leaked, up>>
  BY BridgeAssumption DEF Clear, At, OwnOK, Call, Threads, Steps, OnCurrent, Sending, Finalizing
<1>2. /\ call' \in [Calls -> Call] /\ call'[c] = Idle
      /\ \A d \in Calls \ {c} : call'[d] = call[d]
  BY ReturnOne DEF Clear
<1>3. /\ handle \in [Handles -> Handle] /\ handle[current] \in Handle
      /\ handle' = [handle EXCEPT ![current] = [@ EXCEPT !.beating = FALSE]] /\ current' = NULL
  BY <1>1 DEF Clear, OwnOK
<1>4. [handle[current] EXCEPT !.beating = FALSE] \in Handle
  BY <1>3 DEF Handle
<1>5. /\ handle' \in [Handles -> Handle]
      /\ handle'[current] = [handle[current] EXCEPT !.beating = FALSE]
      /\ \A g \in Handles \ {current} : handle'[g] = handle[g]
  BY <1>1, <1>3, <1>4
<1>6. /\ handle'[current].beating = FALSE /\ handle'[current].finalized = handle[current].finalized
      /\ handle'[current].task = handle[current].task
      /\ handle'[current].attempt = handle[current].attempt
  BY <1>3, <1>5 DEF Handle
<1>7. OwnOK'
  BY <1>1, <1>2, <1>3, <1>5 DEF OwnOK, Idle
<1>8. Steps'
  BY <1>2 DEF Threads, Steps, At, Idle
<1>9. \A d \in Calls : Owner(d) \/ Sending(d) \/ call[d].op \in Finalizing => call[d].h \in Handles
  BY DEF OwnOK, Threads, Steps, Owner, Sending, At, Call, Finalizing
<1>10. Owned'
  BY <1>1, <1>2, <1>3, <1>5, <1>6, <1>9, BridgeAssumption DEF Threads, Owned, Owner, At, Idle
<1>11. Marked'
  <2> SUFFICES ASSUME NEW d \in Calls, Sending(d)' PROVE handle'[call'[d].h].finalized
    BY DEF Marked
  <2>1. call'[d] = call[d] /\ Sending(d)
    BY <1>2 DEF Sending, Idle
  <2>2. call[d].h \in Handles /\ handle[call[d].h].finalized
    BY <1>9, <2>1 DEF Threads, Marked
  <2> QED
    BY <1>5, <1>6, <2>1, <2>2
<1>12. OnCurrent'
  <2>1. handle[current].finalized
    BY <1>1 DEF Threads, Marked
  <2>2. ASSUME NEW d \in Calls \ {c}, call[d].op \in Finalizing
        PROVE  call[d].pc = "mark" /\ handle[call[d].h].finalized
    <3>1. CASE call[d].h = current
      <4>1. ~Sending(d)
        BY <1>1, <3>1 DEF Threads, SingleFinalizer, Sending, Finalizing
      <4>2. call[d].pc = "mark"
        BY <2>2, <4>1 DEF Threads, Steps, Sending, At, Finalizing, OwnOK, Call
      <4> QED
        BY <2>1, <3>1, <4>2
    <3>2. CASE call[d].h # current
      BY <2>2, <3>2 DEF Threads, OnCurrent, At
    <3> QED
      BY <3>1, <3>2
  <2>3. \A d \in Calls \ {c} : call[d].op \in Finalizing => handle'[call[d].h].finalized
    BY <1>5, <1>6, <1>9, <2>2
  <2> QED
    BY <1>2, <2>2, <2>3 DEF OnCurrent, At, Idle, Finalizing
<1>13. BeatsCurrentOnly'
  BY <1>1, <1>5, <1>6 DEF Threads, BeatsCurrentOnly
<1>14. SingleFinalizer'
  BY <1>2 DEF Threads, SingleFinalizer, Idle
<1> QED
  BY <1>1, <1>2, <1>5, <1>6, <1>7, <1>8, <1>10, <1>11, <1>12, <1>13, <1>14 DEF Threads

-----------------------------------------------------------------------------
(* The process and the mastermind together *)

\* A handle by which the process accounts for a claim.
Tracks(h) == h = current \/ \E c \in Calls : call[c].h = h /\ Owner(c)

\* ClaimsTracked in these words.
LEMMA Tracked ==
  ClaimsTracked <=>
    \A t \in Tasks : Mine(t) /\ t \notin leaked =>
      \E h \in Handles : handle[h].task = t /\ handle[h].attempt = attempts[t] /\ Tracks(h)
BY DEF ClaimsTracked, Tracks, Owner

\* A quiet step keeps the claims accounted for if it reuses no handle, starts a
\* clear() on an ended claim only, and stops tracking a claim only once it has
\* ended or is known to be leaked.
LEMMA QuietClaims ==
  ASSUME LcOK, OwnOK, OwnOK', Claims, Quiet,
         \A g \in Handles : handle'[g].task = handle[g].task
                            /\ handle'[g].attempt = handle[g].attempt,
         \A g \in Handles : InUse(g)' => InUse(g),
         \A c \in Calls : At(c, "clear")' =>
           \/ At(c, "clear") /\ call'[c].h = call[c].h
           \/ ~MineNext(handle[call'[c].h].task),
         \A g \in Handles : Tracks(g) =>
           Tracks(g)' \/ ~MineNext(handle[g].task) \/ handle[g].task \in leaked' \/ Over(g),
         \A t \in leaked : t \in leaked' \/ ~MineNext(t)
  PROVE  Claims'
<1>0. /\ LcOK' /\ NULL \notin Handles
      /\ \A t \in Tasks : attempts[t] \in Nat /\ attempts'[t] \in Nat /\ attempts[t] <= attempts'[t]
      /\ \A t \in Tasks : MineNext(t) => Mine(t) /\ attempts'[t] = attempts[t]
      /\ \A g \in Handles : handle[g].attempt \in Nat
  BY BridgeAssumption DEF LcOK, Quiet, OwnOK, Handle, Mine, MineNext, Held
<1>1. \A g \in Handles : InUse(g) => Points(g)
  BY DEF Claims, HandlesPoint
<1>2. \A g \in Handles : Points(g) => Points(g)'
  BY <1>0 DEF Points
<1>3. HandlesPoint'
  BY <1>1, <1>2 DEF HandlesPoint
<1>4. Cleared'
  <2> SUFFICES ASSUME NEW c \in Calls, At(c, "clear")', MineNext(handle'[call'[c].h].task)
               PROVE  handle'[call'[c].h].attempt < attempts'[handle'[call'[c].h].task]
    BY DEF Cleared, Over, Mine, MineNext, Held
  <2>1. call'[c].h \in Handles
    BY DEF OwnOK, Call, At
  <2>2. At(c, "clear") /\ call'[c].h = call[c].h
    BY <2>1
  <2>3. Points(call[c].h) /\ Over(call[c].h)
    BY <1>0, <2>1, <2>2 DEF Claims, HandlesPoint, InUse, Cleared
  <2> QED
    BY <1>0, <2>1, <2>2, <2>3 DEF Points, Over
<1>5. ClaimsTracked'
  <2> SUFFICES ASSUME NEW t \in Tasks, MineNext(t), t \notin leaked'
               PROVE  \E h \in Handles : handle'[h].task = t /\ handle'[h].attempt = attempts'[t]
                                         /\ Tracks(h)'
    BY DEF ClaimsTracked, Tracks, Owner, Mine, MineNext, Held
  <2>1. Mine(t) /\ t \notin leaked /\ attempts'[t] = attempts[t]
    BY <1>0
  <2>2. PICK h \in Handles : handle[h].task = t /\ handle[h].attempt = attempts[t] /\ Tracks(h)
    BY <2>1, Tracked DEF Claims
  <2>3. ~Over(h)
    BY <1>0, <2>1, <2>2 DEF Over
  <2> QED
    BY <2>1, <2>2, <2>3
<1> QED
  BY <1>3, <1>4, <1>5 DEF Claims

\* A step that leaves calls, handles and State alone.
LEMMA OutsideStep ==
  ASSUME IInv, Quiet, OwnOK', UNCHANGED <<current, handle, call>>,
         \A g \in Handles : InUse(g)' => InUse(g),
         \A t \in leaked : t \in leaked' \/ ~MineNext(t)
  PROVE  IInv'
<1>1. Threads'
  BY DEF IInv, Threads, Steps, Owned, Owner, Marked, Sending, OnCurrent, At,
         BeatsCurrentOnly, SingleFinalizer
<1>2. Claims'
  BY TypeParts, QuietClaims DEF IInv, InUse, Tracks, Owner, At
<1> QED
  BY <1>1, <1>2 DEF IInv, Quiet, TypeOK, LcOK, OwnOK

\* A call that returns keeps the invariant if what it tracked has ended or leaked.
LEMMA ReturnStep ==
  ASSUME IInv, Quiet, NEW c \in Calls, Return(c), UNCHANGED <<current, handle, beats, up>>,
         leaked' \subseteq Tasks, \A t \in leaked : t \in leaked' \/ ~MineNext(t),
         Owner(c) => ~MineNext(TaskOf(c)) \/ TaskOf(c) \in leaked'
  PROVE  IInv'
<1>0. LcOK /\ OwnOK /\ Threads /\ Claims
  BY TypeParts DEF IInv
<1>1. /\ call' \in [Calls -> Call] /\ call'[c] = Idle
      /\ \A d \in Calls \ {c} : call'[d] = call[d]
  BY <1>0, ReturnOne
<1>2. OwnOK'
  BY <1>0, <1>1 DEF OwnOK, Idle
<1>3. Threads'
  BY <1>0, ReturnThreads
<1>4. \A g \in Handles : InUse(g)' => InUse(g)
  BY <1>1, BridgeAssumption DEF InUse, Idle
<1>5. \A d \in Calls : At(d, "clear")' => At(d, "clear") /\ call'[d].h = call[d].h
  BY <1>1 DEF At, Idle
<1>6. ASSUME NEW g \in Handles, Tracks(g)
      PROVE  Tracks(g)' \/ ~MineNext(handle[g].task) \/ handle[g].task \in leaked'
  <2>1. CASE g = call[c].h /\ Owner(c)
    BY <2>1 DEF TaskOf
  <2>2. CASE ~(g = call[c].h /\ Owner(c))
    BY <1>1, <1>6, <2>2 DEF Tracks, Owner, At
  <2> QED
    BY <2>1, <2>2
<1>7. Claims'
  BY <1>0, <1>2, <1>4, <1>5, <1>6, QuietClaims
<1> QED
  BY <1>2, <1>3, <1>7 DEF IInv, Quiet, TypeOK, LcOK, OwnOK

\* A step of a call that keeps State's claims tracked and touches no handle's
\* claim: ClaimCheck, Install, Require, markFinalized and clear().
LEMMA LocalStep ==
  ASSUME IInv, OwnOK', Threads', UNCHANGED <<lcVars, leaked>>, NEW c \in Calls,
         \A d \in Calls \ {c} : call'[d] = call[d],
         ~At(c, "clear")',
         \A g \in Handles : handle'[g].task = handle[g].task
                            /\ handle'[g].attempt = handle[g].attempt,
         \A g \in Handles : InUse(g)' => InUse(g),
         \A g \in Handles : Tracks(g) => Tracks(g)' \/ Over(g)
  PROVE  IInv'
<1>0. LcOK /\ OwnOK /\ Claims /\ Quiet
  BY TypeParts, UnchangedQuiet DEF IInv
<1>1. \A d \in Calls : At(d, "clear")' => At(d, "clear") /\ call'[d].h = call[d].h
  BY DEF At
<1>2. Claims'
  BY <1>0, <1>1, QuietClaims
<1> QED
  BY <1>0, <1>2 DEF IInv, Quiet, TypeOK, LcOK, OwnOK

\* A claim whose reply arrives is tracked by the call that asked for it.
LEMMA ReceiveStep ==
  ASSUME IInv, NEW c \in Calls, NEW t \in Tasks, NEW h \in Handles, Receive(c, t, h)
  PROVE  IInv'
<1>0. LcOK /\ OwnOK /\ Threads /\ Claims /\ NULL \notin Handles
  BY TypeParts, BridgeAssumption DEF IInv
<1>1. /\ LcOK' /\ attempts'[t] = attempts[t] + 1 /\ attempts[t] \in Nat
      /\ \A u \in Tasks \ {t} : attempts'[u] = attempts[u] /\ (MineNext(u) => Mine(u))
      /\ \A u \in Tasks : attempts[u] \in Nat /\ attempts'[u] \in Nat
  BY <1>0, OwnClaim DEF Receive, LcOK
<1>2. /\ OwnOK' /\ Threads'
      /\ handle'[h] = [task |-> t, attempt |-> attempts'[t],
                       finalized |-> FALSE, beating |-> FALSE]
      /\ \A g \in Handles \ {h} : handle'[g] = handle[g]
      /\ call'[c].h = h /\ call'[c].pc = "install"
      /\ \A d \in Calls \ {c} : call'[d] = call[d]
      /\ h # current /\ \A d \in Calls : call[d].h # h
  BY <1>0, ReceiveThreads
<1>3. UNCHANGED <<current, leaked, beats>> /\ At(c, "ask") /\ call[c].h = NULL
  BY <1>0 DEF Receive, OwnOK, At
<1>4. \A g \in Handles \ {h} : Points(g) => Points(g)'
  BY <1>1, <1>2, <1>0 DEF Points, OwnOK, Handle
<1>5. Points(h)'
  BY <1>1, <1>2 DEF Points
<1>6. HandlesPoint'
  <2>1. \A g \in Handles \ {h} : InUse(g)' => InUse(g)
    BY <1>2, <1>3, <1>0 DEF InUse
  <2> QED
    BY <1>0, <1>4, <1>5, <2>1 DEF Claims, HandlesPoint
<1>7. Cleared'
  <2> SUFFICES ASSUME NEW d \in Calls, At(d, "clear")' PROVE Over(call[d].h)'
    BY DEF Cleared
  <2>1. d # c /\ call'[d] = call[d] /\ At(d, "clear") /\ call[d].h \in Handles \ {h}
    BY <1>0, <1>2 DEF At, OwnOK, Call
  <2>2. Points(call[d].h) /\ Over(call[d].h) /\ handle'[call[d].h] = handle[call[d].h]
    BY <1>0, <1>2, <2>1 DEF Claims, HandlesPoint, InUse, Cleared
  <2>3. handle[call[d].h].attempt \in Nat
    BY <1>0, <2>1 DEF OwnOK, Handle
  <2> QED
    BY <1>1, <2>1, <2>2, <2>3 DEF Points, Over, Mine, MineNext, Held
<1>8. ClaimsTracked'
  <2> SUFFICES ASSUME NEW u \in Tasks, MineNext(u), u \notin leaked
               PROVE  \E g \in Handles : handle'[g].task = u /\ handle'[g].attempt = attempts'[u]
                                         /\ Tracks(g)'
    BY <1>3 DEF ClaimsTracked, Tracks, Owner, Mine, MineNext, Held
  <2>1. CASE u = t
    BY <1>2, <2>1 DEF Tracks, Owner, At
  <2>2. CASE u # t
    <3>1. PICK g \in Handles : handle[g].task = u /\ handle[g].attempt = attempts[u] /\ Tracks(g)
      BY <1>0, <1>1, <2>2, Tracked DEF Claims
    <3>2. g # h
      BY <1>2, <3>1 DEF Tracks
    <3>3. Tracks(g)'
      BY <1>2, <1>3, <1>0, <3>1 DEF Tracks, Owner, At
    <3> QED
      BY <1>1, <1>2, <2>2, <3>1, <3>2, <3>3
  <2> QED
    BY <2>1, <2>2
<1> QED
  BY <1>1, <1>2, <1>6, <1>7, <1>8 DEF IInv, Claims, TypeOK, LcOK, OwnOK

\* A claim whose reply is lost is a leaked claim.
LEMMA MissStep ==
  ASSUME IInv, NEW c \in Calls, NEW t \in Tasks, Miss(c, t)
  PROVE  IInv'
<1>0. LcOK /\ OwnOK /\ Threads /\ Claims /\ NULL \notin Handles
  BY TypeParts, BridgeAssumption DEF IInv
<1>1. /\ LcOK' /\ attempts'[t] = attempts[t] + 1 /\ attempts[t] \in Nat
      /\ \A u \in Tasks \ {t} : attempts'[u] = attempts[u] /\ (MineNext(u) => Mine(u))
      /\ \A u \in Tasks : attempts[u] \in Nat /\ attempts'[u] \in Nat
  BY <1>0, OwnClaim DEF Miss, LcOK
<1>2. /\ Return(c) /\ UNCHANGED <<current, handle, beats, up>> /\ leaked' = leaked \union {t}
      /\ At(c, "ask") /\ call[c].h = NULL /\ ~Owner(c)
  BY <1>0 DEF Miss, OwnOK, At, Owner, Threads, Steps
<1>3. /\ call' \in [Calls -> Call] /\ call'[c] = Idle
      /\ \A d \in Calls \ {c} : call'[d] = call[d]
  BY <1>0, <1>2, ReturnOne
<1>4. OwnOK' /\ Threads'
  BY <1>0, <1>2, <1>3, ReturnThreads DEF OwnOK, Idle
<1>5. \A g \in Handles : Points(g) => Points(g)'
  BY <1>0, <1>1, <1>2 DEF Points, OwnOK, Handle
<1>6. HandlesPoint'
  <2>1. \A g \in Handles : InUse(g)' => InUse(g)
    BY <1>0, <1>2, <1>3 DEF InUse, Idle
  <2> QED
    BY <1>0, <1>5, <2>1 DEF Claims, HandlesPoint
<1>7. Cleared'
  <2> SUFFICES ASSUME NEW d \in Calls, At(d, "clear")' PROVE Over(call[d].h)'
    BY DEF Cleared
  <2>1. call'[d] = call[d] /\ At(d, "clear") /\ call[d].h \in Handles
    BY <1>0, <1>3 DEF At, OwnOK, Call, Idle
  <2>2. Points(call[d].h) /\ Over(call[d].h)
    BY <1>0, <2>1 DEF Claims, HandlesPoint, InUse, Cleared
  <2>3. handle[call[d].h].attempt \in Nat
    BY <1>0, <2>1 DEF OwnOK, Handle
  <2> QED
    BY <1>1, <1>2, <2>1, <2>2, <2>3 DEF Points, Over, Mine, MineNext, Held
<1>8. ClaimsTracked'
  <2> SUFFICES ASSUME NEW u \in Tasks, MineNext(u), u \notin leaked'
               PROVE  \E g \in Handles : handle'[g].task = u /\ handle'[g].attempt = attempts'[u]
                                         /\ Tracks(g)'
    BY DEF ClaimsTracked, Tracks, Owner, Mine, MineNext, Held
  <2>1. PICK g \in Handles : handle[g].task = u /\ handle[g].attempt = attempts[u] /\ Tracks(g)
    BY <1>0, <1>1, <1>2, Tracked DEF Claims
  <2>2. Tracks(g)'
    BY <1>2, <1>3, <2>1 DEF Tracks, Owner, At
  <2> QED
    BY <1>1, <1>2, <2>1, <2>2
<1> QED
  BY <1>1, <1>4, <1>6, <1>7, <1>8 DEF IInv, Claims, TypeOK, LcOK, OwnOK

\* The steps of a call that do not reach the mastermind.
LEMMA LocalCallStep ==
  ASSUME IInv, NEW c \in Calls,
         \/ ClaimCheck(c) \/ ClaimNothing(c) \/ Install(c) \/ MarkFinalized(c) \/ Clear(c)
         \/ \E op \in Finalizing \union {"note"} : Require(c, op)
  PROVE  IInv'
<1>0. LcOK /\ OwnOK /\ Threads /\ Claims /\ NULL \notin Handles
  BY TypeParts, BridgeAssumption DEF IInv
<1>1. CASE ClaimCheck(c)
  <2>1. OwnOK' /\ Threads'
    BY <1>0, <1>1, ClaimCheckThreads
  <2>2. /\ call'[c].op = "claim" /\ call'[c].pc = "ask" /\ call'[c].h = NULL
        /\ \A d \in Calls \ {c} : call'[d] = call[d]
        /\ call[c].pc = "idle" /\ call[c].op = "none"
        /\ UNCHANGED <<lcVars, current, handle, leaked, beats>>
    BY <1>0, <1>1 DEF ClaimCheck, OwnOK, Call, Idle, At, Threads, Steps
  <2>3. \A g \in Handles : InUse(g)' => InUse(g)
    BY <1>0, <2>2 DEF InUse
  <2>4. \A g \in Handles : Tracks(g) => Tracks(g)'
    BY <2>2 DEF Tracks, Owner, At
  <2> QED
    BY <2>1, <2>2, <2>3, <2>4, LocalStep DEF At
<1>2. CASE ClaimNothing(c)
  <2>1. ~Owner(c) /\ UNCHANGED <<lcVars, current, handle, beats, leaked, up>> /\ Return(c)
    BY <1>0, <1>2 DEF ClaimNothing, Owner, At, Threads, Steps
  <2>2. Quiet
    BY <1>0, <2>1, UnchangedQuiet
  <2> QED
    BY <1>0, <2>1, <2>2, ReturnStep DEF OwnOK
<1>3. CASE Install(c)
  <2>1. OwnOK' /\ Threads'
    BY <1>0, <1>3, InstallThreads
  <2>2. At(c, "install") /\ call[c].h \in Handles /\ UNCHANGED <<lcVars, leaked, beats>>
    BY <1>0, <1>3 DEF Install, At, OwnOK, Call
  <2>3. CASE current = NULL
    <3>1. /\ current' = call[c].h /\ Return(c)
          /\ handle' = [handle EXCEPT ![call[c].h].beating = TRUE]
      BY <1>3, <2>3 DEF Install
    <3>2. call'[c] = Idle /\ \A d \in Calls \ {c} : call'[d] = call[d]
      BY <1>0, <3>1, ReturnOne
    <3>3. \A g \in Handles : handle'[g].task = handle[g].task
                             /\ handle'[g].attempt = handle[g].attempt
      BY <1>0, <3>1 DEF OwnOK, Handle
    <3>4. \A g \in Handles : InUse(g)' => InUse(g)
      BY <1>0, <2>2, <3>1, <3>2 DEF InUse, Idle
    <3>5. \A g \in Handles : Tracks(g) => Tracks(g)'
      BY <1>0, <2>3, <3>1, <3>2 DEF Tracks, Owner, At
    <3> QED
      BY <2>1, <2>2, <3>2, <3>3, <3>4, <3>5, LocalStep DEF At, Idle
  <2>4. CASE current # NULL
    <3>1. /\ call'[c].op = "drop" /\ call'[c].pc = "mark" /\ call'[c].h = call[c].h
          /\ \A d \in Calls \ {c} : call'[d] = call[d]
          /\ UNCHANGED <<current, handle>>
      BY <1>0, <1>3, <2>4 DEF Install, OwnOK, Call, Ops
    <3>2. \A g \in Handles : InUse(g)' => InUse(g)
      BY <2>2, <3>1 DEF InUse
    <3>3. \A g \in Handles : Tracks(g) => Tracks(g)'
      BY <3>1 DEF Tracks, Owner, At
    <3> QED
      BY <2>1, <2>2, <3>1, <3>2, <3>3, LocalStep DEF At
  <2> QED
    BY <2>3, <2>4
<1>4. CASE MarkFinalized(c)
  <2>1. CASE handle[call[c].h].finalized
    <3>1. Return(c) /\ UNCHANGED <<lcVars, current, handle, beats, leaked, up>> /\ At(c, "mark")
      BY <1>4, <2>1 DEF MarkFinalized
    <3>2. ~Owner(c)
      BY <1>0, <2>1, <3>1 DEF Threads, Owned, At
    <3>3. Quiet
      BY <1>0, <3>1, UnchangedQuiet
    <3> QED
      BY <1>0, <3>1, <3>2, <3>3, ReturnStep DEF OwnOK
  <2>2. CASE ~handle[call[c].h].finalized
    <3>1. /\ OwnOK' /\ Threads'
          /\ call'[c] = [op |-> call[c].op, pc |-> "rpc", h |-> call[c].h]
          /\ \A d \in Calls \ {c} : call'[d] = call[d]
          /\ \A g \in Handles : handle'[g].task = handle[g].task
                                /\ handle'[g].attempt = handle[g].attempt
      BY <1>0, <1>4, <2>2, MarkThreads
    <3>2. UNCHANGED <<lcVars, current, leaked, beats>> /\ At(c, "mark")
      BY <1>4 DEF MarkFinalized
    <3>3. \A g \in Handles : InUse(g)' => InUse(g)
      BY <3>1, <3>2 DEF InUse
    <3>4. \A g \in Handles : Tracks(g) => Tracks(g)'
      BY <3>1, <3>2 DEF Tracks, Owner, At
    <3> QED
      BY <3>1, <3>2, <3>3, <3>4, LocalStep DEF At
  <2> QED
    BY <2>1, <2>2
<1>5. CASE Clear(c)
  <2>1. /\ OwnOK' /\ Threads' /\ current = call[c].h
        /\ call'[c] = Idle /\ \A d \in Calls \ {c} : call'[d] = call[d]
        /\ \A g \in Handles : handle'[g].task = handle[g].task
                              /\ handle'[g].attempt = handle[g].attempt
    BY <1>0, <1>5, ClearThreads
  <2>2. /\ UNCHANGED <<lcVars, leaked, beats>> /\ current' = NULL /\ call[c].pc = "clear"
        /\ call[c].op \in Finalizing
    BY <1>0, <1>5 DEF Clear, At, Threads, Steps
  <2>3. \A g \in Handles : InUse(g)' => InUse(g)
    BY <1>0, <2>1, <2>2 DEF InUse, Idle
  <2>4. Over(current)
    BY <1>0, <2>1, <2>2 DEF Claims, Cleared, At
  <2>5. \A g \in Handles : Tracks(g) => Tracks(g)' \/ Over(g)
    BY <2>1, <2>2, <2>4 DEF Tracks, Owner, At, Finalizing
  <2> QED
    BY <2>1, <2>2, <2>3, <2>5, LocalStep DEF At, Idle
<1>6. ASSUME NEW op \in Finalizing \union {"note"}, Require(c, op) PROVE IInv'
  <2>1. OwnOK' /\ Threads'
    BY <1>0, <1>6, RequireThreads
  <2>2. /\ call'[c].h = current /\ call'[c].pc \in {"mark", "rpc"}
        /\ \A d \in Calls \ {c} : call'[d] = call[d]
        /\ call[c].pc = "idle" /\ call[c].op = "none"
        /\ UNCHANGED <<lcVars, current, handle, leaked, beats>>
    BY <1>0, <1>6 DEF Require, OwnOK, Call, Ops, At, Threads, Steps
  <2>3. \A g \in Handles : InUse(g)' => InUse(g)
    BY <2>2 DEF InUse
  <2>4. \A g \in Handles : Tracks(g) => Tracks(g)'
    BY <2>2 DEF Tracks, Owner, At
  <2> QED
    BY <2>1, <2>2, <2>3, <2>4, LocalStep DEF At
<1> QED
  BY <1>1, <1>2, <1>3, <1>4, <1>5, <1>6

\* What the mastermind does with a request is quiet, and a request that ends
\* the claim has ended it when it succeeds.
LEMMA ServedQuiet ==
  ASSUME IInv, NEW c \in Calls, At(c, "rpc"), Served(c)
  PROVE  Quiet /\ (call[c].op # "note" => ~MineNext(TaskOf(c)))
<1>0. LcOK /\ OwnOK /\ Threads /\ Claims /\ NULL \notin Handles
  BY TypeParts, BridgeAssumption DEF IInv
<1> DEFINE t == TaskOf(c)
<1>1. t \in Tasks /\ Me \in Workers /\ call[c].op \in Finalizing \union {"drop", "note"}
  <2>1. call[c].h \in Handles
    BY <1>0 DEF OwnOK, At, Call
  <2> QED
    BY <1>0, <2>1, BridgeAssumption DEF Claims, HandlesPoint, InUse, Points, TaskOf, Threads, Steps
<1>2. CASE call[c].op = "complete"
  BY <1>0, <1>1, <1>2, EndQuiet DEF Served
<1>3. CASE call[c].op = "open_pr"
  BY <1>0, <1>1, <1>3, EndQuiet DEF Served
<1>4. CASE call[c].op \in {"fail", "drop"}
  BY <1>0, <1>1, <1>4, LapseQuiet DEF Served
<1>5. CASE call[c].op = "note"
  BY <1>0, <1>1, <1>5, NoticedQuiet DEF Served
<1> QED
  BY <1>1, <1>2, <1>3, <1>4, <1>5 DEF Finalizing

\* The answers to a call's request, the lost one included.
LEMMA AnswerStep ==
  ASSUME IInv, NEW c \in Calls,
         Reject(c) \/ Lose(c) \/ \E delivered \in BOOLEAN : Succeed(c, delivered)
  PROVE  IInv'
<1>0. LcOK /\ OwnOK /\ Threads /\ Claims /\ NULL \notin Handles
  BY TypeParts, BridgeAssumption DEF IInv
<1>1. /\ call[c].pc = "rpc" /\ At(c, "rpc") /\ call[c].h \in Handles /\ TaskOf(c) \in Tasks
      /\ call[c].op \in Finalizing \union {"drop", "note"}
      /\ UNCHANGED <<current, handle, beats, up>>
  <2>1. At(c, "rpc") /\ UNCHANGED <<current, handle, beats, up>>
    BY DEF Reject, Lose, Succeed
  <2>2. call[c].h # NULL /\ call[c].h \in Handles
    BY <1>0, <2>1 DEF OwnOK, At, Call
  <2> QED
    BY <1>0, <2>1, <2>2 DEF At, Claims, HandlesPoint, InUse, Points, TaskOf, Threads, Steps
<1>2. Owner(c) <=> call[c].op = "drop"
  BY <1>1 DEF Owner, At
<1>3. CASE Reject(c)
  <2>1. Return(c) /\ UNCHANGED <<lcVars, leaked>> /\ ~Accepts(c)
    BY <1>3 DEF Reject
  <2>2. Quiet
    BY <1>0, <2>1, UnchangedQuiet
  <2>3. Owner(c) => ~MineNext(TaskOf(c))
    BY <1>1, <1>2, <2>1, <2>2 DEF Accepts, Quiet
  <2> QED
    BY <1>0, <1>1, <2>1, <2>2, <2>3, ReturnStep DEF OwnOK
<1>4. CASE Lose(c)
  <2>1. Return(c) /\ UNCHANGED lcVars /\ leaked' = leaked \union Leaks(c)
    BY <1>4 DEF Lose
  <2>2. Quiet
    BY <1>0, <2>1, UnchangedQuiet
  <2>3. Leaks(c) \subseteq Tasks
    BY <1>1 DEF Leaks
  <2>4. Owner(c) => ~MineNext(TaskOf(c)) \/ TaskOf(c) \in leaked'
    BY <1>1, <1>2, <2>1, <2>2 DEF Leaks, Quiet
  <2> QED
    BY <1>0, <1>1, <2>1, <2>2, <2>3, <2>4, ReturnStep DEF OwnOK
<1>5. ASSUME NEW delivered \in BOOLEAN, Succeed(c, delivered) PROVE IInv'
  <2>1. Quiet /\ (call[c].op # "note" => ~MineNext(TaskOf(c)))
    BY <1>1, <1>5, ServedQuiet DEF Succeed
  <2>2. leaked' \subseteq Tasks /\ \A t \in leaked : t \in leaked' \/ ~MineNext(t)
    BY <1>0, <1>5 DEF Succeed, OwnOK, Mine, MineNext, Held
  <2>3. CASE Return(c)
    BY <1>1, <1>2, <2>1, <2>2, <2>3, ReturnStep
  <2>4. CASE Goto(c, "clear") /\ call[c].op \in Finalizing
    <3>1. /\ call' \in [Calls -> Call]
          /\ call'[c] = [op |-> call[c].op, pc |-> "clear", h |-> call[c].h]
          /\ \A d \in Calls \ {c} : call'[d] = call[d]
      BY <1>0, <2>4, GotoOne
    <3>2. Threads'
      BY <1>0, <1>1, <2>4, SucceedThreads
    <3>3. OwnOK'
      BY <1>0, <1>1, <2>2, <3>1 DEF OwnOK
    <3>4. \A g \in Handles : (InUse(g)' => InUse(g)) /\ (Tracks(g) => Tracks(g)')
      BY <1>1, <2>4, <3>1 DEF InUse, Tracks, Owner, At, Finalizing
    <3>5. \A d \in Calls : At(d, "clear")' =>
            \/ At(d, "clear") /\ call'[d].h = call[d].h
            \/ ~MineNext(handle[call'[d].h].task)
      BY <2>1, <2>4, <3>1 DEF At, TaskOf, Finalizing
    <3>6. Claims'
      BY <1>0, <1>1, <2>1, <2>2, <3>3, <3>4, <3>5, QuietClaims
    <3> QED
      BY <2>1, <3>2, <3>3, <3>6 DEF IInv, Quiet, TypeOK, LcOK, OwnOK
  <2> QED
    BY <1>5, <2>3, <2>4 DEF Succeed
<1> QED
  BY <1>3, <1>4, <1>5

\* Rivals and the reaper act on the same tasks; neither makes the process
\* forget a claim it still has.
LEMMA OthersStep ==
  ASSUME IInv, NEW t \in Tasks, Expire(t) \/ \E w \in Workers \ {Me} : RivalStep(w, t)
  PROVE  IInv'
<1>0. LcOK /\ OwnOK
  BY TypeParts DEF IInv
<1>1. CASE Expire(t)
  <2>1. /\ Quiet /\ ~MineNext(t) /\ leaked' = leaked \ {t}
        /\ UNCHANGED <<current, handle, call, beats, up>>
    BY <1>0, <1>1, LapseQuiet DEF Expire
  <2>2. OwnOK'
    BY <1>0, <2>1 DEF OwnOK
  <2> QED
    BY <2>1, <2>2, OutsideStep DEF InUse
<1>2. ASSUME NEW w \in Workers \ {Me}, RivalStep(w, t) PROVE IInv'
  <2>1. Quiet
    BY <1>0, <1>2, RivalClaimQuiet, EndQuiet, StartQuiet DEF RivalStep
  <2>2. UNCHANGED <<current, handle, call, beats, leaked, up>>
    BY <1>2 DEF RivalStep, workerVars
  <2>3. OwnOK'
    BY <1>0, <2>2 DEF OwnOK
  <2> QED
    BY <2>1, <2>2, <2>3, OutsideStep DEF InUse
<1> QED
  BY <1>1, <1>2

\* Heartbeats, also one that lands on a later claim of the same task.
LEMMA BeatStep ==
  ASSUME IInv, NEW h \in Handles, SendBeat(h) \/ BeatLands(h) \/ BeatFails(h)
  PROVE  IInv'
<1>0. LcOK /\ OwnOK /\ Threads /\ Claims
  BY TypeParts DEF IInv
<1>1. UNCHANGED <<current, handle, call, leaked, up>> /\ beats' \subseteq Handles
  BY <1>0 DEF SendBeat, BeatLands, BeatFails, OwnOK
<1>2. OwnOK'
  BY <1>0, <1>1 DEF OwnOK
<1>3. Quiet
  <2>1. CASE UNCHANGED lcVars
    BY <1>0, <2>1, UnchangedQuiet
  <2>2. CASE BeatLands(h)
    <3>1. handle[h].task \in Tasks
      BY <1>0, <2>2 DEF BeatLands, Claims, HandlesPoint, InUse, Points
    <3> QED
      BY <1>0, <2>2, <3>1, NoticedQuiet DEF BeatLands
  <2> QED
    BY <2>1, <2>2 DEF SendBeat, BeatFails
<1>4. \A g \in Handles : InUse(g)' => InUse(g)
  BY <1>0, <1>1 DEF SendBeat, BeatLands, BeatFails, InUse, Threads, BeatsCurrentOnly
<1> QED
  BY <1>1, <1>2, <1>3, <1>4, OutsideStep

\* The end of the process leaves its claims to the reaper.
LEMMA ExitStep == IInv /\ Exit => IInv'
<1> SUFFICES ASSUME IInv, Exit PROVE IInv'
  OBVIOUS
<1>0. LcOK /\ OwnOK
  BY TypeParts DEF IInv
<1>1. /\ UNCHANGED lcVars /\ current' = NULL /\ beats' = {} /\ up' = FALSE
      /\ leaked' = {t \in Tasks : Mine(t)}
      /\ \A c \in Calls : call'[c] = Idle /\ call' \in [Calls -> Call]
  BY DEF Exit, Idle, Call, Ops
<1>2. /\ handle' \in [Handles -> Handle]
      /\ \A h \in Handles : handle'[h].beating = FALSE
  <2>1. \A h \in Handles : [handle[h] EXCEPT !.beating = FALSE] \in Handle
                           /\ [handle[h] EXCEPT !.beating = FALSE].beating = FALSE
    BY <1>0 DEF OwnOK, Handle
  <2> QED
    BY <2>1 DEF Exit
<1>3. LcOK' /\ OwnOK'
  BY <1>0, <1>1, <1>2 DEF Exit, LcOK, OwnOK, lcVars, Idle, Call, Ops
<1>4. Threads'
  BY <1>1, <1>2 DEF Threads, Steps, Owned, Owner, Marked, Sending, OnCurrent, At, Finalizing,
                    BeatsCurrentOnly, SingleFinalizer, Idle
<1>5. Claims'
  BY <1>1, BridgeAssumption
     DEF Claims, HandlesPoint, InUse, Cleared, ClaimsTracked, At, Idle, Mine, Held, lcVars
<1> QED
  BY <1>3, <1>4, <1>5 DEF IInv, TypeOK, LcOK, OwnOK

-----------------------------------------------------------------------------
(* Theorems *)

\* The initial state satisfies the invariant.
LEMMA InitIInv == Init => IInv
<1> SUFFICES ASSUME Init PROVE IInv
  OBVIOUS
<1>1. LcOK
  BY DEF Init, LcOK, Statuses, Settled
<1>2. OwnOK
  BY DEF Init, OwnOK, Handle, Call, Idle, Ops
<1>3. Threads
  BY DEF Init, Threads, Steps, Owned, Owner, Marked, Sending, OnCurrent, At, Finalizing,
         BeatsCurrentOnly, SingleFinalizer, Idle
<1>4. Claims
  BY BridgeAssumption DEF Init, Claims, HandlesPoint, InUse, Cleared, ClaimsTracked, At, Idle, Mine, Held, Active
<1> QED
  BY <1>1, <1>2, <1>3, <1>4, TypeParts DEF IInv

\* The invariant is inductive.
LEMMA NextIInv == IInv /\ [Next]_vars => IInv'
<1> SUFFICES ASSUME IInv, [Next]_vars PROVE IInv'
  OBVIOUS
<1>1. ASSUME NEW c \in Calls, CallNext(c) PROVE IInv'
  <2>1. ASSUME NEW t \in Tasks, NEW h \in Handles, NEW delivered \in BOOLEAN,
               ClaimRPC(c, t, h, delivered) PROVE IInv'
    <3>1. Receive(c, t, h) \/ Miss(c, t)
      BY <2>1, ClaimRPCCases
    <3> QED
      BY <3>1, ReceiveStep, MissStep
  <2> QED
    BY <1>1, <2>1, LocalCallStep, AnswerStep DEF CallNext
<1>2. ASSUME NEW h \in Handles, SendBeat(h) \/ BeatLands(h) \/ BeatFails(h) PROVE IInv'
  BY <1>2, BeatStep
<1>3. ASSUME NEW t \in Tasks, Expire(t) \/ \E w \in Workers \ {Me} : RivalStep(w, t) PROVE IInv'
  BY <1>3, OthersStep
<1>4. CASE Exit
  BY <1>4, ExitStep
<1>5. CASE UNCHANGED vars
  <2>1. LcOK /\ OwnOK /\ UNCHANGED <<lcVars, current, handle, call, beats, leaked, up>>
    BY <1>5, TypeParts DEF IInv, vars, workerVars
  <2>2. Quiet /\ OwnOK'
    BY <2>1, UnchangedQuiet DEF OwnOK
  <2> QED
    BY <2>1, <2>2, OutsideStep DEF InUse
<1> QED
  BY <1>1, <1>2, <1>3, <1>4, <1>5 DEF Next

\* The invariant holds in every reachable state.
LEMMA Invariant == Spec => []IInv
BY InitIInv, NextIInv, PTL DEF Spec

\* Variables stay in their domains, and a call at work has a handle.
THEOREM TypeCorrect == Spec => []TypeOK
<1>1. IInv => TypeOK
  BY DEF IInv
<1> QED
  BY <1>1, Invariant, PTL

\* No claim handed to this process is forgotten, however its calls race.
THEOREM ClaimsTrackedHolds == Spec => []ClaimsTracked
<1>1. IInv => ClaimsTracked
  BY DEF IInv, Claims
<1> QED
  BY <1>1, Invariant, PTL

\* A heartbeat goroutine runs for the current, unfinalized task only.
THEOREM BeatsCurrentOnlyHolds == Spec => []BeatsCurrentOnly
<1>1. IInv => BeatsCurrentOnly
  BY DEF IInv, Threads
<1> QED
  BY <1>1, Invariant, PTL

\* Of all finalizing calls on a handle at most one gets past markFinalized.
THEOREM SingleFinalizerHolds == Spec => []SingleFinalizer
<1>1. IInv => SingleFinalizer
  BY DEF IInv, Threads
<1> QED
  BY <1>1, Invariant, PTL

\* clear() never empties State of a handle other than its caller's.
THEOREM ClearsOwnHolds == Spec => ClearsOwn
<1>1. IInv /\ [Next]_vars => [\A c \in Calls : Clear(c) => current = call[c].h]_vars
  BY ClearThreads, TypeParts DEF IInv
<1> QED
  BY <1>1, Invariant, PTL DEF Spec, ClearsOwn

-----------------------------------------------------------------------------
(* The lifecycle behind the process *)

\* What the mastermind does with a request is a step of the lifecycle.
LEMMA ServedFollows ==
  ASSUME IInv, NEW c \in Calls, At(c, "rpc"), Served(c)
  PROVE  [LifecycleNext]_lcVars
<1>0. LcOK /\ OwnOK /\ Threads /\ Claims /\ NULL \notin Handles
  BY TypeParts, BridgeAssumption DEF IInv
<1> DEFINE t == TaskOf(c)
<1>1. t \in Tasks /\ Me \in Workers /\ call[c].op \in Finalizing \union {"drop", "note"}
  <2>1. call[c].h \in Handles
    BY <1>0 DEF OwnOK, At, Call
  <2> QED
    BY <1>0, <2>1, BridgeAssumption DEF Claims, HandlesPoint, InUse, Points, TaskOf, Threads, Steps
<1>2. Complete(Me, t) \/ Park(Me, t) \/ Lapse({t}) \/ Start(t) \/ UNCHANGED lcVars
  BY <1>1 DEF Served, Noticed, Finalizing
<1> HIDE DEF t
<1>3. CASE Lapse({t})
  <2>1. {t} \in SUBSET Tasks
    BY <1>1
  <2> QED
    BY <1>3, <2>1 DEF LifecycleNext
<1>4. CASE Complete(Me, t) \/ Park(Me, t) \/ Start(t)
  BY <1>1, <1>4 DEF LifecycleNext
<1> QED
  BY <1>2, <1>3, <1>4

\* A call asks the mastermind for a claim, or for what Served does.
LEMMA CallFollows ==
  ASSUME IInv, NEW c \in Calls, CallNext(c)
  PROVE  [LifecycleNext]_lcVars
<1>1. ASSUME NEW t \in Tasks, NEW h \in Handles, NEW delivered \in BOOLEAN,
             ClaimRPC(c, t, h, delivered)
      PROVE  LifecycleNext
  BY <1>1, BridgeAssumption DEF ClaimRPC, LifecycleNext
<1>2. ASSUME NEW delivered \in BOOLEAN, Succeed(c, delivered) PROVE [LifecycleNext]_lcVars
  BY <1>2, ServedFollows DEF Succeed
<1>3. ASSUME \/ ClaimCheck(c) \/ ClaimNothing(c) \/ Install(c)
             \/ \E op \in Finalizing \union {"note"} : Require(c, op)
             \/ MarkFinalized(c) \/ Reject(c) \/ Lose(c) \/ Clear(c)
      PROVE  UNCHANGED lcVars
  BY <1>3 DEF ClaimCheck, ClaimNothing, Install, Require, MarkFinalized, Reject, Lose, Clear
<1> QED
  BY <1>1, <1>2, <1>3 DEF CallNext

\* So are heartbeats, rivals and the reaper.
LEMMA StepFollows ==
  ASSUME IInv, [Next]_vars
  PROVE  [LifecycleNext]_lcVars
<1>1. ASSUME NEW h \in Handles, SendBeat(h) \/ BeatLands(h) \/ BeatFails(h)
      PROVE  [LifecycleNext]_lcVars
  <2>1. CASE BeatLands(h)
    <3>1. handle[h].task \in Tasks
      BY <2>1 DEF BeatLands, IInv, Claims, HandlesPoint, InUse, Points
    <3>2. Start(handle[h].task) \/ UNCHANGED lcVars
      BY <2>1 DEF BeatLands, Noticed
    <3> QED
      BY <3>1, <3>2, BridgeAssumption DEF LifecycleNext
  <2>2. CASE UNCHANGED lcVars
    BY <2>2
  <2> QED
    BY <1>1, <2>1, <2>2 DEF SendBeat, BeatFails
<1>2. ASSUME NEW t \in Tasks, Expire(t) PROVE LifecycleNext
  <2>1. {t} \in SUBSET Tasks /\ Lapse({t})
    BY <1>2 DEF Expire
  <2> QED
    BY <2>1 DEF LifecycleNext
<1>3. ASSUME NEW t \in Tasks, NEW w \in Workers \ {Me}, RivalStep(w, t) PROVE LifecycleNext
  BY <1>3 DEF RivalStep, LifecycleNext
<1>4. Exit \/ UNCHANGED vars => UNCHANGED lcVars
  BY DEF Exit, vars
<1> QED
  BY CallFollows, <1>1, <1>2, <1>3, <1>4 DEF Next

\* Pending tasks that nobody has claimed are a state of the lifecycle.
LEMMA InitLifecycle == Init => LifecycleInv
<1> SUFFICES ASSUME Init PROVE LifecycleInv
  OBVIOUS
<1>1. Domains
  BY DEF Init, Domains, Statuses, Settled
<1>2. ASSUME NEW t \in Tasks PROVE WithinBudget(t)
  <2>1. status[t] = "pending" /\ attempts[t] = 0
    BY DEF Init
  <2>2. 0 <= MaxLimit /\ 0 < MaxLimit
    BY LimitFacts
  <2> QED
    BY <2>1, <2>2 DEF WithinBudget
<1>3. \A t \in Tasks : Held(t) <=> holder[t] # NULL
  BY DEF Init, Held, Active
<1> QED
  BY <1>1, <1>2, <1>3 DEF LifecycleInv

\* The process, its rivals and the reaper never make a task held without a holder,
\* nor claim it more often than the largest budget allows.
THEOREM BridgeLifecycle == Spec => []LifecycleInv
<1>1. IInv /\ LifecycleInv /\ [Next]_vars => LifecycleInv'
  BY StepFollows, LifecycleStep
<1> QED
  BY <1>1, InitLifecycle, Invariant, PTL DEF Spec

\* However calls race, replies get lost and beats land late, claims, reports and
\* lapses use a task's attempts up: an agent is not handed work for ever.
THEOREM BridgeRunsOut == Spec => WorkRunsOut
<1>1. IInv /\ LifecycleInv /\ [Next]_vars => [\A t \in Tasks : RunsDown(t)]_lcVars
  BY StepFollows, LifecycleStep
<1> QED
  BY <1>1, BridgeLifecycle, Invariant, PTL DEF Spec, WorkRunsOut
=============================================================================
