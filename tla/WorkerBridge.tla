---------------------------- MODULE WorkerBridge ----------------------------
(***************************************************************************)
(* One worker process: the State behind its MCP endpoint, the Task handles *)
(* of package taskclient, the heartbeat goroutine, and the tool calls of a *)
(* coding agent, which run concurrently. Its mastermind is TaskLifecycle:  *)
(* rival workers and the reaper act on the same tasks at any time.         *)
(*                                                                         *)
(* A tool call is a thread: it takes State.mu only for single steps, and   *)
(* every RPC runs outside the lock. A request or its reply may be lost; a  *)
(* heartbeat already sent may reach the mastermind after its goroutine     *)
(* was cancelled.                                                          *)
(*                                                                         *)
(* All tasks start pending and no operator intervenes, so `attempts` only  *)
(* grows and, with the task, identifies a claim. A lease may expire at any *)
(* moment: when is TaskStore's subject.                                    *)
(***************************************************************************)
EXTENDS TaskLifecycle

CONSTANTS
  Me,        \* this process's worker id
  Calls,     \* bound: tool calls and drop goroutines running at once
  Handles    \* bound: Task objects referenced at once

ASSUME BridgeAssumption == Me \in Workers /\ NULL \notin Handles

VARIABLES
  current,   \* State.current
  handle,    \* [Handles -> Handle]: the Task objects
  call,      \* [Calls -> Call]: the threads
  beats,     \* handles whose heartbeat request is under way
  leaked,    \* tasks whose claim no one in this process knows about
  up         \* the process runs; its successor has an id of its own

workerVars == <<current, handle, call, beats, leaked, up>>
vars == <<lcVars, workerVars>>

Finalizing == {"complete", "fail", "open_pr"}
Ops        == Finalizing \union {"none", "claim", "note", "drop"}

Handle ==
  [task : Tasks \union {NULL}, attempt : Nat,
   finalized : BOOLEAN, beating : BOOLEAN]   \* beating: hbCancel is set

Call ==
  [op : Ops, pc : {"idle", "ask", "install", "mark", "rpc", "clear"},
   h : Handles \union {NULL}]

Idle == [op |-> "none", pc |-> "idle", h |-> NULL]

NewHandle(t) ==
  [task |-> t, attempt |-> attempts'[t], finalized |-> FALSE, beating |-> FALSE]

InUse(h) == h = current \/ h \in beats \/ \E c \in Calls : call[c].h = h

At(c, pc)    == call[c].pc = pc
Goto(c, pc)  == call' = [call EXCEPT ![c].pc = pc]
Return(c)    == call' = [call EXCEPT ![c] = Idle]
TaskOf(c)    == handle[call[c].h].task
Mine(t)      == Held(t) /\ holder[t] = Me

\* A call that gives up its handle without the mastermind knowing leaks the
\* claim, unless the handle is the current one.
Leaks(c) == IF call[c].op = "drop" /\ Mine(TaskOf(c)) THEN {TaskOf(c)} ELSE {}

Init ==
  /\ status   = [t \in Tasks |-> "pending"]
  /\ holder   = [t \in Tasks |-> NULL]
  /\ attempts = [t \in Tasks |-> 0]
  /\ limit \in [Tasks -> Limits]
  /\ current  = NULL
  /\ handle   = [h \in Handles |-> [task |-> NULL, attempt |-> 0,
                                    finalized |-> FALSE, beating |-> FALSE]]
  /\ call     = [c \in Calls |-> Idle]
  /\ beats    = {}
  /\ leaked   = {}
  /\ up       = TRUE

-----------------------------------------------------------------------------
(* claim_next_task *)

\* With a current task the call returns that one at once.
ClaimCheck(c) ==
  /\ up /\ At(c, "idle") /\ current = NULL
  /\ call' = [call EXCEPT ![c] = [Idle EXCEPT !.op = "claim", !.pc = "ask"]]
  /\ UNCHANGED <<lcVars, current, handle, beats, leaked, up>>

\* The mastermind hands out a task; without the reply no handle comes to exist.
ClaimRPC(c, t, h, delivered) ==
  /\ At(c, "ask") /\ ~InUse(h)
  /\ Claim(Me, t)
  /\ IF delivered
     THEN /\ handle' = [handle EXCEPT ![h] = NewHandle(t)]
          /\ call' = [call EXCEPT ![c].pc = "install", ![c].h = h]
          /\ UNCHANGED leaked
     ELSE /\ leaked' = leaked \union {t}
          /\ Return(c)
          /\ UNCHANGED handle
  /\ UNCHANGED <<current, beats, up>>

\* Operators named Mutant... are what a slip in the code would make of the
\* definition that follows them; no specification uses them.
MutantNilClaimNothing(c) ==
  /\ At(c, "ask")
  /\ Goto(c, "install")
  /\ UNCHANGED <<lcVars, current, handle, beats, leaked, up>>

\* An empty queue, or a request that never arrived.
ClaimNothing(c) ==
  /\ At(c, "ask")
  /\ Return(c)
  /\ UNCHANGED <<lcVars, current, handle, beats, leaked, up>>

MutantUncheckedInstall(c) ==
  /\ At(c, "install")
  /\ current' = call[c].h
  /\ handle' = [handle EXCEPT ![call[c].h].beating = TRUE]
  /\ Return(c)
  /\ UNCHANGED <<lcVars, beats, leaked, up>>

\* The first call to come back wins; the loser fails its task in a goroutine
\* that here takes the call's place.
Install(c) ==
  /\ At(c, "install")
  /\ IF current = NULL
     THEN /\ current' = call[c].h
          /\ handle' = [handle EXCEPT ![call[c].h].beating = TRUE]
          /\ Return(c)
     ELSE /\ call' = [call EXCEPT ![c].op = "drop", ![c].pc = "mark"]
          /\ UNCHANGED <<current, handle>>
  /\ UNCHANGED <<lcVars, beats, leaked, up>>

-----------------------------------------------------------------------------
(* complete_task, fail_task, open_pr, update_progress and the like *)

\* requireTask: the call keeps the handle it saw. A note goes out unchecked.
Require(c, op) ==
  /\ At(c, "idle") /\ current # NULL
  /\ call' = [call EXCEPT ![c] =
                [op |-> op, pc |-> IF op \in Finalizing THEN "mark" ELSE "rpc", h |-> current]]
  /\ UNCHANGED <<lcVars, current, handle, beats, leaked, up>>

MutantBeatingMarkFinalized(c) ==
  /\ At(c, "mark")
  /\ IF handle[call[c].h].finalized
     THEN Return(c) /\ UNCHANGED handle
     ELSE /\ handle' = [handle EXCEPT ![call[c].h].finalized = TRUE]
          /\ Goto(c, "rpc")
  /\ UNCHANGED <<lcVars, current, beats, leaked, up>>

MutantUncheckedMarkFinalized(c) ==
  /\ At(c, "mark")
  /\ handle' = [handle EXCEPT ![call[c].h].finalized = TRUE, ![call[c].h].beating = FALSE]
  /\ Goto(c, "rpc")
  /\ UNCHANGED <<lcVars, current, beats, leaked, up>>

\* markFinalized: the first caller stops the heartbeat, the others get
\* ErrAlreadyFinalized.
MarkFinalized(c) ==
  /\ At(c, "mark")
  /\ IF handle[call[c].h].finalized
     THEN Return(c) /\ UNCHANGED handle
     ELSE /\ handle' = [handle EXCEPT ![call[c].h].finalized = TRUE,
                                      ![call[c].h].beating = FALSE]
          /\ Goto(c, "rpc")
  /\ UNCHANGED <<lcVars, current, beats, leaked, up>>

\* A sign of life from this worker: the first one starts the task.
Noticed(t) ==
  /\ Mine(t)
  /\ IF status[t] = "claimed" THEN Start(t) ELSE UNCHANGED lcVars

\* What the mastermind does with the request of call c.
Served(c) ==
  LET t == TaskOf(c) IN
  CASE call[c].op = "complete"         -> Complete(Me, t)
    [] call[c].op = "open_pr"          -> Park(Me, t)
    [] call[c].op \in {"fail", "drop"} -> Mine(t) /\ Lapse({t})
    [] call[c].op = "note"             -> Noticed(t)

\* The request succeeds. Only the reply makes the call go on to clear().
Succeed(c, delivered) ==
  /\ At(c, "rpc")
  /\ Served(c)
  /\ IF delivered /\ call[c].op \in Finalizing THEN Goto(c, "clear") ELSE Return(c)
  /\ leaked' = {t \in leaked : Mine(t)'}
  /\ UNCHANGED <<current, handle, beats, up>>

\* FAILED_PRECONDITION: the task is not, or no longer, this worker's, or it is
\* too early for open_pr.
Accepts(c) ==
  Mine(TaskOf(c)) /\ (call[c].op = "open_pr" => status[TaskOf(c)] = "in_progress")

MutantClearingReject(c) ==
  /\ At(c, "rpc") /\ ~Accepts(c)
  /\ Goto(c, "clear")
  /\ UNCHANGED <<lcVars, current, handle, beats, leaked, up>>

Reject(c) ==
  /\ At(c, "rpc") /\ ~Accepts(c)
  /\ Return(c)
  /\ UNCHANGED <<lcVars, current, handle, beats, leaked, up>>

\* The request is lost or times out before it is served.
Lose(c) ==
  /\ At(c, "rpc")
  /\ Return(c)
  /\ leaked' = leaked \union Leaks(c)
  /\ UNCHANGED <<lcVars, current, handle, beats, up>>

\* clear() empties whatever State holds and stops that heartbeat.
Clear(c) ==
  /\ At(c, "clear")
  /\ current' = NULL
  /\ handle' = IF current = NULL THEN handle ELSE [handle EXCEPT ![current].beating = FALSE]
  /\ Return(c)
  /\ UNCHANGED <<lcVars, beats, leaked, up>>

-----------------------------------------------------------------------------
(* The heartbeat goroutine *)

SendBeat(h) ==
  /\ handle[h].beating /\ h \notin beats
  /\ beats' = beats \union {h}
  /\ UNCHANGED <<lcVars, current, handle, call, leaked, up>>

\* Served while the task is this worker's, whichever claim the handle is from.
BeatLands(h) ==
  /\ h \in beats /\ Noticed(handle[h].task)
  /\ beats' = beats \ {h}
  /\ UNCHANGED <<current, handle, call, leaked, up>>

\* Lost, cancelled or rejected: the loop reports the error and carries on.
BeatFails(h) ==
  /\ h \in beats
  /\ beats' = beats \ {h}
  /\ UNCHANGED <<lcVars, current, handle, call, leaked, up>>

-----------------------------------------------------------------------------
(* Everyone else *)

RivalStep(w, t) ==
  /\ \/ Claim(w, t) \/ Complete(w, t) \/ Park(w, t)
     \/ Start(t) /\ holder[t] = w
  /\ UNCHANGED workerVars

Expire(t) ==
  /\ Lapse({t})
  /\ leaked' = leaked \ {t}
  /\ UNCHANGED <<current, handle, call, beats, up>>

\* The process ends, at shutdown after State.Release: its claims stay behind.
Exit ==
  /\ up /\ up' = FALSE
  /\ current' = NULL /\ beats' = {}
  /\ handle' = [h \in Handles |-> [handle[h] EXCEPT !.beating = FALSE]]
  /\ call' = [c \in Calls |-> Idle]
  /\ leaked' = {t \in Tasks : Mine(t)}
  /\ UNCHANGED lcVars

-----------------------------------------------------------------------------
CallNext(c) ==
  \/ ClaimCheck(c) \/ ClaimNothing(c) \/ Install(c)
  \/ \E t \in Tasks, h \in Handles, delivered \in BOOLEAN : ClaimRPC(c, t, h, delivered)
  \/ \E op \in Finalizing \union {"note"} : Require(c, op)
  \/ MarkFinalized(c) \/ Reject(c) \/ Lose(c) \/ Clear(c)
  \/ \E delivered \in BOOLEAN : Succeed(c, delivered)

Next ==
  \/ \E c \in Calls : CallNext(c)
  \/ \E h \in Handles : SendBeat(h) \/ BeatLands(h) \/ BeatFails(h)
  \/ \E t \in Tasks : Expire(t) \/ \E w \in Workers \ {Me} : RivalStep(w, t)
  \/ Exit

Spec == Init /\ [][Next]_vars

-----------------------------------------------------------------------------
(* Properties *)

\* Every variable stays in its domain; a thread at work has a handle, but for
\* one that is still asking for a task.
TypeOK ==
  /\ status \in [Tasks -> Statuses] /\ holder \in [Tasks -> Workers \union {NULL}]
  /\ attempts \in [Tasks -> Nat] /\ limit \in [Tasks -> Limits]
  /\ current \in Handles \union {NULL}
  /\ handle \in [Handles -> Handle]
  /\ call \in [Calls -> Call]
  /\ \A c \in Calls : call[c].h = NULL <=> call[c].pc \in {"idle", "ask"}
  /\ beats \subseteq Handles /\ leaked \subseteq Tasks /\ up \in BOOLEAN

\* ClaimNext's second check: a claim handed to this process is the current one,
\* on its way to become it, being dropped, or known to be leaked. None is
\* forgotten when calls race.
ClaimsTracked ==
  \A t \in Tasks : Mine(t) /\ t \notin leaked =>
    \E h \in Handles :
      /\ handle[h].task = t /\ handle[h].attempt = attempts[t]
      /\ \/ h = current
         \/ \E c \in Calls : call[c].h = h /\ (At(c, "install") \/ call[c].op = "drop")

\* Only the current, unfinalized task is kept alive by a heartbeat goroutine: a
\* claim nobody works on always falls to the reaper.
BeatsCurrentOnly ==
  \A h \in Handles : handle[h].beating => h = current /\ ~handle[h].finalized

\* markFinalized: of all complete, fail, open_pr and drop calls on a handle at
\* most one ever gets to talk to the mastermind.
SingleFinalizer ==
  \A c1, c2 \in Calls :
    /\ c1 # c2 /\ call[c1].h = call[c2].h /\ call[c1].h # NULL
    /\ call[c1].op # "note" /\ call[c2].op # "note"
    => ~(call[c1].pc \in {"rpc", "clear"} /\ call[c2].pc \in {"rpc", "clear"})

\* clear() takes no argument, yet a call that finished its task never throws
\* away a different one claimed in the meantime.
ClearsOwn ==
  [][\A c \in Calls : Clear(c) => current = call[c].h]_vars

-----------------------------------------------------------------------------
(* What comments and design documents say, and the code does not do *)

\* mcpserver/state.go: finalising a task leaves the worker idle. A current
\* handle that is finalized belongs to a call that is about to clear it.
NotWedged ==
  current # NULL /\ handle[current].finalized =>
    \E c \in Calls : call[c].h = current /\ call[c].pc \in {"rpc", "clear"}
=============================================================================
