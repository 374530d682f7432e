----------------------------- MODULE AdminForms -----------------------------
(***************************************************************************)
(* The admin web UI against everyone else: pages are filled from one read  *)
(* of a task and sent back whole, any time later. The edit form writes     *)
(* every editable column of a pending task, the links form on the detail   *)
(* page both links of a task in any state. Meanwhile workers claim, link,  *)
(* park and lose the task and other operators change it.                   *)
(*                                                                         *)
(* Lifecycle and budget are TaskLifecycle's; this module adds the columns  *)
(* that forms carry. The clock counts half minutes: backoff is a multiple  *)
(* of 30 seconds, and a form shows scheduled_for in whole minutes.         *)
(***************************************************************************)
EXTENDS TaskLifecycle

CONSTANTS
  Tabs,      \* bound: browser tabs open at once
  Briefs,    \* what a task may ask for: name, priority and payload
  Links,     \* URLs that pass issuerefs
  Horizon    \* bound: the clock stops here

\* A payload without instructions.
Bare == "bare"

ASSUME FormAssumption == Horizon \in Nat /\ NULL \notin Nat /\ Bare \notin Briefs

VARIABLES
  content,   \* [Tasks -> Content]: the columns a form carries
  tab,       \* [Tabs -> Tab]: what each tab shows
  given,     \* [Tasks -> Briefs]: what the last claim handed to the worker
  notBefore, \* [Tasks -> Time]: end of the backoff, for a task on retry that
             \* nobody has edited since
  now        \* the clock

formVars == <<content, tab, given, notBefore, now>>
vars == <<lcVars, formVars>>

\* A task on its last attempt is not put back.
Times == 0 .. Horizon + MaxLimit - 1

Content ==
  [brief : Briefs \union {Bare},
   sched : Times \union {NULL},      \* scheduled_for
   jira  : Links \union {NULL},
   pr    : Links \union {NULL}]

\* Of what a form shows only the schedule matters: every other field an operator
\* may also have typed.
Tab == [page : {"closed", "edit", "detail"}, task : Tasks \union {NULL}, shown : Times \union {NULL}]

Empty  == [brief |-> Bare, sched |-> NULL, jira |-> NULL, pr |-> NULL]
Closed == [page |-> "closed", task |-> NULL, shown |-> NULL]

Exists(t) == status[t] \notin {"unborn", "deleted"}
MutantAnyDue(t) == status[t] = "pending"
Due(t)          == content[t].sched # NULL => content[t].sched <= now

\* scheduled_for as the form's datetime-local field has it.
WholeMinutes(s) == IF s = NULL THEN NULL ELSE s - (s % 2)
FormFrom(c)     == WholeMinutes(c.sched)

\* What an operator can type: whole minutes, not beyond the horizon.
Typed == {WholeMinutes(s) : s \in 0 .. Horizon} \union {NULL}

Init ==
  /\ LifecycleInit
  /\ content   = [t \in Tasks |-> Empty]
  /\ tab       = [b \in Tabs |-> Closed]
  /\ given     = [t \in Tasks |-> Bare]
  /\ notBefore = [t \in Tasks |-> 0]
  /\ now       = 0

SetContent(t, c) == content' = [content EXCEPT ![t] = c]
Close(b)         == tab' = [tab EXCEPT ![b] = Closed]

-----------------------------------------------------------------------------
(* Operators *)

\* Every way to create a task insists on instructions. An RPC may ask for any
\* time, a form for a whole minute.
Create(t, m, brief, s, j, p) ==
  /\ Submit(t, m)
  /\ SetContent(t, [brief |-> brief, sched |-> s, jira |-> j, pr |-> p])
  /\ UNCHANGED <<tab, given, notBefore, now>>

\* Either page opens for a task in any state.
Open(b, t, page) ==
  /\ tab[b].page = "closed" /\ Exists(t)
  /\ tab' = [tab EXCEPT ![b] =
       [page |-> page, task |-> t, shown |-> IF page = "edit" THEN FormFrom(content[t]) ELSE NULL]]
  /\ UNCHANGED <<lcVars, content, given, notBefore, now>>

\* Operators named Mutant... are what a slip in the code would make of the
\* definition that follows them; no specification uses them.
MutantUnguardedSaveEdit(b, m, c) ==
  LET t == tab[b].task IN
  /\ tab[b].page = "edit" /\ Exists(t)
  /\ SetContent(t, c)
  /\ notBefore' = [notBefore EXCEPT ![t] = 0]
  /\ Close(b)
  /\ UNCHANGED <<lcVars, given, now>>

\* The whole form is written, fields the operator left alone included, if the
\* task is pending. A schedule that was never touched is written in whole
\* minutes, and as of the time the form was filled: every save ends a backoff.
SaveEdit(b, m, c) ==
  LET t == tab[b].task IN
  /\ tab[b].page = "edit"
  /\ Edit(t, m)
  /\ SetContent(t, c)
  /\ notBefore' = [notBefore EXCEPT ![t] = 0]
  /\ Close(b)
  /\ UNCHANGED <<given, now>>

\* Both links are written, whatever became of the task. A blank field is NULL.
SaveLinks(b, j, p) ==
  LET t == tab[b].task IN
  /\ tab[b].page = "detail" /\ Exists(t)
  /\ SetContent(t, [content[t] EXCEPT !.jira = j, !.pr = p])
  /\ Close(b)
  /\ UNCHANGED <<lcVars, given, notBefore, now>>

\* A conflict, a vanished task, or an operator who goes away.
Abandon(b) ==
  /\ tab[b].page # "closed"
  /\ Close(b)
  /\ UNCHANGED <<lcVars, content, given, notBefore, now>>

Requeue(t) ==
  /\ Retry(t)
  /\ SetContent(t, [content[t] EXCEPT !.sched = NULL, !.pr = NULL])
  /\ notBefore' = [notBefore EXCEPT ![t] = 0]
  /\ UNCHANGED <<tab, given, now>>

Delete(t) ==
  /\ Cancel(t)
  /\ SetContent(t, Empty)
  /\ notBefore' = [notBefore EXCEPT ![t] = 0]
  /\ UNCHANGED <<tab, given, now>>

AskReview(t) == Review(t) /\ UNCHANGED formVars

Decide(t, outcome) == Finalize(t, outcome) /\ UNCHANGED formVars

-----------------------------------------------------------------------------
(* Workers, the reaper and the clock *)

\* The reply carries name and payload: the worker's copy of the brief.
HandOut(w, t) ==
  /\ Claim(w, t) /\ Due(t)
  /\ given' = [given EXCEPT ![t] = content[t].brief]
  /\ UNCHANGED <<content, tab, notBefore, now>>

Beat(w, t) == Start(t) /\ holder[t] = w /\ UNCHANGED formVars

Finish(w, t) == Complete(w, t) /\ UNCHANGED formVars

LinkJira(w, t, j) ==
  /\ Held(t) /\ holder[t] = w
  /\ SetContent(t, [content[t] EXCEPT !.jira = j])
  /\ UNCHANGED <<lcVars, tab, given, notBefore, now>>

OpenPR(w, t, p) ==
  /\ Park(w, t)
  /\ SetContent(t, [content[t] EXCEPT !.pr = p])
  /\ UNCHANGED <<tab, given, notBefore, now>>

MutantDoubledBackoff(t) == now + 2 * attempts[t]
Backoff(t) == now + attempts[t]

\* A failure report or an expired lease, with linear backoff.
FallBack(t) ==
  /\ Lapse({t})
  /\ IF Exhausted(t)
     THEN UNCHANGED <<content, notBefore>>
     ELSE /\ SetContent(t, [content[t] EXCEPT !.sched = Backoff(t)])
          /\ notBefore' = [notBefore EXCEPT ![t] = Backoff(t)]
  /\ UNCHANGED <<tab, given, now>>

Tick ==
  /\ now < Horizon /\ now' = now + 1
  /\ UNCHANGED <<lcVars, content, tab, given, notBefore>>

-----------------------------------------------------------------------------
TabNext(b) ==
  \/ \E t \in Tasks, page \in {"edit", "detail"} : Open(b, t, page)
  \/ \E m \in Limits, brief \in Briefs \union {Bare}, s \in Typed \union {tab[b].shown},
        j, p \in Links \union {NULL} :
       SaveEdit(b, m, [brief |-> brief, sched |-> s, jira |-> j, pr |-> p])
  \/ \E j, p \in Links \union {NULL} : SaveLinks(b, j, p)
  \/ Abandon(b)

TaskNext(t) ==
  \/ \E m \in Limits, brief \in Briefs, s \in (0 .. Horizon) \union {NULL},
        j, p \in Links \union {NULL} : Create(t, m, brief, s, j, p)
  \/ Requeue(t) \/ Delete(t) \/ AskReview(t) \/ FallBack(t)
  \/ \E outcome \in Terminal : Decide(t, outcome)
  \/ \E w \in Workers :
       \/ HandOut(w, t) \/ Beat(w, t) \/ Finish(w, t)
       \/ \E j \in Links \union {NULL} : LinkJira(w, t, j)
       \/ \E p \in Links : OpenPR(w, t, p)

Next ==
  \/ \E b \in Tabs : TabNext(b)
  \/ \E t \in Tasks : TaskNext(t)
  \/ Tick

Spec == Init /\ [][Next]_vars

-----------------------------------------------------------------------------
(* Properties *)

\* Every column and tab stays in its domain; no schedule lies beyond the
\* longest backoff.
TypeOK ==
  /\ content \in [Tasks -> Content]
  /\ tab \in [Tabs -> Tab]
  /\ \A b \in Tabs : tab[b].page # "closed" => tab[b].task \in Tasks
  /\ given \in [Tasks -> Briefs \union {Bare}]
  /\ notBefore \in [Tasks -> Times]
  /\ now \in 0 .. Horizon

\* UpdateTask is for pending tasks only: an edit form that was open when the
\* task was claimed never changes the work under the hands of its worker, so
\* what the agent was handed is what every page shows.
AgentSeesBrief ==
  \A t \in Tasks : Held(t) => given[t] = content[t].brief

\* ReportResult and ReapStale put a retry off with scheduled_for, and ClaimTask
\* hands out only what is due: a failed task is not handed out before its backoff
\* is over, unless an edit form was saved or the task was requeued since.
BackoffHonoured ==
  [][\A t \in Tasks, w \in Workers : HandOut(w, t) => now >= notBefore[t]]_vars
=============================================================================
