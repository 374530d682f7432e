-------------------------- MODULE AdminFormsProofs --------------------------
(***************************************************************************)
(* For any number of tasks, workers and tabs, any horizon and any budget:  *)
(* what a form sends back is in its domain, never changes the brief of a   *)
(* task under the hands of a worker, and ends a backoff only by a save.    *)
(*                                                                         *)
(* The invariant adds to the properties what they rest on: the lifecycle's *)
(* own types, that a task on retry is scheduled no earlier than its backoff*)
(* ends, and that a task nobody has created has no backoff to honour. At   *)
(* the end every step is one of the task lifecycle or invisible to it, so  *)
(* that what LifecycleProofs shows of the lifecycle holds here.            *)
(***************************************************************************)
EXTENDS AdminForms, LifecycleProofs

\* What TaskLifecycle keeps of a task.
LcOK ==
  /\ status \in [Tasks -> Statuses]
  /\ holder \in [Tasks -> Workers \union {NULL}]
  /\ attempts \in [Tasks -> Nat]
  /\ limit \in [Tasks -> Limits]

\* scheduled_for covers the backoff until someone saves, requeues or deletes.
Covered ==
  \A t \in Tasks :
    /\ status[t] = "unborn" => notBefore[t] = 0
    /\ status[t] = "pending" /\ notBefore[t] # 0 =>
         content[t].sched # NULL /\ notBefore[t] <= content[t].sched

IInv == LcOK /\ TypeOK /\ AgentSeesBrief /\ Covered

-----------------------------------------------------------------------------
(* The operators forms are made of *)

\* datetime-local rounds down: what a form shows of a time is a time.
LEMMA WholeMinutesTyped ==
  ASSUME NEW s \in Times \union {NULL}
  PROVE  WholeMinutes(s) \in Times \union {NULL}
<1>1. CASE s = NULL
  BY <1>1 DEF WholeMinutes
<1>2. CASE s # NULL
  <2>1. s \in Nat /\ s <= Horizon + MaxLimit - 1
    BY <1>2, FormAssumption, LifecycleAssumption DEF Times
  <2>2. s % 2 \in 0 .. 1
    BY <2>1
  <2>3. s % 2 <= s
    BY <2>1
  <2>4. s - (s % 2) \in 0 .. Horizon + MaxLimit - 1
    BY <2>1, <2>2, <2>3, FormAssumption, LifecycleAssumption
  <2> QED
    BY <1>2, <2>4 DEF WholeMinutes, Times
<1> QED
  BY <1>1, <1>2

\* What an operator types, or leaves as it was shown, can be stored.
LEMMA TypedTimes == Typed \subseteq Times \union {NULL}
<1>1. 0 .. Horizon \subseteq Times
  BY FormAssumption, LifecycleAssumption DEF Times
<1> QED
  BY <1>1, WholeMinutesTyped DEF Typed

\* A form's columns make a row.
LEMMA Filled ==
  ASSUME NEW brief \in Briefs \union {Bare}, NEW s \in Times \union {NULL},
         NEW j \in Links \union {NULL}, NEW p \in Links \union {NULL}
  PROVE  [brief |-> brief, sched |-> s, jira |-> j, pr |-> p] \in Content
BY DEF Content

LEMMA EmptyFilled == Empty \in Content
BY DEF Content, Empty

\* Writing one row of the columns leaves the others alone.
LEMMA ContentWritten ==
  ASSUME content \in [Tasks -> Content], NEW t \in Tasks, NEW c \in Content, SetContent(t, c)
  PROVE  /\ content' \in [Tasks -> Content]
         /\ content'[t] = c
         /\ \A u \in Tasks \ {t} : content'[u] = content[u]
BY DEF SetContent

LEMMA TabClosed ==
  ASSUME TypeOK, NEW b \in Tabs, Close(b)
  PROVE  /\ tab' \in [Tabs -> Tab]
         /\ \A d \in Tabs : tab'[d].page # "closed" => tab'[d].task \in Tasks
<1>1. Closed \in Tab /\ Closed.page = "closed"
  BY DEF Closed, Tab
<1> QED
  BY <1>1 DEF TypeOK, Close

\* A backoff that is granted ends within Times: only a task with attempts left
\* is put back.
LEMMA BackoffTimes ==
  ASSUME LcOK, TypeOK, NEW t \in Tasks, ~Exhausted(t)
  PROVE  Backoff(t) \in Times
BY FormAssumption, LifecycleAssumption DEF LcOK, TypeOK, Exhausted, Backoff, Times, Limits

-----------------------------------------------------------------------------
(* The lifecycle underneath. Every action of it keeps its types.             *)

LEMMA LifecycleTyped ==
  ASSUME LcOK, NEW t \in Tasks
  PROVE  /\ \A m \in Limits : Submit(t, m) \/ Edit(t, m) => LcOK'
         /\ Retry(t) \/ Cancel(t) \/ Review(t) \/ Start(t) => LcOK'
         /\ \A outcome \in Terminal : Finalize(t, outcome) => LcOK'
         /\ \A w \in Workers : Claim(w, t) \/ Complete(w, t) \/ Park(w, t) => LcOK'
         /\ Lapse({t}) => LcOK'
         /\ UNCHANGED lcVars => LcOK'
<1> USE DEF LcOK, Statuses, Settled, Terminal, Active, Parked
<1>0. 1 \in Limits
  BY LifecycleAssumption DEF Limits
<1>1. ASSUME NEW m \in Limits, Submit(t, m) \/ Edit(t, m) PROVE LcOK'
  BY <1>1 DEF Submit, Edit
<1>2. ASSUME Retry(t) \/ Review(t) \/ Start(t) PROVE LcOK'
  BY <1>2 DEF Retry, Review, Start
<1>3. ASSUME Cancel(t) PROVE LcOK'
  BY <1>0, <1>3 DEF Cancel
<1>4. ASSUME NEW outcome \in Terminal, Finalize(t, outcome) PROVE LcOK'
  BY <1>4 DEF Finalize
<1>5. ASSUME NEW w \in Workers, Claim(w, t) \/ Complete(w, t) \/ Park(w, t) PROVE LcOK'
  <2>1. CASE Claim(w, t)
    BY <2>1 DEF Claim
  <2>2. CASE Complete(w, t)
    BY <2>2 DEF Complete
  <2>3. CASE Park(w, t)
    BY <2>3 DEF Park
  <2> QED
    BY <1>5, <2>1, <2>2, <2>3
<1>6. ASSUME Lapse({t}) PROVE LcOK'
  BY <1>6 DEF Lapse
<1>7. ASSUME UNCHANGED lcVars PROVE LcOK'
  BY <1>7 DEF lcVars
<1> QED
  BY <1>1, <1>2, <1>3, <1>4, <1>5, <1>6, <1>7

-----------------------------------------------------------------------------
(* Operators *)

LEMMA CreateKeeps ==
  ASSUME IInv, NEW t \in Tasks, NEW m \in Limits, NEW brief \in Briefs,
         NEW s \in (0 .. Horizon) \union {NULL},
         NEW j \in Links \union {NULL}, NEW p \in Links \union {NULL},
         Create(t, m, brief, s, j, p)
  PROVE  IInv'
<1> DEFINE c == [brief |-> brief, sched |-> s, jira |-> j, pr |-> p]
<1>1. s \in Times \union {NULL}
  BY FormAssumption, LifecycleAssumption DEF Times
<1>2. c \in Content
  BY <1>1, Filled
<1> HIDE DEF c
<1>3. SetContent(t, c) /\ Submit(t, m) /\ UNCHANGED <<tab, given, notBefore, now>>
  BY DEF Create, c
<1>4. /\ content' \in [Tasks -> Content]
      /\ \A u \in Tasks \ {t} : content'[u] = content[u]
  BY <1>2, <1>3, ContentWritten DEF IInv, TypeOK
<1>5. LcOK'
  BY <1>3, LifecycleTyped DEF IInv
<1>6. TypeOK'
  BY <1>3, <1>4 DEF IInv, TypeOK
<1>7. /\ status[t] = "unborn" /\ status'[t] = "pending"
      /\ \A u \in Tasks \ {t} : status'[u] = status[u]
  BY <1>3 DEF Submit, IInv, LcOK
<1>8. AgentSeesBrief'
  BY <1>3, <1>4, <1>7 DEF IInv, AgentSeesBrief, Held, Active
<1>9. Covered'
  BY <1>3, <1>4, <1>7 DEF IInv, Covered
<1> QED
  BY <1>5, <1>6, <1>8, <1>9 DEF IInv

LEMMA OpenKeeps ==
  ASSUME IInv, NEW b \in Tabs, NEW t \in Tasks, NEW pg \in {"edit", "detail"}, Open(b, t, pg)
  PROVE  IInv'
<1> DEFINE v == [page |-> pg, task |-> t,
                 shown |-> IF pg = "edit" THEN FormFrom(content[t]) ELSE NULL]
<1>1. content[t] \in Content
  BY DEF IInv, TypeOK
<1>2. FormFrom(content[t]) \in Times \union {NULL}
  BY <1>1, WholeMinutesTyped DEF FormFrom, Content
<1>3. v \in Tab /\ v.task \in Tasks
  BY <1>2 DEF Tab
<1>4. tab' = [tab EXCEPT ![b] = v] /\ UNCHANGED <<lcVars, content, given, notBefore, now>>
  BY DEF Open
<1> HIDE DEF v
<1>5. TypeOK'
  BY <1>3, <1>4 DEF IInv, TypeOK
<1>6. LcOK' /\ AgentSeesBrief' /\ Covered'
  BY <1>4 DEF IInv, LcOK, AgentSeesBrief, Covered, Held, lcVars
<1> QED
  BY <1>5, <1>6 DEF IInv

\* The WHERE status = 'pending' of UpdateTask is what keeps the brief of a held
\* task; clearing notBefore says that a save may end a backoff.
LEMMA SaveEditKeeps ==
  ASSUME IInv, NEW b \in Tabs, NEW m \in Limits, NEW c \in Content, SaveEdit(b, m, c)
  PROVE  IInv'
<1> DEFINE t == tab[b].task
<1>1. t \in Tasks
  BY DEF IInv, TypeOK, SaveEdit
<1>2. /\ Edit(t, m) /\ SetContent(t, c) /\ Close(b)
      /\ notBefore' = [notBefore EXCEPT ![t] = 0] /\ UNCHANGED <<given, now>>
  BY DEF SaveEdit
<1> HIDE DEF t
<1>3. /\ content' \in [Tasks -> Content]
      /\ \A u \in Tasks \ {t} : content'[u] = content[u]
  BY <1>1, <1>2, ContentWritten DEF IInv, TypeOK
<1>4. LcOK'
  BY <1>1, <1>2, LifecycleTyped DEF IInv
<1>5. 0 \in Times
  BY FormAssumption, LifecycleAssumption DEF Times
<1>6. TypeOK'
  <2>1. /\ tab' \in [Tabs -> Tab]
        /\ \A d \in Tabs : tab'[d].page # "closed" => tab'[d].task \in Tasks
    BY <1>2, TabClosed DEF IInv
  <2> QED
    BY <1>1, <1>2, <1>3, <1>5, <2>1 DEF IInv, TypeOK
<1>7. status[t] = "pending" /\ status' = status
  BY <1>2 DEF Edit
<1>8. AgentSeesBrief'
  BY <1>2, <1>3, <1>7 DEF IInv, AgentSeesBrief, Held, Active
<1>9. Covered'
  BY <1>1, <1>2, <1>3, <1>7 DEF IInv, TypeOK, Covered
<1> QED
  BY <1>4, <1>6, <1>8, <1>9 DEF IInv

\* Links may be written in any state, but nothing else is.
LEMMA SaveLinksKeeps ==
  ASSUME IInv, NEW b \in Tabs, NEW j \in Links \union {NULL}, NEW p \in Links \union {NULL},
         SaveLinks(b, j, p)
  PROVE  IInv'
<1> DEFINE t == tab[b].task
           c == [content[t] EXCEPT !.jira = j, !.pr = p]
<1>1. t \in Tasks /\ content[t] \in Content
  BY DEF IInv, TypeOK, SaveLinks
<1>2. SetContent(t, c) /\ Close(b) /\ UNCHANGED <<lcVars, given, notBefore, now>>
  BY DEF SaveLinks
<1>3. c \in Content /\ c.brief = content[t].brief /\ c.sched = content[t].sched
  BY ONLY <1>1, j \in Links \union {NULL}, p \in Links \union {NULL} DEF Content
<1> HIDE DEF t, c
<1>4. /\ content' \in [Tasks -> Content] /\ content'[t] = c
      /\ \A u \in Tasks \ {t} : content'[u] = content[u]
  BY <1>1, <1>2, <1>3, ContentWritten DEF IInv, TypeOK
<1>5. \A u \in Tasks : content'[u].brief = content[u].brief /\ content'[u].sched = content[u].sched
  BY <1>3, <1>4
<1>6. TypeOK'
  <2>1. /\ tab' \in [Tabs -> Tab]
        /\ \A d \in Tabs : tab'[d].page # "closed" => tab'[d].task \in Tasks
    BY <1>2, TabClosed DEF IInv
  <2> QED
    BY <1>2, <1>4, <2>1 DEF IInv, TypeOK
<1>7. LcOK' /\ AgentSeesBrief' /\ Covered'
  BY <1>2, <1>5 DEF IInv, LcOK, AgentSeesBrief, Covered, Held, lcVars
<1> QED
  BY <1>6, <1>7 DEF IInv

LEMMA AbandonKeeps ==
  ASSUME IInv, NEW b \in Tabs, Abandon(b)
  PROVE  IInv'
<1>1. Close(b) /\ UNCHANGED <<lcVars, content, given, notBefore, now>>
  BY DEF Abandon
<1>2. /\ tab' \in [Tabs -> Tab]
      /\ \A d \in Tabs : tab'[d].page # "closed" => tab'[d].task \in Tasks
  BY <1>1, TabClosed DEF IInv
<1>3. TypeOK'
  BY <1>1, <1>2 DEF IInv, TypeOK
<1>4. LcOK' /\ AgentSeesBrief' /\ Covered'
  BY <1>1 DEF IInv, LcOK, AgentSeesBrief, Covered, Held, lcVars
<1> QED
  BY <1>3, <1>4 DEF IInv

\* A task that is put back or deleted by hand starts without a backoff.
LEMMA ResetKeeps ==
  ASSUME IInv, NEW t \in Tasks, Requeue(t) \/ Delete(t)
  PROVE  IInv'
<1>1. PICK c \in Content : SetContent(t, c)
  <2>1. content[t] \in Content
    BY DEF IInv, TypeOK
  <2>2. [content[t] EXCEPT !.sched = NULL, !.pr = NULL] \in Content
    BY <2>1 DEF Content
  <2> QED
    BY <2>2, EmptyFilled DEF Requeue, Delete
<1>2. notBefore' = [notBefore EXCEPT ![t] = 0] /\ UNCHANGED <<tab, given, now>>
  BY DEF Requeue, Delete
<1>3. /\ status'[t] \in {"pending", "deleted"}
      /\ \A u \in Tasks \ {t} : status'[u] = status[u]
  BY DEF Requeue, Delete, Retry, Cancel, IInv, LcOK
<1>4. /\ content' \in [Tasks -> Content]
      /\ \A u \in Tasks \ {t} : content'[u] = content[u]
  BY <1>1, ContentWritten DEF IInv, TypeOK
<1>5. LcOK'
  BY LifecycleTyped DEF IInv, Requeue, Delete
<1>6. 0 \in Times
  BY FormAssumption, LifecycleAssumption DEF Times
<1>7. TypeOK'
  BY <1>2, <1>4, <1>6 DEF IInv, TypeOK
<1>8. AgentSeesBrief'
  BY <1>2, <1>3, <1>4 DEF IInv, AgentSeesBrief, Held, Active
<1>9. Covered'
  BY <1>2, <1>3, <1>4 DEF IInv, TypeOK, Covered
<1> QED
  BY <1>5, <1>7, <1>8, <1>9 DEF IInv

-----------------------------------------------------------------------------
(* Workers, the reaper and the clock *)

\* Steps of a task that touch no column a form carries, and bring it neither
\* into the queue nor under anyone's hands.
LEMMA MovesKeep ==
  ASSUME IInv, NEW t \in Tasks,
         \/ AskReview(t)
         \/ \E outcome \in Terminal : Decide(t, outcome)
         \/ \E w \in Workers : Beat(w, t) \/ Finish(w, t)
  PROVE  IInv'
<1>1. UNCHANGED formVars
  BY DEF AskReview, Decide, Beat, Finish
<1>2. LcOK'
  BY LifecycleTyped DEF IInv, AskReview, Decide, Beat, Finish
<1>3. /\ status'[t] \notin {"pending", "unborn"}
      /\ status'[t] \in Active => status[t] \in Active
      /\ \A u \in Tasks \ {t} : status'[u] = status[u]
  BY DEF IInv, LcOK, AskReview, Decide, Beat, Finish, Review, Finalize, Start, Complete,
         Active, Terminal
<1>4. TypeOK'
  BY <1>1 DEF IInv, TypeOK, formVars
<1>5. AgentSeesBrief' /\ Covered'
  BY <1>1, <1>3 DEF IInv, AgentSeesBrief, Covered, Held, formVars
<1> QED
  BY <1>2, <1>4, <1>5 DEF IInv

LEMMA HandOutKeeps ==
  ASSUME IInv, NEW t \in Tasks, NEW w \in Workers, HandOut(w, t)
  PROVE  IInv'
<1>1. /\ Claim(w, t) /\ given' = [given EXCEPT ![t] = content[t].brief]
      /\ UNCHANGED <<content, tab, notBefore, now>>
  BY DEF HandOut
<1>2. LcOK'
  BY <1>1, LifecycleTyped DEF IInv
<1>3. /\ status'[t] = "claimed"
      /\ \A u \in Tasks \ {t} : status'[u] = status[u]
  BY <1>1 DEF IInv, LcOK, Claim
<1>4. content[t].brief \in Briefs \union {Bare}
  BY DEF IInv, TypeOK, Content
<1>5. TypeOK'
  BY <1>1, <1>4 DEF IInv, TypeOK
<1>6. AgentSeesBrief'
  BY <1>1, <1>3 DEF IInv, TypeOK, AgentSeesBrief, Held
<1>7. Covered'
  BY <1>1, <1>3 DEF IInv, Covered
<1> QED
  BY <1>2, <1>5, <1>6, <1>7 DEF IInv

LEMMA LinkJiraKeeps ==
  ASSUME IInv, NEW t \in Tasks, NEW w \in Workers, NEW j \in Links \union {NULL}, LinkJira(w, t, j)
  PROVE  IInv'
<1> DEFINE c == [content[t] EXCEPT !.jira = j]
<1>1. SetContent(t, c) /\ UNCHANGED <<lcVars, tab, given, notBefore, now>>
  BY DEF LinkJira
<1>2. content[t] \in Content
  BY DEF IInv, TypeOK
<1>3. c \in Content /\ c.brief = content[t].brief /\ c.sched = content[t].sched
  BY <1>2 DEF Content
<1> HIDE DEF c
<1>4. /\ content' \in [Tasks -> Content] /\ content'[t] = c
      /\ \A u \in Tasks \ {t} : content'[u] = content[u]
  BY <1>1, <1>3, ContentWritten DEF IInv, TypeOK
<1>5. TypeOK'
  BY <1>1, <1>4 DEF IInv, TypeOK
<1>6. LcOK' /\ AgentSeesBrief' /\ Covered'
  BY <1>1, <1>3, <1>4 DEF IInv, LcOK, AgentSeesBrief, Covered, Held, lcVars
<1> QED
  BY <1>5, <1>6 DEF IInv

LEMMA OpenPRKeeps ==
  ASSUME IInv, NEW t \in Tasks, NEW w \in Workers, NEW p \in Links, OpenPR(w, t, p)
  PROVE  IInv'
<1> DEFINE c == [content[t] EXCEPT !.pr = p]
<1>1. Park(w, t) /\ SetContent(t, c) /\ UNCHANGED <<tab, given, notBefore, now>>
  BY DEF OpenPR
<1>2. content[t] \in Content
  BY DEF IInv, TypeOK
<1>3. c \in Content
  BY <1>2 DEF Content
<1> HIDE DEF c
<1>4. /\ content' \in [Tasks -> Content]
      /\ \A u \in Tasks \ {t} : content'[u] = content[u]
  BY <1>1, <1>3, ContentWritten DEF IInv, TypeOK
<1>5. LcOK'
  BY <1>1, LifecycleTyped DEF IInv
<1>6. /\ status'[t] = "pr_opened"
      /\ \A u \in Tasks \ {t} : status'[u] = status[u]
  BY <1>1 DEF IInv, LcOK, Park
<1>7. TypeOK'
  BY <1>1, <1>4 DEF IInv, TypeOK
<1>8. AgentSeesBrief' /\ Covered'
  BY <1>1, <1>4, <1>6 DEF IInv, AgentSeesBrief, Covered, Held, Active
<1> QED
  BY <1>5, <1>7, <1>8 DEF IInv

\* A retry is scheduled for the end of its backoff, and not earlier.
LEMMA FallBackKeeps ==
  ASSUME IInv, NEW t \in Tasks, FallBack(t)
  PROVE  IInv'
<1>1. Lapse({t}) /\ UNCHANGED <<tab, given, now>>
  BY DEF FallBack
<1>2. LcOK'
  BY <1>1, LifecycleTyped DEF IInv
<1>3. /\ status'[t] = IF Exhausted(t) THEN "failed" ELSE "pending"
      /\ \A u \in Tasks \ {t} : status'[u] = status[u]
  BY <1>1 DEF Lapse
<1>4. CASE Exhausted(t)
  <2>1. UNCHANGED <<content, notBefore>>
    BY <1>4 DEF FallBack
  <2>2. TypeOK'
    BY <1>1, <2>1 DEF IInv, TypeOK
  <2>3. AgentSeesBrief' /\ Covered'
    BY <1>1, <1>3, <1>4, <2>1 DEF IInv, AgentSeesBrief, Covered, Held, Active
  <2> QED
    BY <1>2, <2>2, <2>3 DEF IInv
<1>5. CASE ~Exhausted(t)
  <2> DEFINE e == Backoff(t)
             c == [content[t] EXCEPT !.sched = e]
  <2>1. SetContent(t, c) /\ notBefore' = [notBefore EXCEPT ![t] = e]
    BY <1>5 DEF FallBack
  <2>2. e \in Times
    BY <1>5, BackoffTimes DEF IInv
  <2> HIDE DEF e
  <2>3. content[t] \in Content
    BY DEF IInv, TypeOK
  <2>4. c \in Content /\ c.sched = e
    BY <2>2, <2>3 DEF Content
  <2> HIDE DEF c
  <2>5. /\ content' \in [Tasks -> Content] /\ content'[t] = c
        /\ \A u \in Tasks \ {t} : content'[u] = content[u]
    BY <2>1, <2>4, ContentWritten DEF IInv, TypeOK
  <2>6. TypeOK'
    BY <1>1, <2>1, <2>2, <2>5 DEF IInv, TypeOK
  <2>7. AgentSeesBrief'
    BY <1>1, <1>3, <1>5, <2>5 DEF IInv, AgentSeesBrief, Held, Active
  <2>8. e # NULL /\ e <= e
    BY <2>2, FormAssumption, LifecycleAssumption DEF Times
  <2>9. /\ notBefore'[t] = e
        /\ \A u \in Tasks \ {t} : notBefore'[u] = notBefore[u]
    BY <2>1 DEF IInv, TypeOK
  <2>10. Covered'
    BY <1>3, <1>5, <2>4, <2>5, <2>8, <2>9 DEF IInv, Covered
  <2> QED
    BY <1>2, <2>6, <2>7, <2>10 DEF IInv
<1> QED
  BY <1>4, <1>5

LEMMA TickKeeps ==
  ASSUME IInv, Tick
  PROVE  IInv'
<1>1. TypeOK'
  BY FormAssumption DEF IInv, TypeOK, Tick
<1>2. LcOK' /\ AgentSeesBrief' /\ Covered'
  BY DEF IInv, LcOK, AgentSeesBrief, Covered, Held, Tick, lcVars
<1> QED
  BY <1>1, <1>2 DEF IInv

-----------------------------------------------------------------------------
LEMMA InitHolds ==
  ASSUME Init
  PROVE  IInv
<1>1. LcOK
  BY LifecycleAssumption DEF Init, LifecycleInit, LcOK, Statuses, Limits
<1>2. Closed \in Tab /\ Closed.page = "closed"
  BY DEF Closed, Tab
<1>3. 0 \in Times /\ 0 \in 0 .. Horizon
  BY FormAssumption, LifecycleAssumption DEF Times
<1>4. TypeOK
  BY <1>2, <1>3, EmptyFilled DEF Init, TypeOK
<1>5. AgentSeesBrief /\ Covered
  BY DEF Init, LifecycleInit, AgentSeesBrief, Covered, Held, Active
<1> QED
  BY <1>1, <1>4, <1>5 DEF IInv

LEMMA NextKeeps ==
  ASSUME IInv, [Next]_vars
  PROVE  IInv'
<1>1. ASSUME NEW b \in Tabs, TabNext(b) PROVE IInv'
  <2>1. ASSUME NEW m \in Limits, NEW brief \in Briefs \union {Bare},
               NEW s \in Typed \union {tab[b].shown},
               NEW j \in Links \union {NULL}, NEW p \in Links \union {NULL},
               SaveEdit(b, m, [brief |-> brief, sched |-> s, jira |-> j, pr |-> p])
        PROVE  IInv'
    <3>1. s \in Times \union {NULL}
      BY TypedTimes DEF IInv, TypeOK, Tab
    <3>2. [brief |-> brief, sched |-> s, jira |-> j, pr |-> p] \in Content
      BY <3>1, Filled
    <3> QED
      BY <2>1, <3>2, SaveEditKeeps
  <2>2. ASSUME NEW t \in Tasks, NEW pg \in {"edit", "detail"}, Open(b, t, pg) PROVE IInv'
    BY <2>2, OpenKeeps
  <2>3. ASSUME NEW j \in Links \union {NULL}, NEW p \in Links \union {NULL}, SaveLinks(b, j, p)
        PROVE  IInv'
    BY <2>3, SaveLinksKeeps
  <2>4. ASSUME Abandon(b) PROVE IInv'
    BY <2>4, AbandonKeeps
  <2> QED
    BY <1>1, <2>1, <2>2, <2>3, <2>4 DEF TabNext
<1>2. ASSUME NEW t \in Tasks, TaskNext(t) PROVE IInv'
  <2>1. ASSUME NEW m \in Limits, NEW brief \in Briefs, NEW s \in (0 .. Horizon) \union {NULL},
               NEW j \in Links \union {NULL}, NEW p \in Links \union {NULL},
               Create(t, m, brief, s, j, p)
        PROVE  IInv'
    BY <2>1, CreateKeeps
  <2>2. ASSUME Requeue(t) \/ Delete(t) PROVE IInv'
    BY <2>2, ResetKeeps
  <2>3. ASSUME FallBack(t) PROVE IInv'
    BY <2>3, FallBackKeeps
  <2>4. ASSUME \/ AskReview(t)
               \/ \E outcome \in Terminal : Decide(t, outcome)
               \/ \E w \in Workers : Beat(w, t) \/ Finish(w, t)
        PROVE  IInv'
    BY <2>4, MovesKeep
  <2>5. ASSUME NEW w \in Workers, HandOut(w, t) PROVE IInv'
    BY <2>5, HandOutKeeps
  <2>6. ASSUME NEW w \in Workers, NEW j \in Links \union {NULL}, LinkJira(w, t, j) PROVE IInv'
    BY <2>6, LinkJiraKeeps
  <2>7. ASSUME NEW w \in Workers, NEW p \in Links, OpenPR(w, t, p) PROVE IInv'
    BY <2>7, OpenPRKeeps
  <2> QED
    BY <1>2, <2>1, <2>2, <2>3, <2>4, <2>5, <2>6, <2>7 DEF TaskNext
<1>3. ASSUME Tick PROVE IInv'
  BY <1>3, TickKeeps
<1>4. ASSUME UNCHANGED vars PROVE IInv'
  BY <1>4 DEF IInv, LcOK, TypeOK, AgentSeesBrief, Covered, Held, vars, lcVars, formVars
<1> QED
  BY <1>1, <1>2, <1>3, <1>4 DEF Next

LEMMA Invariance == Spec => []IInv
<1>1. Init => IInv
  BY InitHolds
<1>2. IInv /\ [Next]_vars => IInv'
  BY NextKeeps
<1> QED
  BY <1>1, <1>2, PTL DEF Spec

-----------------------------------------------------------------------------
\* Every column and tab stays in its domain, whatever is typed and however late
\* a form is sent; no retry is put off beyond the longest backoff.
THEOREM TypeCorrect == Spec => []TypeOK
<1>1. IInv => TypeOK
  BY DEF IInv
<1> QED
  BY <1>1, Invariance, PTL

\* UpdateTask never changes the work under the hands of a worker: what a claim
\* handed out is what the pages show until the claim ends.
THEOREM AgentSeesBriefHolds == Spec => []AgentSeesBrief
<1>1. IInv => AgentSeesBrief
  BY DEF IInv
<1> QED
  BY <1>1, Invariance, PTL

\* ClaimTask's scheduled_for condition honours every backoff that ReportResult
\* or ReapStale granted and no edit, requeue or deletion has ended.
THEOREM BackoffHonouredHolds == Spec => BackoffHonoured
<1>1. ASSUME IInv, [Next]_vars
      PROVE  [\A t \in Tasks, w \in Workers : HandOut(w, t) => now >= notBefore[t]]_vars
  <2>1. ASSUME NEW t \in Tasks, NEW w \in Workers, HandOut(w, t)
        PROVE  now >= notBefore[t]
    <3>1. status[t] = "pending" /\ Due(t)
      BY <2>1 DEF HandOut, Claim
    <3>2. now \in Nat /\ notBefore[t] \in Nat
      BY <1>1, FormAssumption, LifecycleAssumption DEF IInv, TypeOK, Times
    <3>3. CASE notBefore[t] = 0
      BY <3>2, <3>3
    <3>4. CASE notBefore[t] # 0
      <4>1. content[t].sched # NULL /\ notBefore[t] <= content[t].sched
        BY <1>1, <3>1, <3>4 DEF IInv, Covered
      <4>2. content[t].sched \in Times \union {NULL}
        BY <1>1 DEF IInv, TypeOK, Content
      <4>3. content[t].sched \in Nat
        BY <4>1, <4>2, FormAssumption, LifecycleAssumption DEF Times
      <4>4. content[t].sched <= now
        BY <3>1, <4>1 DEF Due
      <4> QED
        BY <3>2, <4>1, <4>3, <4>4
    <3> QED
      BY <3>3, <3>4
  <2> QED
    BY <2>1
<1> QED
  BY <1>1, Invariance, PTL DEF Spec, BackoffHonoured

-----------------------------------------------------------------------------
(* The lifecycle behind the forms *)

\* A tab changes a task only by an edit, and only a task it was filled from.
LEMMA TabFollows ==
  ASSUME IInv, NEW b \in Tabs, TabNext(b)
  PROVE  [LifecycleNext]_lcVars
<1>1. ASSUME NEW m \in Limits, NEW c, SaveEdit(b, m, c) PROVE [LifecycleNext]_lcVars
  <2>1. tab[b].task \in Tasks /\ Edit(tab[b].task, m)
    BY <1>1 DEF SaveEdit, IInv, TypeOK
  <2>2. Operates(tab[b].task)
    BY <2>1 DEF Operates
  <2> QED
    BY <2>1, <2>2 DEF LifecycleNext
<1>2. CASE UNCHANGED lcVars
  BY <1>2
<1>3. UNCHANGED lcVars \/ \E m \in Limits : \E c : SaveEdit(b, m, c)
  <2>1. ASSUME NEW t \in Tasks, NEW pg \in {"edit", "detail"}, Open(b, t, pg)
        PROVE  UNCHANGED lcVars
    BY <2>1 DEF Open
  <2>2. ASSUME NEW j, NEW p, SaveLinks(b, j, p) PROVE UNCHANGED lcVars
    BY <2>2 DEF SaveLinks
  <2>3. Abandon(b) => UNCHANGED lcVars
    BY DEF Abandon
  <2> QED
    BY <2>1, <2>2, <2>3 DEF TabNext
<1> QED
  BY <1>1, <1>2, <1>3

\* Every other call is a step of the lifecycle, or writes links only.
LEMMA TaskFollows ==
  ASSUME NEW t \in Tasks, TaskNext(t)
  PROVE  [LifecycleNext]_lcVars
<1>1. ASSUME NEW m \in Limits, NEW brief, NEW s, NEW j, NEW p, Create(t, m, brief, s, j, p)
      PROVE  Operates(t)
  BY <1>1 DEF Create, Operates
<1>2. ASSUME NEW outcome \in Terminal, Decide(t, outcome) PROVE Operates(t)
  BY <1>2 DEF Decide, Operates
<1>3. Requeue(t) \/ Delete(t) \/ AskReview(t) => Operates(t)
  BY DEF Requeue, Delete, AskReview, Operates
<1>4. FallBack(t) => \E S \in SUBSET Tasks : Lapse(S)
  <2>1. FallBack(t) => Lapse({t})
    BY DEF FallBack
  <2> QED
    BY <2>1
<1>5. ASSUME NEW w \in Workers, HandOut(w, t) \/ Beat(w, t) \/ Finish(w, t)
      PROVE  Claim(w, t) \/ Start(t) \/ Complete(w, t)
  BY <1>5 DEF HandOut, Beat, Finish
<1>6. ASSUME NEW w \in Workers, NEW j, LinkJira(w, t, j) PROVE UNCHANGED lcVars
  BY <1>6 DEF LinkJira
<1>7. ASSUME NEW w \in Workers, NEW p \in Links, OpenPR(w, t, p) PROVE Park(w, t)
  BY <1>7 DEF OpenPR
<1>8. ASSUME Operates(t) PROVE LifecycleNext
  BY <1>8 DEF LifecycleNext
<1>9. ASSUME NEW w \in Workers, Claim(w, t) \/ Start(t) \/ Complete(w, t) \/ Park(w, t)
      PROVE  LifecycleNext
  BY <1>9 DEF LifecycleNext
<1>10. ASSUME NEW S \in SUBSET Tasks, Lapse(S) PROVE LifecycleNext
  BY <1>10 DEF LifecycleNext
<1>11. ASSUME \E m \in Limits, brief \in Briefs, s \in (0 .. Horizon) \union {NULL},
                 j, p \in Links \union {NULL} : Create(t, m, brief, s, j, p)
       PROVE  LifecycleNext
  BY <1>1, <1>8, <1>11
<1>12. ASSUME NEW w \in Workers,
              \/ HandOut(w, t) \/ Beat(w, t) \/ Finish(w, t)
              \/ \E j \in Links \union {NULL} : LinkJira(w, t, j)
              \/ \E p \in Links : OpenPR(w, t, p)
       PROVE  [LifecycleNext]_lcVars
  BY <1>5, <1>6, <1>7, <1>9, <1>12
<1> QED
  BY <1>2, <1>3, <1>4, <1>8, <1>10, <1>11, <1>12 DEF TaskNext

\* Under forms that come late and are sent whole, the queue keeps its promise: no
\* page takes a task through a transition the store does not allow.
THEOREM FormsFollowLifecycle == Spec => LifecycleSpec
<1>1. Init => LifecycleInit
  BY DEF Init
<1>2. ASSUME IInv, [Next]_vars PROVE [LifecycleNext]_lcVars
  <2>1. CASE UNCHANGED vars \/ Tick
    BY <2>1 DEF vars, Tick
  <2> QED
    BY <1>2, <2>1, TabFollows, TaskFollows DEF Next
<1> QED
  BY <1>1, <1>2, Invariance, PTL DEF Spec, LifecycleSpec

\* Whatever forms are saved, and whatever budget they write on a task that may have
\* used up more, the task is not handed out and handed back for ever.
THEOREM FormsRunOut == Spec => WorkRunsOut
BY FormsFollowLifecycle, WorkRunsOutHolds
=============================================================================
