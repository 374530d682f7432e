--------------------------- MODULE DashboardProofs ---------------------------
(***************************************************************************)
(* The views of Dashboard and the claims of ClaimOrder, for every number   *)
(* of tasks, workers, log transactions and claims under way and every      *)
(* limit.                                                                  *)
(*                                                                         *)
(* First what ORDER BY, LIMIT and OFFSET return: in an order without ties, *)
(* ranks count from 0 without gaps, so a page holds no more than its limit *)
(* and is short only at the end. Then what a store step does to creation   *)
(* dates, which nothing rewrites, and to holders. The invariant says what  *)
(* a view has already secured at each of its statements. The claims come   *)
(* last: what a claim has sorted is still in that order as far as no one   *)
(* else has touched it, and what it has picked waits for it.               *)
(***************************************************************************)
EXTENDS Dashboard, ClaimOrder, TaskStoreProofs, FiniteSetTheorems, FunctionTheorems

\* created_at tells the tasks there are apart, and is never in the future.
Births ==
  \A t \in Present :
    /\ row[t].created < births
    /\ \A u \in Present : row[u].created = row[t].created => u = t

OnQueue(t) == (\E i \in DOMAIN page.rail : page.rail[i] = t) \/ t \in page.cut

\* A task the dashboard has to show is on it, or its holder will be.
Showing ==
  page.step \in {"queue", "workers", "shown"} =>
    \A t \in steady :
      /\ Alive(t)
      /\ \/ OnQueue(t)
         \/ /\ Held(t)
            /\ page.step # "queue" => row[t].claimedBy \in page.listed
            /\ page.step = "shown" => page.current[row[t].claimedBy] # NULL

\* The agent of an agent's page still has what it had when the page was begun.
Agent ==
  /\ page.step = "unknown" => steady = {}
  /\ page.step \in {"info", "current", "agent"} =>
       /\ \E w \in Workers : page.listed = {w}
       /\ \A t \in steady : Held(t) /\ row[t].claimedBy \in page.listed
  /\ page.step \in {"current", "agent"} =>
       (steady # {} => \A w \in page.listed : page.current[w] # NULL)
  /\ page.step = "agent" =>
       \A t \in steady : t \in page.seen \/ Cardinality(page.seen) = RecentLimit

\* A walk has seen every task it must see that ranks below its offset.
Walk ==
  /\ page.step = "list" =>
       /\ steady \subseteq Present
       /\ \A t \in steady : Rank(Present, t) < page.offset => t \in page.seen
  /\ page.step = "listed" => steady \subseteq page.seen

\* The cards of the rail are those of tasks that were there, in queue order by the
\* priority they show.
Ordered(i, j) ==
  \/ page.prio[i] > page.prio[j]
  \/ page.prio[i] = page.prio[j] /\ row[page.rail[i]].created < row[page.rail[j]].created

Cards ==
  /\ \A i \in DOMAIN page.rail : row[page.rail[i]].status # "unborn"
  /\ \A i, j \in DOMAIN page.rail :
       i < j /\ {page.rail[i], page.rail[j]} \subseteq Present => Ordered(i, j)

\* The inductive invariant. Cards is shown apart, on top of it.
DInv == IInv /\ Births /\ PageOK /\ Showing /\ Agent /\ Walk

-----------------------------------------------------------------------------
(* ORDER BY, LIMIT, OFFSET *)

LEMMA ViewBounds ==
  /\ RailLimit \in Nat /\ RailLimit > 0
  /\ RecentLimit \in Nat /\ RecentLimit > 0
  /\ PageLimit \in Nat /\ PageLimit > 0
  /\ IsFiniteSet(Tasks) /\ NULL \notin Tasks /\ NULL \notin Workers
BY DashboardAssumption, StoreAssumption

\* A set of tasks, each with a creation date of its own.
Dated(S) ==
  /\ S \in SUBSET Tasks
  /\ \A t \in S : row[t].created \in Nat /\ row[t].priority \in Nat
  /\ \A t, u \in S : row[u].created = row[t].created => u = t

\* Any part of such a set is one.
LEMMA DatedPart == \A S, T : Dated(S) /\ T \subseteq S => Dated(T)
BY DEF Dated

\* Ranks are numbers below the size of the set.
LEMMA RankType ==
  ASSUME NEW S, Dated(S), NEW t \in S
  PROVE  /\ IsFiniteSet(S) /\ Cardinality(S) \in Nat
         /\ Rank(S, t) \in Nat /\ Rank(S, t) < Cardinality(S)
<1> DEFINE A == {u \in S : ListOrder(u, t)}
<1>1. IsFiniteSet(S) /\ Cardinality(S) \in Nat
  BY ViewBounds, FS_Subset, FS_CardinalityType DEF Dated
<1>2. A \in SUBSET S /\ t \notin A
  BY DEF Dated, ListOrder
<1> HIDE DEF A
<1>3. /\ IsFiniteSet(A) /\ Cardinality(A) \in Nat /\ Cardinality(A) <= Cardinality(S)
      /\ Cardinality(S) = Cardinality(A) => S = A
  BY <1>1, <1>2, FS_Subset, FS_CardinalityType
<1>4. Cardinality(A) # Cardinality(S)
  BY <1>2, <1>3
<1> QED
  BY <1>1, <1>3, <1>4 DEF Rank, A

\* Newer tasks rank lower.
LEMMA RankLess ==
  ASSUME NEW S, Dated(S), NEW t \in S, NEW u \in S, row[u].created < row[t].created
  PROVE  Rank(S, t) < Rank(S, u)
<1> DEFINE A == {x \in S : ListOrder(x, t)}
           B == {x \in S : ListOrder(x, u)}
<1>1. IsFiniteSet(S)
  BY RankType
<1>2. A \in SUBSET B /\ t \in B /\ t \notin A /\ B \in SUBSET S
  BY DEF Dated, ListOrder
<1>3. Cardinality(A) = Rank(S, t) /\ Cardinality(B) = Rank(S, u)
  BY DEF Rank
<1> HIDE DEF A, B
<1>4. /\ IsFiniteSet(B) /\ Cardinality(A) <= Cardinality(B)
      /\ Cardinality(B) = Cardinality(A) => B = A
  BY <1>1, <1>2, FS_Subset
<1>5. Rank(S, t) \in Nat /\ Rank(S, u) \in Nat
  BY RankType
<1> QED
  BY <1>2, <1>3, <1>4, <1>5

\* No two tasks have the same rank.
LEMMA RankDistinct ==
  ASSUME NEW S, Dated(S), NEW t \in S, NEW u \in S, Rank(S, t) = Rank(S, u)
  PROVE  t = u
<1>1. Rank(S, t) \in Nat
  BY RankType
<1>2. row[t].created \in Nat /\ row[u].created \in Nat
  BY DEF Dated
<1>3. ~(row[t].created < row[u].created) /\ ~(row[u].created < row[t].created)
  BY <1>1, RankLess
<1> QED
  BY <1>2, <1>3 DEF Dated

\* Ranks have no gaps.
LEMMA RankOnto ==
  ASSUME NEW S, Dated(S), NEW k \in Nat, k < Cardinality(S)
  PROVE  \E t \in S : Rank(S, t) = k
<1> DEFINE n == Cardinality(S)
           T == 0 .. n - 1
           f == [t \in S |-> Rank(S, t)]
<1>1. IsFiniteSet(S) /\ n \in Nat
  BY ViewBounds, FS_Subset, FS_CardinalityType DEF Dated
<1>2. n > 0
  BY <1>1
<1>3. IsFiniteSet(T) /\ Cardinality(T) = n
  <2>1. 0 \in Int /\ n - 1 \in Int /\ ~(0 > n - 1) /\ n - 1 - 0 + 1 = n
    BY <1>1, <1>2
  <2> QED
    BY <2>1, FS_Interval
<1>4. f \in [S -> T]
  BY <1>1, RankType
<1>5. \A t, u \in S : f[t] = f[u] => t = u
  BY RankDistinct
<1> HIDE DEF f, T
<1>6. f \in Injection(S, T)
  BY <1>4, <1>5, Fun_IsInj
<1>7. f \in Surjection(S, T)
  BY <1>3, <1>6, FS_Injection
<1>8. k \in T
  BY <1>1 DEF T
<1>9. PICK t \in S : f[t] = k
  BY <1>7, <1>8 DEF Surjection
<1> QED
  BY <1>9 DEF f

\* A page holds at most its limit, and one that is not full is the last: no
\* task ranks beyond it.
LEMMA SliceSize ==
  ASSUME NEW S, Dated(S), NEW o \in Nat, NEW l \in Nat, l > 0
  PROVE  /\ IsFiniteSet(Slice(S, o, l)) /\ Cardinality(Slice(S, o, l)) \in Nat
         /\ Cardinality(Slice(S, o, l)) <= l
         /\ Cardinality(Slice(S, o, l)) < l => \A t \in S : Rank(S, t) < o + l
<1> DEFINE P == Slice(S, o, l)
           T == o .. o + l - 1
           f == [t \in P |-> Rank(S, t)]
<1>1. P \in SUBSET S /\ \A t \in P : Rank(S, t) \in T
  BY DEF Slice
<1>2. IsFiniteSet(T) /\ Cardinality(T) = l
  <2>1. o \in Int /\ o + l - 1 \in Int /\ ~(o > o + l - 1) /\ o + l - 1 - o + 1 = l
    OBVIOUS
  <2> QED
    BY <2>1, FS_Interval
<1>3. f \in [P -> T] /\ \A t, u \in P : f[t] = f[u] => t = u
  BY <1>1, RankDistinct
<1> HIDE DEF P, T, f
<1>4. f \in Injection(P, T)
  BY <1>3, Fun_IsInj
<1>5. /\ IsFiniteSet(P) /\ Cardinality(P) <= l
      /\ f \in Surjection(P, T) => Cardinality(P) = l
  BY <1>2, <1>4, FS_Injection
<1>6. Cardinality(P) \in Nat
  BY <1>5, FS_CardinalityType
<1>7. ASSUME NEW t \in S, ~(Rank(S, t) < o + l)
      PROVE  f \in Surjection(P, T)
  <2>1. ASSUME NEW k \in T PROVE \E s \in P : f[s] = k
    <3>1. k \in Nat /\ k < Cardinality(S) /\ k \in o .. o + l - 1
      BY <1>7, RankType DEF T
    <3>2. PICK s \in S : Rank(S, s) = k
      BY <3>1, RankOnto
    <3> QED
      BY <3>1, <3>2 DEF P, f, Slice
  <2> QED
    BY <1>3, <2>1, Fun_IsSurj
<1> QED
  BY <1>5, <1>6, <1>7 DEF P

\* What a sort returns leaves nothing out.
LEMMA ListingOnto ==
  ASSUME NEW S, Dated(S), NEW s \in Listings(S), NEW t \in S
  PROVE  \E i \in DOMAIN s : s[i] = t
<1> DEFINE n == Cardinality(S)
           D == 1 .. n
<1>1. IsFiniteSet(S) /\ n \in Nat
  BY RankType
<1>2. s \in [D -> S] /\ \A i, j \in D : i < j => LessQueue(s[i], s[j])
  BY DEF Listings
<1>3. \A x \in S : ~LessQueue(x, x)
  <2>1. ASSUME NEW x \in S PROVE ~LessQueue(x, x)
    <3>1. row[x].created \in Nat /\ row[x].priority \in Nat
      BY DEF Dated
    <3> QED
      BY <3>1 DEF LessQueue
  <2> QED
    BY <2>1
<1>4. \A i, j \in D : s[i] = s[j] => i = j
  <2> SUFFICES ASSUME NEW i \in D, NEW j \in D, s[i] = s[j], i < j PROVE FALSE
    BY <1>1
  <2> QED
    BY <1>2, <1>3
<1>5. IsFiniteSet(D) /\ Cardinality(D) = n
  <2>1. 1 \in Int /\ n \in Int /\ (IF 1 > n THEN 0 ELSE n - 1 + 1) = n
    BY <1>1
  <2> QED
    BY <2>1, FS_Interval
<1> HIDE DEF D
<1>6. s \in Injection(D, S)
  BY <1>2, <1>4, Fun_IsInj
<1>7. s \in Surjection(D, S)
  BY <1>1, <1>5, <1>6, FS_Injection
<1> QED
  BY <1>2, <1>7 DEF Surjection

-----------------------------------------------------------------------------
(* What a step of the store does to creation dates *)

\* The tasks there are can be told apart.
LEMMA PresentDated == IInv /\ Births => Dated(Present) /\ Dated(Pending)
<1> SUFFICES ASSUME IInv, Births PROVE Dated(Present) /\ Dated(Pending)
  OBVIOUS
<1>1. \A t \in Tasks : row[t].created \in Nat /\ row[t].priority \in Nat
  <2>1. \A p \in Priorities : p \in Nat
    BY StoreAssumption DEF Priorities
  <2>2. \A t \in Tasks : row[t].created \in Nat /\ row[t].priority \in Priorities
    BY DEF IInv, TypeOK, Row
  <2> QED
    BY <2>1, <2>2
<1>2. Dated(Present)
  BY <1>1 DEF Dated, Births, Present
<1>3. Pending \subseteq Present
  BY DEF Pending, Present, Absent
<1> QED
  BY <1>2, <1>3, DatedPart

\* What a statement makes of a row is still the same task's.
SameTask(r, s) == s.created = r.created /\ (s.status = "unborn" => r.status = "unborn")

\* No task appears and none gets another date.
SameDates ==
  /\ births' = births
  /\ \A t \in Tasks : row'[t].status \notin Absent =>
       row[t].status \notin Absent /\ row'[t].created = row[t].created
  /\ \A t \in Tasks : row'[t].status = "unborn" => row[t].status = "unborn"

\* One row is written.
LEMMA DateRow ==
  ASSUME IInv, NEW t \in Tasks, NEW r, SetRow(t, r), births' = births,
         \/ row[t].status \notin Absent /\ SameTask(row[t], r)
         \/ r.status = "deleted"
  PROVE  SameDates
BY DEF IInv, TypeOK, SetRow, SameDates, SameTask, Absent

\* No operator on a row touches its date.
LEMMA DateKept ==
  ASSUME NEW r \in Row
  PROVE  /\ \A m, p, d : SameTask(r, Edited(r, m, p, d))
         /\ SameTask(r, Requeued(r))
         /\ SameTask(r, [r EXCEPT !.status = "review_requested"])
         /\ \A e : \A o \in Terminal : SameTask(r, Finalized(r, o, e))
         /\ \A w : SameTask(r, Claimed(r, w))
         /\ SameTask(r, Beaten(r))
         /\ \A n : SameTask(r, Noted(r, n))
         /\ SameTask(r, JiraLinked(r))
         /\ SameTask(r, PROpened(r))
         /\ SameTask(r, Completed(r))
         /\ \A e : SameTask(r, Failed(r, e))
         /\ \A a : SameTask(r, LogBeaten(r, a))
         /\ Aged(r).created = r.created /\ Aged(r).status = r.status
<1>1. /\ \A m, p, d : SameTask(r, Edited(r, m, p, d))
      /\ SameTask(r, Requeued(r))
      /\ SameTask(r, [r EXCEPT !.status = "review_requested"])
      /\ \A e : \A o \in Terminal : SameTask(r, Finalized(r, o, e))
  BY DEF Row, SameTask, Edited, Requeued, Finalized, Terminal
<1>2. /\ \A w : SameTask(r, Claimed(r, w))
      /\ SameTask(r, Beaten(r))
      /\ \A n : SameTask(r, Noted(r, n))
      /\ SameTask(r, JiraLinked(r))
      /\ SameTask(r, PROpened(r))
  BY DEF Row, SameTask, Claimed, Beaten, Beating, Noted, JiraLinked, PROpened
<1>3. /\ SameTask(r, Completed(r))
      /\ \A e : SameTask(r, Failed(r, e))
      /\ \A a : SameTask(r, LogBeaten(r, a))
  BY DEF Row, SameTask, Completed, Failed, LogBeaten, Beating
<1>4. Aged(r).created = r.created /\ Aged(r).status = r.status
  BY DEF Row, Aged
<1> QED
  BY <1>1, <1>2, <1>3, <1>4

\* Operators other than CreateTask.
LEMMA OperatorDates ==
  ASSUME IInv, NEW t \in Tasks, OperatorNext(t),
         \A m \in Limits, p \in Priorities, d \in Delays : ~CreateTask(t, m, p, d)
  PROVE  SameDates
<1>0. row[t] \in Row
  BY DEF IInv, TypeOK
<1>1. ASSUME NEW m \in Limits, NEW p \in Priorities, NEW d \in Delays, UpdateTask(t, m, p, d)
      PROVE  SameDates
  BY <1>0, <1>1, DateKept, DateRow DEF UpdateTask, Absent
<1>2. CASE RequeueTask(t)
  <2>1. row[t].status \notin Absent
    BY <1>2 DEF RequeueTask, Settled, Terminal, Absent
  <2> QED
    BY <1>0, <1>2, <2>1, DateKept, DateRow DEF RequeueTask
<1>3. CASE DeleteTask(t)
  <2>1. Blank("deleted").status = "deleted"
    BY DEF Blank
  <2> QED
    BY <1>3, <2>1, DateRow DEF DeleteTask
<1>4. CASE RequestReview(t)
  BY <1>0, <1>4, DateKept, DateRow DEF RequestReview, Absent
<1>5. ASSUME NEW o \in Terminal, NEW e \in {"reported", NULL}, FinalizeTask(t, o, e)
      PROVE  SameDates
  <2>1. row[t].status \notin Absent
    BY <1>5 DEF FinalizeTask, Parked, Absent
  <2> QED
    BY <1>0, <1>5, <2>1, DateKept, DateRow DEF FinalizeTask
<1> QED
  BY <1>1, <1>2, <1>3, <1>4, <1>5 DEF OperatorNext

\* Workers.
LEMMA WorkerDates ==
  ASSUME IInv, NEW w \in Workers, NEW t \in Tasks, WorkerNext(w, t)
  PROVE  SameDates
<1>0. row[t] \in Row
  BY DEF IInv, TypeOK
<1>1. row[t].status \notin Absent
  BY DEF WorkerNext, HolderNext, ClaimTask, Eligible, Heartbeat, SetJiraURL, OpenPR,
         UpdateProgress, ReportResult, Calls, HeldBy, Held, Active, Absent
<1>2. births' = births
  BY DEF WorkerNext, HolderNext, ClaimTask, Heartbeat, SetJiraURL, OpenPR, UpdateProgress, ReportResult
<1>3. \E r : SetRow(t, r) /\ SameTask(row[t], r)
  <2>1. ASSUME NEW d \in BOOLEAN, ClaimTask(w, t, d)
        PROVE  SetRow(t, Claimed(row[t], w))
    BY <2>1 DEF ClaimTask
  <2>2. ASSUME NEW n \in {w, NULL}, UpdateProgress(w, t, n)
        PROVE  SetRow(t, Noted(row[t], n))
    BY <2>2 DEF UpdateProgress
  <2>3. ASSUME NEW success \in BOOLEAN, ReportResult(w, t, success)
        PROVE  SetRow(t, Completed(row[t])) \/ SetRow(t, Failed(row[t], "reported"))
    BY <2>3 DEF ReportResult
  <2>4. /\ Heartbeat(w, t) => SetRow(t, Beaten(row[t]))
        /\ SetJiraURL(w, t) => SetRow(t, JiraLinked(row[t]))
        /\ OpenPR(w, t) => SetRow(t, PROpened(row[t]))
    BY DEF Heartbeat, SetJiraURL, OpenPR
  <2> QED
    BY <1>0, <2>1, <2>2, <2>3, <2>4, DateKept DEF WorkerNext, HolderNext
<1> QED
  BY <1>1, <1>2, <1>3, DateRow

\* Log transactions.
LEMMA LogDates ==
  ASSUME IInv, NEW c \in Conns, LogNext(c)
  PROVE  SameDates
<1>1. CASE LogCommit(c)
  <2> DEFINE t == tx[c].task
             r == LogBeaten(row[t], tx[c].age)
  <2>1. t \in Tasks /\ SetRow(t, r) /\ births' = births /\ row[t] \in Row
    BY <1>1 DEF LogCommit, IInv, TypeOK
  <2>2. SameTask(row[t], r)
    BY <2>1, DateKept
  <2>3. row[t].status \notin Absent
    BY <1>1, <2>1 DEF LogCommit, IInv, LogsHaveTask, KeyShared
  <2> HIDE DEF r, t
  <2> QED
    BY <2>1, <2>2, <2>3, DateRow
<1>2. CASE row' = row /\ births' = births
  BY <1>2 DEF SameDates
<1> QED
  BY <1>1, <1>2 DEF LogNext, LogBegin, LogCheck, LogInsert, LogAbort

\* Nothing but CreateTask gives a date.
LEMMA OnlyCreates ==
  ASSUME IInv, [Next]_vars,
         \A t \in Tasks, m \in Limits, p \in Priorities, d \in Delays : ~CreateTask(t, m, p, d)
  PROVE  SameDates
<1>0. \A t \in Tasks : row[t] \in Row
  BY DEF IInv, TypeOK
<1>1. CASE ReapStale
  <2>1. ASSUME NEW t \in Tasks
        PROVE  /\ row'[t].status \notin Absent =>
                    row[t].status \notin Absent /\ row'[t].created = row[t].created
               /\ row'[t].status = "unborn" => row[t].status = "unborn"
    <3>1. CASE t \in Stale
      <4>1. row'[t] = Failed(row[t], "lease_expired") /\ row[t].status \in Active
        BY <1>1, <3>1 DEF ReapStale, Stale, Expired
      <4>2. SameTask(row[t], Failed(row[t], "lease_expired"))
        BY <1>0, DateKept
      <4> QED
        BY <4>1, <4>2 DEF SameTask, Active, Absent
    <3> QED
      BY <1>1, <3>1 DEF ReapStale
  <2> QED
    BY <1>1, <2>1 DEF ReapStale, SameDates
<1>2. CASE Tick
  BY <1>0, <1>2, DateKept DEF Tick, SameDates
<1>3. CASE row' = row /\ births' = births
  BY <1>3 DEF SameDates
<1> QED
  BY <1>1, <1>2, <1>3, OperatorDates, WorkerDates, LogDates DEF Next, Crash, vars

\* A task keeps its date as long as it is there, and stays distinct. One that is
\* gone does not come back.
LEMMA BirthsNext ==
  ASSUME IInv, Births, [Next]_vars
  PROVE  /\ Births'
         /\ \A t \in Present : t \in Present' => row'[t].created = row[t].created
         /\ \A t \in Tasks : row[t].status # "unborn" =>
              row'[t].status # "unborn" /\ (t \in Present' => t \in Present)
<1>1. CASE \A t \in Tasks, m \in Limits, p \in Priorities, d \in Delays : ~CreateTask(t, m, p, d)
  <2>1. SameDates
    BY <1>1, OnlyCreates
  <2> QED
    BY <2>1 DEF SameDates, Births, Present
<1>2. ASSUME NEW t \in Tasks, NEW m \in Limits, NEW p \in Priorities, NEW d \in Delays,
             CreateTask(t, m, p, d)
      PROVE  /\ Births'
             /\ \A u \in Present : u \in Present' => row'[u].created = row[u].created
             /\ \A u \in Tasks : row[u].status # "unborn" =>
                  row'[u].status # "unborn" /\ (u \in Present' => u \in Present)
  <2>0. row[t].status = "unborn"
    BY <1>2 DEF CreateTask
  <2>1. /\ row' = [row EXCEPT ![t] = Fresh(m, p, d)] /\ births' = births + 1
        /\ row \in [Tasks -> Row] /\ births \in Nat /\ t \notin Present
    BY <1>2 DEF CreateTask, SetRow, IInv, TypeOK, Present, Absent
  <2>2. Fresh(m, p, d).created = births
    BY DEF Fresh, Blank
  <2>3. row'[t].created = births /\ \A u \in Tasks \ {t} : row'[u] = row[u]
    BY <2>1, <2>2
  <2>4. \A u \in Present' \ {t} : u \in Present
    BY <2>3 DEF Present
  <2>5. \A u \in Present : row[u].created \in Nat /\ row[u].created < births
    BY <2>1 DEF Births, Present, Row
  <2>6. ASSUME NEW u \in Present'
        PROVE  /\ row'[u].created < births'
               /\ \A v \in Present' : row'[v].created = row'[u].created => v = u
    <3>1. u \in Tasks /\ \A v \in Present' : v \in Tasks
      BY DEF Present
    <3> QED
      BY <2>1, <2>3, <2>4, <2>5, <3>1 DEF Births
  <2>7. Births'
    BY <2>6 DEF Births
  <2> QED
    BY <2>0, <2>1, <2>3, <2>4, <2>7 DEF Present
<1> QED
  BY <1>1, <1>2

\* While none is deleted, tasks only move down the list.
LEMMA RankGrows ==
  ASSUME IInv, Births, [Next]_vars, Present \subseteq Present', NEW t \in Present
  PROVE  /\ Rank(Present, t) \in Nat /\ Rank(Present, t)' \in Nat
         /\ Rank(Present, t) <= Rank(Present, t)'
<1>1. \A u \in Present : row'[u].created = row[u].created
  BY BirthsNext
<1> DEFINE A == {u \in Present : row[u].created > row[t].created}
           B == {u \in Present' : row'[u].created > row'[t].created}
<1>2. Rank(Present, t) = Cardinality(A) /\ Rank(Present, t)' = Cardinality(B)
  BY DEF Rank, ListOrder
<1>3. A \in SUBSET B /\ B \in SUBSET Tasks
  BY <1>1 DEF Present
<1> HIDE DEF A, B
<1>4. /\ IsFiniteSet(B) /\ IsFiniteSet(A) /\ Cardinality(A) <= Cardinality(B)
      /\ Cardinality(A) \in Nat /\ Cardinality(B) \in Nat
  BY <1>3, ViewBounds, FS_Subset, FS_CardinalityType
<1> QED
  BY <1>2, <1>4

-----------------------------------------------------------------------------
(* Pages *)

\* An empty page.
LEMMA BlankPageOK ==
  ASSUME NEW s \in {"none", "queue", "info", "unknown", "list", "listed", "failed"}
  PROVE  /\ BlankPage(s) \in Page /\ BlankPage(s).step = s /\ BlankPage(s).rail = <<>>
         /\ BlankPage(s).current = [w \in Workers |-> NULL]
<1>1. /\ <<>> \in Seq(Tasks) /\ <<>> \in Seq(Priorities)
      /\ [w \in Workers |-> NULL] \in [Workers -> Tasks \union {NULL}]
  OBVIOUS
<1> QED
  BY <1>1 DEF BlankPage, Page

\* The tables do not change under a reading step.
LEMMA Reads ==
  ASSUME DInv, UNCHANGED storeVars
  PROVE  /\ row' = row /\ IInv' /\ Births'
         /\ Present' = Present /\ Pending' = Pending
         /\ \A t \in Tasks : (Alive(t)' <=> Alive(t)) /\ (Held(t)' <=> Held(t))
<1>1. row' = row /\ births' = births
  BY DEF storeVars, vars
<1>2. IInv'
  BY NextIInv DEF DInv, storeVars
<1>3. Births'
  BY <1>1 DEF DInv, Births, Present
<1> QED
  BY <1>1, <1>2, <1>3 DEF Present, Pending, Alive, Held

\* The queue is read: what is to be done is on the rail or cut off.
LEMMA ReadQueueDInv == DInv /\ ReadQueue => DInv'
<1> SUFFICES ASSUME DInv, ReadQueue PROVE DInv'
  OBVIOUS
<1>0. /\ row' = row /\ IInv' /\ Births'
      /\ \A t \in Tasks : (Alive(t)' <=> Alive(t)) /\ (Held(t)' <=> Held(t))
  BY Reads DEF ReadQueue
<1> DEFINE N == Newest(Pending)
<1>1. PICK got \in Arrived(N) : \E rail \in Listings(got) :
        /\ page' = [BlankPage("queue") EXCEPT
                      !.rail = rail, !.prio = [i \in DOMAIN rail |-> row[rail[i]].priority],
                      !.cut = Pending \ N]
        /\ steady' = {t \in Tasks : Alive(t)} \ (N \ got)
  BY DEF ReadQueue
<1>2. PICK rail \in Listings(got) :
        page' = [BlankPage("queue") EXCEPT
                   !.rail = rail, !.prio = [i \in DOMAIN rail |-> row[rail[i]].priority],
                   !.cut = Pending \ N]
  BY <1>1
<1>3. /\ Dated(Pending) /\ N \subseteq Pending /\ Pending \subseteq Tasks
      /\ got \in SUBSET N
  BY PresentDated DEF DInv, Newest, Slice, Pending, Arrived
<1>4. IsFiniteSet(got) /\ Cardinality(got) \in Nat /\ Cardinality(got) <= RailLimit
  <2>1. IsFiniteSet(N) /\ Cardinality(N) \in Nat /\ Cardinality(N) <= RailLimit
    BY <1>3, SliceSize, ViewBounds DEF Newest
  <2> HIDE DEF N
  <2>2. IsFiniteSet(got) /\ Cardinality(got) <= Cardinality(N)
    BY <1>3, <2>1, FS_Subset
  <2> QED
    BY <2>1, <2>2, FS_CardinalityType, ViewBounds
<1> HIDE DEF N
<1>5. \A t \in got : \E i \in DOMAIN rail : rail[i] = t
  <2>1. got \subseteq Pending
    BY <1>3
  <2>2. Dated(got)
    BY <1>3, <2>1, DatedPart
  <2> QED
    BY <2>2, ListingOnto
<1>6. /\ rail \in Seq(Tasks) /\ Len(rail) <= RailLimit
      /\ [i \in DOMAIN rail |-> row[rail[i]].priority] \in Seq(Priorities)
  <2>1. rail \in [1 .. Cardinality(got) -> Tasks]
    BY <1>3 DEF Listings
  <2>2. \A t \in Tasks : row[t].priority \in Priorities
    BY DEF DInv, IInv, TypeOK, Row
  <2>3. [i \in DOMAIN rail |-> row[rail[i]].priority] \in [1 .. Cardinality(got) -> Priorities]
    BY <2>1, <2>2
  <2> QED
    BY <1>4, <2>1, <2>3
<1>7. /\ page' \in Page /\ page'.step = "queue" /\ page'.rail = rail /\ page'.cut = Pending \ N
  <2>1. BlankPage("queue") \in Page
    BY BlankPageOK
  <2> QED
    BY <1>2, <1>3, <1>6, <2>1, BlankPageOK DEF Page
<1>8. steady' = {t \in Tasks : Alive(t)} \ (N \ got)
  BY <1>1
<1>9. PageOK'
  BY <1>6, <1>7, <1>8 DEF PageOK
<1>10. ASSUME NEW t \in steady'
       PROVE  Alive(t)' /\ (OnQueue(t)' \/ Held(t)')
  <2>1. t \in Tasks /\ Alive(t) /\ Alive(t)' /\ t \notin N \ got
    BY <1>0, <1>8
  <2>2. CASE t \in Pending
    BY <1>5, <1>7, <2>1, <2>2 DEF OnQueue
  <2>3. CASE t \notin Pending
    BY <1>0, <2>1, <2>3 DEF Alive, Pending
  <2> QED
    BY <2>1, <2>2, <2>3
<1>11. Showing'
  BY <1>7, <1>10 DEF Showing
<1>12. Agent' /\ Walk'
  BY <1>7 DEF Agent, Walk
<1> QED
  BY <1>0, <1>9, <1>11, <1>12 DEF DInv

\* The workers are read: the holder of a live lease is among them.
LEMMA ReadWorkersDInv == DInv /\ ReadWorkers => DInv'
<1> SUFFICES ASSUME DInv, ReadWorkers PROVE DInv'
  OBVIOUS
<1>0. /\ row' = row /\ IInv' /\ Births' /\ steady' = steady
      /\ \A t \in Tasks : (Alive(t)' <=> Alive(t)) /\ (Held(t)' <=> Held(t))
  BY Reads DEF ReadWorkers
<1>1. PICK hidden \in SUBSET {w \in Known : Silent(w)} :
        page' = [page EXCEPT !.step = "workers", !.listed = Known \ hidden]
  BY DEF ReadWorkers
<1>2. Known \subseteq Workers
  BY DEF Known, DInv, IInv, TypeOK, Row
<1>3. page \in Page /\ Len(page.rail) <= RailLimit /\ steady \subseteq Tasks /\ page.step = "queue"
  BY DEF DInv, PageOK, ReadWorkers
<1>4. /\ page' \in Page /\ page'.step = "workers" /\ page'.rail = page.rail
      /\ page'.cut = page.cut /\ page'.listed = Known \ hidden
  BY <1>1, <1>2, <1>3 DEF Page
<1>5. PageOK'
  BY <1>0, <1>3, <1>4 DEF PageOK
<1>6. ASSUME NEW t \in steady, Held(t) PROVE row[t].claimedBy \in page'.listed
  <2>1. Alive(t) /\ t \in Tasks
    BY <1>3 DEF DInv, Showing
  <2>2. ~Expired(row[t])
    BY <1>6, <2>1 DEF Alive, Held, Active
  <2>3. row[t].claimedBy \in Known
    BY <1>6, <2>1 DEF Known, DInv, IInv, RowOK, Held
  <2>4. ~Silent(row[t].claimedBy)
    BY <1>6, <2>1, <2>2 DEF Silent, HeldBy
  <2> QED
    BY <1>4, <2>3, <2>4
<1>7. \A t \in steady : Alive(t) /\ (OnQueue(t) \/ Held(t))
  BY <1>3 DEF DInv, Showing
<1>8. \A t \in steady : OnQueue(t)' <=> OnQueue(t)
  BY <1>4 DEF OnQueue
<1>9. Showing'
  BY <1>0, <1>3, <1>4, <1>6, <1>7, <1>8 DEF Showing
<1>10. Agent' /\ Walk'
  BY <1>4 DEF Agent, Walk
<1> QED
  BY <1>0, <1>5, <1>9, <1>10 DEF DInv

\* The holders are read: each worker listed that has a task is shown busy.
LEMMA ReadCurrentDInv == DInv /\ ReadCurrent => DInv'
<1> SUFFICES ASSUME DInv, ReadCurrent PROVE DInv'
  OBVIOUS
<1>0. /\ row' = row /\ IInv' /\ Births' /\ steady' = steady
      /\ \A t \in Tasks : (Alive(t)' <=> Alive(t)) /\ (Held(t)' <=> Held(t))
  BY Reads DEF ReadCurrent
<1>1. PICK c \in [Workers -> Tasks \union {NULL}] :
        /\ \A w \in Workers :
             IF w \in page.listed /\ Holding(w) # {} THEN c[w] \in Holding(w) ELSE c[w] = NULL
        /\ page' = [page EXCEPT !.step = "shown", !.current = c]
  BY DEF ReadCurrent
<1>2. page \in Page /\ Len(page.rail) <= RailLimit /\ steady \subseteq Tasks /\ page.step = "workers"
  BY DEF DInv, PageOK, ReadCurrent
<1>3. /\ page' \in Page /\ page'.step = "shown" /\ page'.rail = page.rail
      /\ page'.cut = page.cut /\ page'.listed = page.listed /\ page'.current = c
  BY <1>1, <1>2 DEF Page
<1>4. PageOK'
  BY <1>0, <1>2, <1>3 DEF PageOK
<1>5. ASSUME NEW t \in steady, Held(t), row[t].claimedBy \in page.listed
      PROVE  c[row[t].claimedBy] # NULL
  <2> DEFINE w == row[t].claimedBy
  <2>1. t \in Tasks /\ w \in Workers
    BY <1>2, <1>5 DEF Page
  <2>2. t \in Holding(w)
    BY <1>5, <2>1 DEF Holding, HeldBy
  <2>3. c[w] \in Tasks
    BY <1>1, <1>5, <2>1, <2>2 DEF Holding
  <2> QED
    BY <2>3, ViewBounds
<1>6. \A t \in steady : /\ Alive(t)
                        /\ OnQueue(t) \/ (Held(t) /\ row[t].claimedBy \in page.listed)
  BY <1>2 DEF DInv, Showing
<1>7. \A t \in steady : OnQueue(t)' <=> OnQueue(t)
  BY <1>3 DEF OnQueue
<1>8. Showing'
  BY <1>0, <1>2, <1>3, <1>5, <1>6, <1>7 DEF Showing
<1>9. Agent' /\ Walk'
  BY <1>3 DEF Agent, Walk
<1> QED
  BY <1>0, <1>4, <1>8, <1>9 DEF DInv

\* A statement fails: nothing is shown.
LEMMA ReadFailsDInv == DInv /\ ReadFails => DInv'
<1> SUFFICES ASSUME DInv, ReadFails PROVE DInv'
  OBVIOUS
<1>1. IInv' /\ Births' /\ steady' = {} /\ page' = BlankPage("failed")
  BY Reads DEF ReadFails
<1>2. page' \in Page /\ page'.step = "failed" /\ page'.rail = <<>>
  BY <1>1, BlankPageOK
<1>3. PageOK'
  BY <1>1, <1>2, ViewBounds DEF PageOK
<1>4. Showing' /\ Agent' /\ Walk'
  BY <1>2 DEF Showing, Agent, Walk
<1> QED
  BY <1>1, <1>3, <1>4 DEF DInv

\* An agent's page is begun: an agent with a claim is found.
LEMMA WorkerInfoDInv ==
  ASSUME DInv, NEW w \in Workers, WorkerInfo(w)
  PROVE  DInv'
<1>0. /\ row' = row /\ IInv' /\ Births'
      /\ \A t \in Tasks : (Alive(t)' <=> Alive(t)) /\ (Held(t)' <=> Held(t))
  BY Reads DEF WorkerInfo
<1>1. steady' = {t \in Holding(w) : Alive(t)}
  BY DEF WorkerInfo
<1>2. \A t \in steady' : t \in Tasks /\ Held(t) /\ row[t].claimedBy = w
  BY <1>1 DEF Holding, HeldBy
<1>3. CASE AgentFound(w)
  <2>1. page' = [BlankPage("info") EXCEPT !.listed = {w}]
    BY <1>3 DEF WorkerInfo
  <2>2. page' \in Page /\ page'.step = "info" /\ page'.rail = <<>> /\ page'.listed = {w}
    <3>1. BlankPage("info") \in Page /\ BlankPage("info").step = "info" /\ BlankPage("info").rail = <<>>
      BY BlankPageOK
    <3> QED
      BY <2>1, <3>1 DEF Page
  <2>3. PageOK'
    BY <1>2, <2>2, ViewBounds DEF PageOK
  <2>4. Agent'
    BY <1>0, <1>2, <2>2 DEF Agent
  <2>5. Showing' /\ Walk'
    BY <2>2 DEF Showing, Walk
  <2> QED
    BY <1>0, <2>3, <2>4, <2>5 DEF DInv
<1>4. CASE ~AgentFound(w)
  <2>1. page' = BlankPage("unknown")
    BY <1>4 DEF WorkerInfo
  <2>2. page' \in Page /\ page'.step = "unknown" /\ page'.rail = <<>>
    BY <2>1, BlankPageOK
  <2>3. \A t \in Tasks : row[t].claimedBy # w
    BY <1>4, ViewBounds DEF AgentFound, Known
  <2>4. steady' = {}
    BY <1>2, <2>3
  <2>5. PageOK'
    BY <2>2, <2>4, ViewBounds DEF PageOK
  <2>6. Showing' /\ Agent' /\ Walk'
    BY <2>2, <2>4 DEF Showing, Agent, Walk
  <2> QED
    BY <1>0, <2>5, <2>6 DEF DInv
<1> QED
  BY <1>3, <1>4

\* Its current task is read.
LEMMA WorkerCurrentDInv ==
  ASSUME DInv, NEW w \in Workers, WorkerCurrentTask(w)
  PROVE  DInv'
<1>0. /\ row' = row /\ IInv' /\ Births' /\ steady' = steady
      /\ \A t \in Tasks : (Alive(t)' <=> Alive(t)) /\ (Held(t)' <=> Held(t))
  BY Reads DEF WorkerCurrentTask
<1>1. PICK t \in IF Holding(w) = {} THEN {NULL} ELSE Holding(w) :
        page' = [page EXCEPT !.step = "current", !.current[w] = t]
  BY DEF WorkerCurrentTask
<1>2. /\ page \in Page /\ Len(page.rail) <= RailLimit /\ steady \subseteq Tasks
      /\ page.step = "info" /\ w \in page.listed
  BY DEF DInv, PageOK, WorkerCurrentTask
<1>3. t \in Tasks \union {NULL}
  BY <1>1 DEF Holding
<1>4. /\ page' \in Page /\ page'.step = "current" /\ page'.rail = page.rail
      /\ page'.listed = page.listed /\ page'.current[w] = t
  <2> DEFINE c == [page.current EXCEPT ![w] = t]
  <2>1. c \in [Workers -> Tasks \union {NULL}] /\ c[w] = t
    BY <1>2, <1>3 DEF Page
  <2>2. page' = [page EXCEPT !.step = "current", !.current = c]
    BY <1>1, <1>2 DEF Page
  <2> HIDE DEF c
  <2> QED
    BY <1>2, <2>1, <2>2 DEF Page
<1>5. page.listed = {w} /\ \A u \in steady : Held(u) /\ row[u].claimedBy = w
  BY <1>2 DEF DInv, Agent
<1>6. ASSUME steady # {} PROVE t # NULL
  <2>1. Holding(w) # {}
    BY <1>2, <1>5, <1>6 DEF Holding, HeldBy
  <2>2. t \in Tasks
    BY <1>1, <2>1 DEF Holding
  <2> QED
    BY <2>2, ViewBounds
<1>7. PageOK'
  BY <1>0, <1>2, <1>4 DEF PageOK
<1>8. Agent'
  BY <1>0, <1>2, <1>4, <1>5, <1>6 DEF Agent
<1>9. Showing' /\ Walk'
  BY <1>4 DEF Showing, Walk
<1> QED
  BY <1>0, <1>7, <1>8, <1>9 DEF DInv

\* Its recent tasks are read: all that name it, or as many as fit.
LEMMA WorkerRecentDInv ==
  ASSUME DInv, NEW w \in Workers, WorkerRecentTasks(w)
  PROVE  DInv'
<1>0. /\ row' = row /\ IInv' /\ Births' /\ steady' = steady
      /\ \A t \in Tasks : (Alive(t)' <=> Alive(t)) /\ (Held(t)' <=> Held(t))
  BY Reads DEF WorkerRecentTasks
<1> DEFINE named == {t \in Tasks : row[t].claimedBy = w}
           n == Cardinality(named)
<1>1. PICK recent \in SUBSET named :
        /\ Cardinality(recent) = IF n < RecentLimit THEN n ELSE RecentLimit
        /\ page' = [page EXCEPT !.step = "agent", !.seen = recent]
  BY DEF WorkerRecentTasks
<1>2. /\ page \in Page /\ Len(page.rail) <= RailLimit /\ steady \subseteq Tasks
      /\ page.step = "current" /\ w \in page.listed
  BY DEF DInv, PageOK, WorkerRecentTasks
<1>3. /\ page' \in Page /\ page'.step = "agent" /\ page'.rail = page.rail
      /\ page'.listed = page.listed /\ page'.current = page.current /\ page'.seen = recent
  BY <1>1, <1>2 DEF Page
<1>4. /\ page.listed = {w} /\ \A u \in steady : Held(u) /\ row[u].claimedBy = w
      /\ steady # {} => page.current[w] # NULL
  BY <1>2 DEF DInv, Agent
<1>5. ASSUME NEW t \in steady, t \notin recent
      PROVE  Cardinality(recent) = RecentLimit
  <2>1. t \in named /\ named \in SUBSET Tasks
    BY <1>2, <1>4, <1>5
  <2> HIDE DEF named
  <2>2. IsFiniteSet(named)
    BY <2>1, ViewBounds, FS_Subset
  <2>3. Cardinality(recent) # n
    BY <1>5, <2>1, <2>2, FS_Subset
  <2> QED
    BY <1>1, <2>3
<1>6. PageOK'
  BY <1>0, <1>2, <1>3 DEF PageOK
<1>7. Agent'
  BY <1>0, <1>2, <1>3, <1>4, <1>5 DEF Agent
<1>8. Showing' /\ Walk'
  BY <1>3 DEF Showing, Walk
<1> QED
  BY <1>0, <1>6, <1>7, <1>8 DEF DInv

\* One page of the list is read. If its rows broke off, what is still owed has
\* been seen; if not, nothing below its end is left unseen, and if it is short,
\* nothing is above its end.
LEMMA ListStepDInv ==
  ASSUME DInv, UNCHANGED storeVars, NEW seen, NEW offset \in Nat, NEW owed,
         ListStep(seen, offset, owed), seen \subseteq Tasks, owed \subseteq Present,
         \A t \in owed : Rank(Present, t) < offset => t \in seen
  PROVE  DInv'
<1>0. row' = row /\ IInv' /\ Births' /\ Present' = Present
  BY Reads
<1> DEFINE P == ListPage(offset)
<1>a. PICK got \in Arrived(P) :
        /\ page' = [BlankPage(IF Cardinality(got) < PageLimit THEN "listed" ELSE "list")
                      EXCEPT !.seen = seen \union got, !.offset = offset + PageLimit]
        /\ steady' = IF got = P THEN owed ELSE {t \in owed : Rank(Present, t) < offset}
  BY DEF ListStep
<1> DEFINE s == IF Cardinality(got) < PageLimit THEN "listed" ELSE "list"
<1>1. page' = [BlankPage(s) EXCEPT !.seen = seen \union got, !.offset = offset + PageLimit]
  BY <1>a
<1>2. Dated(Present)
  BY PresentDated DEF DInv
<1>3. /\ P \in SUBSET Present /\ Present \subseteq Tasks
      /\ \A t \in Present : Rank(Present, t) \in Nat
      /\ \A t \in Present : Rank(Present, t) \in offset .. offset + PageLimit - 1 => t \in P
  BY <1>2, RankType DEF ListPage, Slice, Present
<1>4. Cardinality(P) < PageLimit => \A t \in Present : Rank(Present, t) < offset + PageLimit
  BY <1>2, SliceSize, ViewBounds DEF ListPage
<1> HIDE DEF P
<1>b. got \in SUBSET P /\ steady' \subseteq owed
  BY <1>a DEF Arrived
<1>5. s \in {"list", "listed"} /\ (s = "listed" => Cardinality(got) < PageLimit)
  OBVIOUS
<1> HIDE DEF s
<1>6. /\ page' \in Page /\ page'.step = s /\ page'.rail = <<>>
      /\ page'.seen = seen \union got /\ page'.offset = offset + PageLimit
  <2>1. BlankPage(s) \in Page /\ BlankPage(s).step = s /\ BlankPage(s).rail = <<>>
    BY <1>5, BlankPageOK
  <2>2. seen \union got \in SUBSET Tasks /\ offset + PageLimit \in Nat
    BY <1>3, <1>b, ViewBounds
  <2> QED
    BY <1>1, <2>1, <2>2 DEF Page
<1>7. PageOK'
  BY <1>3, <1>6, <1>b, ViewBounds DEF PageOK
<1>8. ASSUME NEW t \in steady', Rank(Present, t) < offset + PageLimit
      PROVE  t \in page'.seen
  <2>1. t \in owed /\ t \in Present /\ Rank(Present, t) \in Nat
    BY <1>3, <1>b
  <2>2. CASE Rank(Present, t) < offset
    BY <1>6, <2>1, <2>2
  <2>3. CASE ~(Rank(Present, t) < offset)
    <3>1. Rank(Present, t) \in offset .. offset + PageLimit - 1
      BY <1>8, <2>1, <2>3, ViewBounds
    <3>2. got = P
      BY <1>a, <2>3
    <3> QED
      BY <1>3, <1>6, <2>1, <3>1, <3>2
  <2> QED
    BY <2>2, <2>3
<1>9. \A t \in Present : Rank(Present, t)' = Rank(Present, t)
  BY <1>0 DEF Rank, ListOrder
<1>10. Walk'
  <2>1. CASE s = "list"
    BY <1>0, <1>6, <1>8, <1>9, <1>b, <2>1 DEF Walk
  <2>2. CASE s = "listed"
    <3>1. ASSUME NEW t \in steady' PROVE Rank(Present, t) < offset + PageLimit
      <4>1. t \in Present /\ Rank(Present, t) \in Nat
        BY <1>3, <1>b
      <4>2. CASE got = P
        BY <1>4, <1>5, <2>2, <4>1, <4>2
      <4>3. CASE got # P
        <5>1. Rank(Present, t) < offset
          BY <1>a, <4>3
        <5> QED
          BY <4>1, <5>1, ViewBounds
      <4> QED
        BY <4>2, <4>3
    <3> QED
      BY <1>6, <1>8, <2>2, <3>1 DEF Walk
  <2> QED
    BY <1>5, <2>1, <2>2
<1>11. Showing' /\ Agent'
  BY <1>5, <1>6 DEF Showing, Agent
<1> QED
  BY <1>0, <1>7, <1>10, <1>11 DEF DInv

\* The walk is begun.
LEMMA TasksListDInv == DInv /\ TasksList => DInv'
<1> SUFFICES ASSUME DInv, TasksList PROVE DInv'
  OBVIOUS
<1>1. Dated(Present)
  BY PresentDated DEF DInv
<1>2. \A t \in Present : ~(Rank(Present, t) < 0)
  BY <1>1, RankType
<1>3. UNCHANGED storeVars /\ ListStep({}, 0, Present)
  BY DEF TasksList
<1> QED
  BY <1>2, <1>3, ListStepDInv

\* The walk goes on.
LEMMA ListNextDInv == DInv /\ ListNext => DInv'
<1> SUFFICES ASSUME DInv, ListNext PROVE DInv'
  OBVIOUS
<1>1. /\ UNCHANGED storeVars /\ ListStep(page.seen, page.offset, steady)
      /\ page.step = "list"
  BY DEF ListNext
<1>2. page.seen \subseteq Tasks /\ page.offset \in Nat
  BY DEF DInv, PageOK, Page
<1>3. /\ steady \subseteq Present
      /\ \A t \in steady : Rank(Present, t) < page.offset => t \in page.seen
  BY <1>1 DEF DInv, Walk
<1> QED
  BY <1>1, <1>2, <1>3, ListStepDInv

-----------------------------------------------------------------------------
(* The queue goes on while a view is read *)

\* A claim on a page stays with its holder as long as it is kept track of.
LEMMA HolderStays ==
  ASSUME IInv, [Next]_vars, NEW t \in Tasks, Held(t), Alive(t)', row'[t].status # "pending"
  PROVE  Held(t)' /\ row'[t].claimedBy = row[t].claimedBy
<1>1. row'[t].status \in Active
  BY DEF Alive, Held
<1>2. HeldBy(t, row'[t].claimedBy)
  BY <1>1, HandoverStep DEF Eligible, Held, Active
<1> QED
  BY <1>1, <1>2 DEF HeldBy, Held

LEMMA StoreStepDInv == DInv /\ StoreStep => DInv'
<1> SUFFICES ASSUME DInv, StoreStep PROVE DInv'
  OBVIOUS
<1>0. IInv /\ Births /\ [Next]_vars /\ page' = page /\ steady \subseteq Tasks
  BY DEF DInv, PageOK, StoreStep
<1>1. IInv' /\ Births'
  BY <1>0, NextIInv, BirthsNext
<1>2. CASE page.step = "list"
  <2>1. steady' = IF Present \subseteq Present' THEN steady ELSE {}
    BY <1>2 DEF StoreStep
  <2>2. PageOK'
    BY <1>0, <2>1 DEF DInv, PageOK
  <2>3. Showing' /\ Agent'
    BY <1>0, <1>2 DEF Showing, Agent
  <2>4. /\ steady \subseteq Present
        /\ \A t \in steady : Rank(Present, t) < page.offset => t \in page.seen
    BY <1>2 DEF DInv, Walk
  <2>5. ASSUME NEW t \in steady', Rank(Present, t)' < page.offset
        PROVE  t \in page.seen
    <3>1. t \in steady /\ t \in Present /\ Present \subseteq Present'
      BY <2>1, <2>4
    <3>2. /\ Rank(Present, t) \in Nat /\ Rank(Present, t)' \in Nat
          /\ Rank(Present, t) <= Rank(Present, t)'
      BY <1>0, <3>1, RankGrows
    <3>3. page.offset \in Nat
      BY DEF DInv, PageOK, Page
    <3>4. Rank(Present, t) < page.offset
      BY <2>5, <3>2, <3>3
    <3> QED
      BY <2>4, <3>1, <3>4
  <2>6. steady' \subseteq Present'
    BY <2>1, <2>4
  <2>7. Walk'
    BY <1>0, <1>2, <2>5, <2>6 DEF Walk
  <2> QED
    BY <1>1, <2>2, <2>3, <2>7 DEF DInv
<1>3. CASE page.step = "listed"
  <2>1. steady' = steady
    BY <1>3 DEF StoreStep
  <2> QED
    BY <1>0, <1>1, <1>3, <2>1 DEF DInv, PageOK, Showing, Agent, Walk
<1>4. CASE page.step \notin {"list", "listed"}
  <2>1. steady' = {t \in steady : Alive(t)' /\ ~(Held(t) /\ row'[t].status = "pending")}
    BY <1>4 DEF StoreStep
  <2>2. PageOK'
    BY <1>0, <2>1 DEF DInv, PageOK
  <2>3. Walk'
    BY <1>0, <1>4 DEF Walk
  <2>4. ASSUME NEW t \in steady'
        PROVE  /\ t \in steady /\ Alive(t)'
               /\ Held(t) => Held(t)' /\ row'[t].claimedBy = row[t].claimedBy
    BY <1>0, <2>1, HolderStays
  <2>5. \A t : OnQueue(t)' <=> OnQueue(t)
    BY <1>0 DEF OnQueue
  <2>6. Showing'
    BY <1>0, <2>4, <2>5 DEF DInv, Showing
  <2>7. Agent'
    BY <1>0, <2>4 DEF DInv, Agent
  <2> QED
    BY <1>1, <2>2, <2>3, <2>6, <2>7 DEF DInv
<1> QED
  BY <1>2, <1>3, <1>4

\* No view is open at first.
LEMMA InitDInv == ViewInit => DInv
<1> SUFFICES ASSUME ViewInit PROVE DInv
  OBVIOUS
<1>1. IInv
  BY InitIInv DEF ViewInit
<1>2. Present = {}
  BY DEF ViewInit, Init, Present, Blank, Absent
<1>3. Births
  BY <1>2 DEF Births
<1>4. page \in Page /\ page.step = "none" /\ page.rail = <<>> /\ steady = {}
  BY BlankPageOK DEF ViewInit
<1>5. PageOK
  BY <1>4, ViewBounds DEF PageOK
<1>6. Showing /\ Agent /\ Walk
  BY <1>4 DEF Showing, Agent, Walk
<1> QED
  BY <1>1, <1>3, <1>5, <1>6 DEF DInv

\* The invariant is inductive.
LEMMA NextDInv == DInv /\ [ViewNext]_viewVars => DInv'
<1> SUFFICES ASSUME DInv, [ViewNext]_viewVars PROVE DInv'
  OBVIOUS
<1>1. ASSUME NEW w \in Workers, GetAgentDetail(w) PROVE DInv'
  BY <1>1, WorkerInfoDInv, WorkerCurrentDInv, WorkerRecentDInv DEF GetAgentDetail
<1>2. CASE UNCHANGED viewVars
  <2>1. /\ row' = row /\ IInv' /\ Births' /\ Present' = Present
        /\ \A t \in Tasks : (Alive(t)' <=> Alive(t)) /\ (Held(t)' <=> Held(t))
    BY <1>2, Reads DEF viewVars
  <2>2. page' = page /\ steady' = steady /\ steady \subseteq Tasks
    BY <1>2 DEF viewVars, DInv, PageOK
  <2>3. PageOK'
    BY <2>2 DEF DInv, PageOK
  <2>4. Showing'
    BY <2>1, <2>2 DEF DInv, Showing, OnQueue
  <2>5. Agent'
    BY <2>1, <2>2 DEF DInv, Agent
  <2>6. \A t \in Present : Rank(Present, t)' = Rank(Present, t)
    BY <2>1 DEF Rank, ListOrder
  <2>7. Walk'
    BY <2>1, <2>2, <2>6 DEF DInv, Walk
  <2> QED
    BY <2>1, <2>3, <2>4, <2>5, <2>7 DEF DInv
<1> QED
  BY <1>1, <1>2, ReadQueueDInv, ReadWorkersDInv, ReadCurrentDInv, ReadFailsDInv,
     TasksListDInv, ListNextDInv, StoreStepDInv DEF ViewNext

LEMMA ViewInvariant == ViewSpec => []DInv
BY InitDInv, NextDInv, PTL DEF ViewSpec

\* A rail is sorted when it is read, and neither the cards nor the dates of the
\* tasks change after that.
LEMMA CardsNext ==
  ASSUME DInv, Cards, [ViewNext]_viewVars
  PROVE  Cards'
<1>0. page \in Page /\ IInv /\ Births
  BY DEF DInv, PageOK
<1>1. ASSUME page'.rail = <<>> PROVE Cards'
  BY <1>1 DEF Cards
<1>2. ASSUME UNCHANGED storeVars, page'.rail = page.rail, page'.prio = page.prio PROVE Cards'
  <2>1. row' = row /\ Present' = Present
    BY <1>2, Reads
  <2> QED
    BY <1>2, <2>1 DEF Cards, Ordered
<1>3. CASE ReadQueue
  <2>0. PICK got \in Arrived(Newest(Pending)) : \E rail \in Listings(got) :
          page' = [BlankPage("queue") EXCEPT
                     !.rail = rail, !.prio = [i \in DOMAIN rail |-> row[rail[i]].priority],
                     !.cut = Pending \ Newest(Pending)]
    BY <1>3 DEF ReadQueue
  <2>1. PICK rail \in Listings(got) :
          page' = [BlankPage("queue") EXCEPT
                     !.rail = rail, !.prio = [i \in DOMAIN rail |-> row[rail[i]].priority],
                     !.cut = Pending \ Newest(Pending)]
    BY <2>0
  <2>2. row' = row /\ got \subseteq Pending
    BY <1>3 DEF ReadQueue, storeVars, vars, Arrived, Newest, Slice
  <2>3. /\ page'.rail = rail
        /\ page'.prio = [i \in DOMAIN rail |-> row[rail[i]].priority]
    BY <2>1 DEF BlankPage
  <2>4. \A i \in DOMAIN rail : rail[i] \in Pending
    BY <2>2 DEF Listings
  <2>5. \A i, j \in DOMAIN rail : i < j => LessQueue(rail[i], rail[j])
    BY DEF Listings
  <2>6. \A i, j \in DOMAIN rail : i < j => Ordered(i, j)'
    BY <2>2, <2>3, <2>5 DEF LessQueue, Ordered
  <2>7. \A i \in DOMAIN rail : row'[rail[i]].status # "unborn"
    BY <2>2, <2>4 DEF Pending
  <2> QED
    BY <2>3, <2>6, <2>7 DEF Cards
<1>4. CASE ReadWorkers \/ ReadCurrent
  BY <1>0, <1>2, <1>4 DEF ReadWorkers, ReadCurrent, Page
<1>5. CASE ReadFails
  BY <1>1, <1>5 DEF ReadFails, BlankPage
<1>6. ASSUME NEW w \in Workers, GetAgentDetail(w) PROVE Cards'
  <2>1. CASE WorkerInfo(w)
    BY <1>1, <2>1 DEF WorkerInfo, BlankPage
  <2>2. CASE WorkerCurrentTask(w) \/ WorkerRecentTasks(w)
    BY <1>0, <1>2, <2>2 DEF WorkerCurrentTask, WorkerRecentTasks, Page
  <2> QED
    BY <1>6, <2>1, <2>2 DEF GetAgentDetail
<1>7. CASE TasksList \/ ListNext
  BY <1>1, <1>7 DEF TasksList, ListNext, ListStep, BlankPage
<1>8. CASE StoreStep
  <2>1. page' = page /\ [Next]_vars
    BY <1>8 DEF StoreStep
  <2>2. \A i \in DOMAIN page.rail : page.rail[i] \in Tasks
    BY <1>0 DEF Page
  <2>3. \A t \in Tasks : row[t].status # "unborn" =>
          row'[t].status # "unborn" /\ (t \in Present' => t \in Present)
    BY <1>0, <2>1, BirthsNext
  <2>4. \A t \in Present : t \in Present' => row'[t].created = row[t].created
    BY <1>0, <2>1, BirthsNext
  <2>5. \A i \in DOMAIN page.rail : row[page.rail[i]].status # "unborn"
    BY DEF Cards
  <2>6. ASSUME NEW i \in DOMAIN page.rail, NEW j \in DOMAIN page.rail, i < j,
               {page.rail[i], page.rail[j]} \subseteq Present'
        PROVE  Ordered(i, j)'
    <3>1. page.rail[i] \in Present /\ page.rail[j] \in Present
      BY <2>2, <2>3, <2>5, <2>6
    <3>2. Ordered(i, j)
      BY <2>6, <3>1 DEF Cards
    <3> QED
      BY <2>1, <2>4, <2>6, <3>1, <3>2 DEF Ordered
  <2> QED
    BY <2>1, <2>2, <2>3, <2>5, <2>6 DEF Cards
<1>9. CASE UNCHANGED viewVars
  BY <1>2, <1>9 DEF viewVars
<1> QED
  BY <1>3, <1>4, <1>5, <1>6, <1>7, <1>8, <1>9 DEF ViewNext

LEMMA CardsInvariant == ViewSpec => []Cards
<1>1. ViewInit => Cards
  BY DEF ViewInit, BlankPage, Cards
<1> QED
  BY <1>1, CardsNext, ViewInvariant, PTL DEF ViewSpec

-----------------------------------------------------------------------------
(* Theorems *)

\* A page is made of tasks and workers, and a dashboard never lists more than
\* the limit of its query.
THEOREM PageOKHolds == ViewSpec => []PageOK
<1>1. DInv => PageOK
  BY DEF DInv
<1> QED
  BY <1>1, ViewInvariant, PTL

\* Nothing that is to be done, or being done under a live lease, falls between
\* the statements of GetDashboard.
THEOREM NothingVanishesHolds == ViewSpec => []NothingVanishes
<1>1. DInv => NothingVanishes
  BY DEF DInv, Showing, NothingVanishes, OnQueue
<1> QED
  BY <1>1, ViewInvariant, PTL

\* Of two tasks that wait as shown, a claim comes to the upper one first.
THEOREM RailPredictsClaimHolds == ViewSpec => []RailPredictsClaim
<1>1. DInv /\ Cards => RailPredictsClaim
  <2> SUFFICES ASSUME DInv, Cards, NEW i \in DOMAIN page.rail, NEW j \in DOMAIN page.rail,
                      i < j, AsShown(i), AsShown(j)
               PROVE  Before(page.rail[i], page.rail[j])
    BY DEF RailPredictsClaim
  <2>1. {page.rail[i], page.rail[j]} \subseteq Present
    BY DEF AsShown, Pending, Present, Absent
  <2>2. Ordered(i, j)
    BY <2>1 DEF Cards
  <2> QED
    BY <2>2 DEF Ordered, AsShown, Before
<1> QED
  BY <1>1, ViewInvariant, CardsInvariant, PTL

\* An agent that keeps a claim while its page is put together is found and shown
\* busy, and the claim is listed unless the page is full.
THEOREM AgentPageWholeHolds == ViewSpec => []AgentPageWhole
<1>1. DInv => AgentPageWhole
  BY DEF DInv, Agent, AgentPageWhole
<1> QED
  BY <1>1, ViewInvariant, PTL

\* A walk by offset sees every task that was there when it began, unless one is
\* deleted meanwhile.
THEOREM ListMissesNothingHolds == ViewSpec => []ListMissesNothing
<1>1. DInv => ListMissesNothing
  BY DEF DInv, Walk, ListMissesNothing
<1> QED
  BY <1>1, ViewInvariant, PTL

-----------------------------------------------------------------------------
(* The statement of a claim *)

\* A claim has the tasks in calm still ahead of it, in the order of its sort,
\* which is still their order.
Reading(s) ==
  /\ scan[s].step = "idle" => calm[s] = {}
  /\ scan[s].step # "idle" => scan[s].worker \in Workers
  /\ scan[s].step = "scanning" => calm[s] \subseteq scan[s].rest
  /\ \A t, u \in calm[s] : <<t, u>> \in scan[s].ahead => Before(t, u)
  /\ scan[s].task \in calm[s] =>
       \A u \in calm[s] \ {scan[s].task} : <<scan[s].task, u>> \in scan[s].ahead

\* A row that a claim has picked waits for its UPDATE.
Kept ==
  /\ \A t \in Picked : Eligible(t) /\ t \notin locked
  /\ \A s, r \in Scans : scan[s].task = scan[r].task /\ scan[s].task # NULL => s = r

\* The inductive invariant.
CInv == IInv /\ ClaimTypeOK /\ (\A s \in Scans : Reading(s)) /\ Kept

\* An operator's or a holder's statement writes one row.
LEMMA WritesOne ==
  ASSUME NEW t \in Tasks, OperatorNext(t) \/ \E w \in Workers : HolderNext(w, t)
  PROVE  tx' = tx /\ \E r : SetRow(t, r)
<1>1. CASE OperatorNext(t)
  BY <1>1 DEF OperatorNext, CreateTask, UpdateTask, RequeueTask, DeleteTask, RequestReview, FinalizeTask
<1>2. ASSUME NEW w \in Workers, HolderNext(w, t) PROVE tx' = tx /\ \E r : SetRow(t, r)
  BY <1>2 DEF HolderNext, Heartbeat, SetJiraURL, OpenPR, UpdateProgress, ReportResult
<1> QED
  BY <1>1, <1>2

\* Where the tables do not change, nor does what a claim finds in them.
LEMMA SameRows ==
  ASSUME row' = row, tx' = tx
  PROVE  /\ \A t : (Eligible(t)' <=> Eligible(t)) /\ (Waiting(t)' <=> Waiting(t))
         /\ \A t, u : Before(t, u)' <=> Before(t, u)
BY DEF Eligible, Waiting, Before, KeyShared

\* Another statement keeps off a row that a claim has picked.
LEMMA OtherKeeps ==
  ASSUME CInv, Other
  PROVE  /\ UNCHANGED scan
         /\ \A t \in Picked : Eligible(t)' /\ t \notin locked'
<1>0. /\ scan' = scan /\ row \in [Tasks -> Row] /\ tx \in [Conns -> Transaction]
      /\ \A t \in Picked : t \in Tasks /\ Eligible(t) /\ t \notin locked
  BY DEF CInv, IInv, TypeOK, ClaimTypeOK, Scan, Picked, Kept, Other, Lock, Unlock, Writer, LogStatement, Releases
<1> SUFFICES ASSUME NEW t \in Picked PROVE Eligible(t)' /\ t \notin locked'
  BY <1>0
<1>1. ASSUME row'[t] = row[t], KeyShared(t)' => KeyShared(t), locked' \subseteq locked
      PROVE  Eligible(t)' /\ t \notin locked'
  BY <1>0, <1>1 DEF Eligible
<1>2. ASSUME NEW u \in Tasks, Lock(u) PROVE Eligible(t)' /\ t \notin locked'
  BY <1>0, <1>2, SameRows DEF Lock, vars
<1>3. ASSUME NEW u \in Tasks, Unlock(u) PROVE Eligible(t)' /\ t \notin locked'
  BY <1>0, <1>3, SameRows DEF Unlock, vars
<1>4. ASSUME NEW u \in Tasks, Writer(u) PROVE Eligible(t)' /\ t \notin locked'
  <2>1. tx' = tx /\ \E r : SetRow(u, r)
    BY <1>4, WritesOne DEF Writer
  <2>2. row'[t] = row[t]
    BY <1>0, <1>4, <2>1 DEF SetRow, Writer
  <2> QED
    BY <1>1, <1>4, <2>1, <2>2 DEF Writer, Releases, KeyShared
<1>5. ASSUME NEW w \in Workers, Crash(w) /\ Releases({}) PROVE Eligible(t)' /\ t \notin locked'
  BY <1>1, <1>5 DEF Crash, Releases, KeyShared
<1>6. ASSUME NEW c \in Conns, LogStatement(c) PROVE Eligible(t)' /\ t \notin locked'
  <2>1. locked' \subseteq locked
    BY <1>6 DEF LogStatement, Releases
  <2>2. CASE (\E w \in Workers, u \in Tasks : LogBegin(c, w, u)) \/ LogCheck(c) \/ LogAbort(c)
    <3>1. row' = row /\ \E e : SetTx(c, e) /\ e.step # "inserted"
      <4>1. ASSUME NEW w \in Workers, NEW u \in Tasks, LogBegin(c, w, u)
            PROVE  row' = row /\ \E e : SetTx(c, e) /\ e.step # "inserted"
        BY <4>1 DEF LogBegin
      <4>2. CASE LogCheck(c)
        BY <1>0, <4>2 DEF LogCheck, NoTx, Transaction
      <4>3. CASE LogAbort(c)
        BY <4>3 DEF LogAbort, NoTx
      <4> QED
        BY <2>2, <4>1, <4>2, <4>3
    <3>2. KeyShared(t)' => KeyShared(t)
      BY <1>0, <3>1 DEF KeyShared, SetTx
    <3> QED
      BY <1>1, <2>1, <3>1, <3>2
  <2>3. CASE LogInsert(c) /\ tx[c].task \notin Picked
    <3>1. row' = row /\ \E e : SetTx(c, e) /\ (e.task = t => e.step # "inserted")
      BY <1>0, <2>3 DEF LogInsert, NoTx, Transaction
    <3>2. KeyShared(t)' => KeyShared(t)
      BY <1>0, <3>1 DEF KeyShared, SetTx
    <3> QED
      BY <1>1, <2>1, <3>1, <3>2
  <2>4. CASE LogCommit(c)
    <3>1. tx[c].task # t
      BY <1>0, <2>4 DEF LogCommit, Eligible, KeyShared
    <3>2. row'[t] = row[t]
      BY <1>0, <2>4, <3>1 DEF LogCommit, SetRow
    <3>3. KeyShared(t)' => KeyShared(t)
      BY <1>0, <2>4 DEF LogCommit, KeyShared, SetTx, NoTx
    <3> QED
      BY <1>1, <2>1, <3>2, <3>3
  <2> QED
    BY <1>6, <2>2, <2>3, <2>4 DEF LogStatement
<1>7. CASE ReapStale /\ Releases(Stale)
  <2>1. t \notin Stale
    BY <1>0 DEF Eligible, Stale, Expired, Active
  <2> QED
    BY <1>0, <1>1, <1>7, <2>1 DEF ReapStale, Releases, KeyShared
<1>8. CASE Tick /\ (\A s \in Scans : scan[s].step = "idle") /\ Releases({})
  BY <1>8 DEF Picked, CInv, ClaimTypeOK
<1> QED
  BY <1>2, <1>3, <1>4, <1>5, <1>6, <1>7, <1>8 DEF Other

\* A step is one of the store, or invisible to it: what a claim writes, it may.
LEMMA ClaimSteps ==
  ASSUME CInv, [ClaimNext]_claimVars
  PROVE  [Next]_vars
<1>1. ASSUME NEW s \in Scans, NEW d \in BOOLEAN, Commit(s, d) PROVE Next
  <2> DEFINE t == scan[s].task
             w == scan[s].worker
  <2>1. w \in Workers /\ t \in Tasks /\ t \in Picked
    BY <1>1 DEF Commit, CInv, Reading, ClaimTypeOK, Scan, Picked
  <2>2. Eligible(t)
    BY <2>1 DEF CInv, Kept
  <2>3. ClaimTask(w, t, d)
    BY <1>1, <2>2 DEF Commit, ClaimTask
  <2> QED
    BY <2>1, <2>3 DEF Next, WorkerNext
<1>2. ASSUME NEW s \in Scans, ScanNext(s) PROVE [Next]_vars
  BY <1>1, <1>2 DEF ScanNext, Begin, PassOver, Pick, Nothing, Abort
<1>3. CASE Other
  BY <1>3 DEF Other, Lock, Unlock, Writer, LogStatement, Next, WorkerNext, LogNext
<1> QED
  BY <1>2, <1>3 DEF ClaimNext, claimVars, vars

\* A claim that does not move on keeps its order: what is written leaves calm.
LEMMA OthersRead ==
  ASSUME CInv, NEW s \in Scans, scan'[s] = scan[s], calm'[s] = StillCalm(s)
  PROVE  Reading(s)'
<1>1. Reading(s)
  BY DEF CInv
<1>2. CASE scan[s].step = "idle"
  <2>1. calm'[s] = {}
    BY <1>2 DEF StillCalm
  <2> QED
    BY <1>2, <2>1 DEF Reading
<1>3. CASE scan[s].step # "idle"
  <2>1. calm'[s] \subseteq calm[s] /\ \A t \in calm'[s] : row'[t] = row[t]
    BY <1>3 DEF StillCalm, Undisturbed
  <2> QED
    BY <1>1, <1>3, <2>1 DEF Reading, Before
<1> QED
  BY <1>2, <1>3

\* A claim that moves on.
LEMMA ScanReads ==
  ASSUME CInv, NEW s \in Scans, ScanNext(s), calm'[s] = StillCalm(s)
  PROVE  Reading(s)'
<1>0. /\ scan \in [Scans -> Scan] /\ Reading(s)
      /\ scan[s].step = "picked" <=> scan[s].task # NULL
      /\ calm[s] \subseteq Tasks
  BY DEF CInv, ClaimTypeOK
<1>1. ASSUME scan'[s].step = "idle" PROVE Reading(s)'
  <2>1. calm'[s] = {}
    BY <1>1 DEF StillCalm
  <2> QED
    BY <1>1, <2>1 DEF Reading
<1>2. ASSUME NEW w \in Workers, Begin(s, w) PROVE Reading(s)'
  <2> DEFINE found == {t \in Tasks : Waiting(t)}
             sort  == {p \in found \X found : Before(p[1], p[2])}
  <2>1. /\ scan[s].step = "idle" /\ row' = row /\ tx' = tx
        /\ scan'[s] = [step |-> "scanning", worker |-> w, rest |-> found, task |-> NULL, ahead |-> sort]
    BY <1>0, <1>2 DEF Begin, SetScan, vars
  <2>2. calm'[s] \subseteq found
    BY <2>1 DEF StillCalm, Undisturbed, Eligible, Waiting
  <2>3. NULL \notin calm'[s]
    BY <2>2, ClaimAssumption
  <2>4. \A t, u : <<t, u>> \in sort => Before(t, u)'
    BY <2>1, SameRows
  <2> HIDE DEF found, sort
  <2> QED
    BY <2>1, <2>2, <2>3, <2>4 DEF Reading
<1>3. ASSUME scan[s].step # "idle", UNCHANGED vars
      PROVE  /\ calm'[s] \subseteq calm[s]
             /\ \A t, u : Before(t, u)' <=> Before(t, u)
  BY <1>3, SameRows DEF StillCalm, vars
<1>4. CASE PassOver(s)
  <2>1. PICK t \in Tasks : /\ Foremost(s, t) /\ ~Free(t)
                           /\ SetScan(s, [scan[s] EXCEPT !.rest = @ \ {t}])
    BY <1>4 DEF PassOver
  <2>2. /\ scan[s].step = "scanning" /\ scan[s].task = NULL
        /\ row' = row /\ tx' = tx /\ locked' = locked /\ UNCHANGED vars
    BY <1>0, <1>4 DEF PassOver, Foremost, vars
  <2>3. /\ scan'[s] = [scan[s] EXCEPT !.rest = @ \ {t}]
        /\ \A r \in Scans \ {s} : scan'[r] = scan[r]
    BY <1>0, <2>1 DEF SetScan
  <2>4. t \notin calm'[s]
    <3> SUFFICES ASSUME t \in calm'[s] PROVE FALSE
      OBVIOUS
    <3>1. Undisturbed(s, t)
      BY <2>2, <2>3, <1>0 DEF StillCalm, Scan
    <3>2. Eligible(t) /\ t \notin locked
      BY <2>2, <3>1, SameRows DEF Undisturbed
    <3>3. PICK r \in Scans : scan[r].task = t
      BY <2>1, <3>2 DEF Free, Picked
    <3>4. r # s
      BY <2>2, <3>3, ClaimAssumption
    <3> QED
      BY <2>3, <3>1, <3>3, <3>4 DEF Undisturbed
  <2>5. /\ scan'[s].step = "scanning" /\ scan'[s].task = NULL /\ scan'[s].worker = scan[s].worker
        /\ scan'[s].rest = scan[s].rest \ {t} /\ scan'[s].ahead = scan[s].ahead
    BY <1>0, <2>2, <2>3 DEF Scan
  <2>6. /\ calm'[s] \subseteq calm[s] /\ NULL \notin calm'[s]
        /\ \A x, u : Before(x, u)' <=> Before(x, u)
    BY <1>0, <1>3, <2>2, ClaimAssumption
  <2> QED
    BY <1>0, <2>2, <2>4, <2>5, <2>6 DEF Reading
<1>5. CASE Pick(s)
  <2>1. PICK t \in Tasks : /\ Foremost(s, t) /\ Free(t)
                           /\ SetScan(s, [scan[s] EXCEPT !.step = "picked", !.task = t])
    BY <1>5 DEF Pick
  <2>2. /\ scan[s].step = "scanning" /\ UNCHANGED vars
        /\ \A u \in scan[s].rest \ {t} : <<t, u>> \in scan[s].ahead
    BY <1>5, <2>1 DEF Pick, Foremost
  <2>3. /\ scan'[s].step = "picked" /\ scan'[s].task = t /\ scan'[s].worker = scan[s].worker
        /\ scan'[s].ahead = scan[s].ahead
    BY <1>0, <2>1 DEF SetScan, Scan
  <2>4. calm'[s] \subseteq calm[s] /\ \A x, u : Before(x, u)' <=> Before(x, u)
    BY <1>3, <2>2
  <2> QED
    BY <1>0, <2>2, <2>3, <2>4 DEF Reading
<1>6. CASE Nothing(s) \/ Abort(s) \/ \E d \in BOOLEAN : Commit(s, d)
  <2>1. scan'[s] = NoScan
    BY <1>0, <1>6 DEF Nothing, Abort, Commit, SetScan
  <2> QED
    BY <1>1, <2>1 DEF NoScan
<1> QED
  BY <1>2, <1>4, <1>5, <1>6 DEF ScanNext


\* Claims, locks and the rows left alone stay well formed.
LEMMA ClaimTypes ==
  ASSUME CInv, IInv', [ClaimNext]_claimVars
  PROVE  ClaimTypeOK'
<1>0. ClaimTypeOK
  BY DEF CInv
<1>1. CASE UNCHANGED claimVars
  BY <1>0, <1>1 DEF claimVars, ClaimTypeOK
<1>2. CASE ClaimNext
  <2>1. \A s \in Scans : StillCalm(s) \in SUBSET Tasks
    BY <1>0 DEF StillCalm, ClaimTypeOK
  <2>2. calm' \in [Scans -> SUBSET Tasks]
    BY <1>2, <2>1 DEF ClaimNext
  <2>3. ASSUME NEW s \in Scans, NEW r \in Scan, SetScan(s, r), r.step = "picked" <=> r.task # NULL
        PROVE  scan' \in [Scans -> Scan] /\ \A x \in Scans : scan'[x].step = "picked" <=> scan'[x].task # NULL
    BY <1>0, <2>3 DEF SetScan, ClaimTypeOK
  <2>4. NoScan \in Scan /\ (NoScan.step = "picked" <=> NoScan.task # NULL)
    BY DEF NoScan, Scan
  <2>5. ASSUME NEW s \in Scans, ScanNext(s) PROVE ClaimTypeOK'
    <3>0. scan[s] \in Scan /\ (scan[s].step = "picked" <=> scan[s].task # NULL)
      BY <1>0 DEF ClaimTypeOK
    <3>1. locked' = locked
      BY <2>5 DEF ScanNext, Begin, PassOver, Pick, Nothing, Abort, Commit
    <3>2. ASSUME NEW r \in Scan, SetScan(s, r), r.step = "picked" <=> r.task # NULL
          PROVE  ClaimTypeOK'
      BY <1>0, <2>2, <2>3, <3>1, <3>2 DEF ClaimTypeOK
    <3>3. ASSUME NEW w \in Workers, Begin(s, w) PROVE ClaimTypeOK'
      <4> DEFINE found == {t \in Tasks : Waiting(t)}
                 r == [step |-> "scanning", worker |-> w, rest |-> found, task |-> NULL,
                       ahead |-> {p \in found \X found : Before(p[1], p[2])}]
      <4>1. r \in Scan /\ (r.step = "picked" <=> r.task # NULL)
        BY DEF Scan
      <4>2. SetScan(s, r)
        BY <3>3 DEF Begin
      <4> HIDE DEF r
      <4> QED
        BY <3>2, <4>1, <4>2
    <3>4. ASSUME NEW t \in Tasks, Foremost(s, t), SetScan(s, [scan[s] EXCEPT !.rest = @ \ {t}])
          PROVE  ClaimTypeOK'
      <4> DEFINE r == [scan[s] EXCEPT !.rest = @ \ {t}]
      <4>1. r \in Scan /\ (r.step = "picked" <=> r.task # NULL)
        BY <3>0 DEF Scan
      <4>2. SetScan(s, r)
        BY <3>4
      <4> HIDE DEF r
      <4> QED
        BY <3>2, <4>1, <4>2
    <3>5. ASSUME NEW t \in Tasks, SetScan(s, [scan[s] EXCEPT !.step = "picked", !.task = t])
          PROVE  ClaimTypeOK'
      <4> DEFINE r == [scan[s] EXCEPT !.step = "picked", !.task = t]
      <4>1. r \in Scan /\ (r.step = "picked" <=> r.task # NULL)
        BY <3>0, ClaimAssumption DEF Scan
      <4>2. SetScan(s, r)
        BY <3>5
      <4> HIDE DEF r
      <4> QED
        BY <3>2, <4>1, <4>2
    <3>6. CASE SetScan(s, NoScan)
      BY <2>4, <3>2, <3>6
    <3> QED
      BY <2>5, <3>3, <3>4, <3>5, <3>6 DEF ScanNext, PassOver, Pick, Nothing, Abort, Commit
  <2>6. CASE Other
    <3>1. scan' = scan
      BY <2>6 DEF Other, Lock, Unlock, Writer, LogStatement, Releases
    <3>2. locked' \subseteq Tasks
      BY <1>0, <2>6 DEF Other, Lock, Unlock, Writer, LogStatement, Releases, ClaimTypeOK
    <3> QED
      BY <1>0, <2>2, <3>1, <3>2 DEF ClaimTypeOK
  <2> QED
    BY <1>2, <2>5, <2>6 DEF ClaimNext
<1> QED
  BY <1>1, <1>2

\* A row stays with the claim that picked it, as it was, until it is written.
LEMMA KeptNext ==
  ASSUME CInv, [ClaimNext]_claimVars
  PROVE  Kept'
<1>0. /\ Kept /\ scan \in [Scans -> Scan] /\ row \in [Tasks -> Row]
      /\ \A s \in Scans : scan[s].step = "picked" <=> scan[s].task # NULL
  BY DEF CInv, ClaimTypeOK, IInv, TypeOK
<1>1. CASE Other
  <2>1. scan' = scan /\ \A t \in Picked : Eligible(t)' /\ t \notin locked'
    BY <1>1, OtherKeeps
  <2> QED
    BY <1>0, <2>1 DEF Kept, Picked
<1>2. ASSUME NEW s \in Scans, ScanNext(s) PROVE Kept'
  <2>1. locked' = locked /\ tx' = tx
    BY <1>2 DEF ScanNext, Begin, PassOver, Pick, Nothing, Abort, Commit, vars
  <2>2. ASSUME row' = row, NEW r, SetScan(s, r), r.task \in {NULL, scan[s].task}
        PROVE  Kept'
    <3>1. Picked' \subseteq Picked
      BY <1>0, <2>2 DEF Picked, SetScan
    <3>2. \A x, y \in Scans : scan'[x].task = scan'[y].task /\ scan'[x].task # NULL => x = y
      BY <1>0, <2>2 DEF Kept, SetScan
    <3> QED
      BY <1>0, <2>1, <2>2, <3>1, <3>2, SameRows DEF Kept
  <2>3. CASE Pick(s)
    <3>1. PICK t \in Tasks : /\ Free(t) /\ row' = row
                             /\ SetScan(s, [scan[s] EXCEPT !.step = "picked", !.task = t])
      BY <2>3 DEF Pick, vars
    <3>2. /\ scan'[s].task = t /\ \A x \in Scans \ {s} : scan'[x] = scan[x] /\ scan[x].task # t
      BY <1>0, <3>1, ClaimAssumption DEF SetScan, Scan, Free, Picked
    <3>3. Picked' \subseteq Picked \union {t}
      BY <3>2 DEF Picked
    <3>4. \A x, y \in Scans : scan'[x].task = scan'[y].task /\ scan'[x].task # NULL => x = y
      BY <1>0, <3>2 DEF Kept
    <3>5. \A u \in Picked' : Eligible(u)' /\ u \notin locked'
      BY <1>0, <2>1, <3>1, <3>3, SameRows DEF Kept, Free
    <3> QED
      BY <3>4, <3>5 DEF Kept
  <2>4. ASSUME NEW d \in BOOLEAN, Commit(s, d) PROVE Kept'
    <3> DEFINE t == scan[s].task
    <3>1. t # NULL /\ SetRow(t, Claimed(row[t], scan[s].worker)) /\ SetScan(s, NoScan)
      BY <1>0, <2>4 DEF Commit
    <3>2. /\ scan'[s].task = NULL /\ \A x \in Scans \ {s} : scan'[x] = scan[x]
      BY <1>0, <3>1 DEF SetScan, NoScan
    <3>3. Picked' \subseteq Picked \ {t}
      BY <1>0, <3>1, <3>2 DEF Picked, Kept
    <3>4. \A u \in Picked' : u \in Tasks /\ row'[u] = row[u]
      <4>1. Picked \subseteq Tasks
        BY <1>0 DEF Picked, Scan
      <4> HIDE DEF t
      <4> QED
        BY <1>0, <3>1, <3>3, <4>1 DEF SetRow
    <3>5. \A u \in Picked' : Eligible(u)'
      BY <1>0, <2>1, <3>3, <3>4 DEF Eligible, KeyShared, Kept
    <3>6. \A x, y \in Scans : scan'[x].task = scan'[y].task /\ scan'[x].task # NULL => x = y
      BY <1>0, <3>2 DEF Kept
    <3> QED
      BY <1>0, <2>1, <3>3, <3>5, <3>6 DEF Kept
  <2>5. ASSUME NEW w \in Workers, Begin(s, w) PROVE Kept'
    <3>1. \E r : SetScan(s, r) /\ r.task = NULL /\ row' = row
      BY <2>5 DEF Begin, vars
    <3> QED
      BY <2>2, <3>1
  <2>6. CASE PassOver(s)
    <3>1. PICK t \in Tasks : SetScan(s, [scan[s] EXCEPT !.rest = @ \ {t}]) /\ row' = row
      BY <2>6 DEF PassOver, vars
    <3>2. [scan[s] EXCEPT !.rest = @ \ {t}].task = scan[s].task
      BY <1>0 DEF Scan
    <3> QED
      BY <2>2, <3>1, <3>2
  <2>7. CASE Nothing(s) \/ Abort(s)
    <3>1. SetScan(s, NoScan) /\ row' = row /\ NoScan.task = NULL
      BY <2>7 DEF Nothing, Abort, vars, NoScan
    <3> QED
      BY <2>2, <3>1
  <2> QED
    BY <1>2, <2>3, <2>4, <2>5, <2>6, <2>7 DEF ScanNext
<1>3. CASE UNCHANGED claimVars
  BY <1>0, <1>3, SameRows DEF claimVars, vars, Kept, Picked
<1> QED
  BY <1>1, <1>2, <1>3 DEF ClaimNext

\* The invariant is inductive.
LEMMA ClaimCInv == CInv /\ [ClaimNext]_claimVars => CInv'
<1> SUFFICES ASSUME CInv, [ClaimNext]_claimVars PROVE CInv'
  OBVIOUS
<1>1. IInv'
  BY ClaimSteps, NextIInv DEF CInv
<1>2. ClaimTypeOK' /\ Kept'
  BY <1>1, ClaimTypes, KeptNext
<1>3. CASE UNCHANGED claimVars
  BY <1>1, <1>2, <1>3, SameRows DEF CInv, claimVars, vars, Reading
<1>4. CASE ClaimNext
  <2>1. \A s \in Scans : calm'[s] = StillCalm(s)
    BY <1>4 DEF ClaimNext
  <2>2. CASE Other
    <3>1. scan' = scan
      BY <2>2, OtherKeeps
    <3>2. \A s \in Scans : Reading(s)'
      BY <2>1, <3>1, OthersRead
    <3> QED
      BY <1>1, <1>2, <3>2 DEF CInv
  <2>3. ASSUME NEW s \in Scans, ScanNext(s) PROVE CInv'
    <3>1. \A r \in Scans \ {s} : scan'[r] = scan[r]
      BY <2>3 DEF ScanNext, Begin, PassOver, Pick, Nothing, Abort, Commit, SetScan, CInv, ClaimTypeOK
    <3>2. Reading(s)'
      BY <2>1, <2>3, ScanReads
    <3>3. \A r \in Scans \ {s} : Reading(r)'
      BY <2>1, <3>1, OthersRead
    <3> QED
      BY <1>1, <1>2, <3>2, <3>3 DEF CInv
  <2> QED
    BY <1>4, <2>2, <2>3 DEF ClaimNext
<1> QED
  BY <1>3, <1>4

LEMMA InitCInv == ClaimInit => CInv
<1> SUFFICES ASSUME ClaimInit PROVE CInv
  OBVIOUS
<1>1. IInv
  BY InitIInv DEF ClaimInit
<1>2. \A s \in Scans : scan[s] = NoScan /\ calm[s] = {}
  BY DEF ClaimInit
<1>3. ClaimTypeOK
  BY <1>2 DEF ClaimInit, ClaimTypeOK, Scan, NoScan
<1>4. \A s \in Scans : Reading(s)
  BY <1>2 DEF Reading, NoScan
<1>5. Kept
  BY <1>2 DEF Kept, Picked, NoScan
<1> QED
  BY <1>1, <1>3, <1>4, <1>5 DEF CInv

LEMMA ClaimInvariant == ClaimSpec => []CInv
BY InitCInv, ClaimCInv, PTL DEF ClaimSpec

-----------------------------------------------------------------------------
(* Theorems about claims *)

\* A claim holds a row exactly once it has picked one.
THEOREM ClaimTypeOKHolds == ClaimSpec => []ClaimTypeOK
<1>1. CInv => ClaimTypeOK
  BY DEF CInv
<1> QED
  BY <1>1, ClaimInvariant, PTL

\* A claim passes over a task only if another statement had locked or written it
\* since the claim began.
THEOREM ClaimsInOrderHolds == ClaimSpec => []ClaimsInOrder
<1>1. CInv => ClaimsInOrder
  <2> SUFFICES ASSUME CInv, NEW s \in Scans
               PROVE  /\ scan[s].step = "scanning" /\ scan[s].rest = {} => calm[s] = {}
                      /\ scan[s].task \in calm[s] =>
                           \A t \in calm[s] :
                             LET best == row[scan[s].task] IN
                             /\ row[t].priority <= best.priority
                             /\ row[t].priority = best.priority => row[t].created >= best.created
    BY DEF ClaimsInOrder
  <2>1. Reading(s) /\ calm[s] \subseteq Tasks
    BY DEF CInv, ClaimTypeOK
  <2>2. \A t \in Tasks : row[t].priority \in Nat /\ row[t].created \in Nat
    <3>1. \A p \in Priorities : p \in Nat
      BY StoreAssumption DEF Priorities
    <3> QED
      BY <3>1 DEF CInv, IInv, TypeOK, Row
  <2>3. ASSUME scan[s].task \in calm[s], NEW t \in calm[s] \ {scan[s].task}
        PROVE  Before(scan[s].task, t)
    BY <2>1, <2>3 DEF Reading
  <2> QED
    BY <2>1, <2>2, <2>3 DEF Reading, Before
<1> QED
  BY <1>1, ClaimInvariant, PTL

\* A claim in several steps, among others and under locks, is a claim in one.
THEOREM ClaimsOnStoreHolds == ClaimSpec => ClaimsOnStore
<1>1. ClaimInit => Init
  BY DEF ClaimInit
<1> QED
  BY <1>1, ClaimSteps, ClaimInvariant, PTL DEF ClaimSpec, ClaimsOnStore, Spec
=============================================================================
