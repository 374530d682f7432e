----------------------------- MODULE ClaimOrder -----------------------------
(***************************************************************************)
(* The one statement of ClaimTask, taken apart: an UPDATE whose sub-select *)
(* sorts the rows of its snapshot and goes down them with FOR UPDATE SKIP  *)
(* LOCKED LIMIT 1. A row that another statement under way has locked is    *)
(* passed over; one that was written since the snapshot is looked at again *)
(* under READ COMMITTED, but keeps its place in the sort. Every other      *)
(* operation of TaskStore may come in between.                             *)
(*                                                                         *)
(* Statements are short against a tick: the clock waits for the claims     *)
(* under way, which wait for nothing. The locks of other statements may    *)
(* last; they are held from the moment a row is found to COMMIT.           *)
(***************************************************************************)
EXTENDS TaskStore

CONSTANT Scans      \* claim statements that may be under way together

ASSUME ClaimAssumption == NULL \notin Tasks

VARIABLES
  scan,     \* [Scans -> Scan]
  locked,   \* rows locked by an UPDATE or DELETE under way that is not a claim
  calm      \* [Scans -> SUBSET Tasks]: rows no one has touched since the claim began

claimVars == <<vars, scan, locked, calm>>

-----------------------------------------------------------------------------
Scan ==
  [step   : {"idle", "scanning", "picked"},
   worker : Workers \union {NULL},
   rest   : SUBSET Tasks,               \* of the snapshot, not yet looked at
   ahead  : SUBSET (Tasks \X Tasks),    \* the sort: which comes before which
   task   : Tasks \union {NULL}]        \* the row it has locked

NoScan == [step |-> "idle", worker |-> NULL, rest |-> {}, ahead |-> {}, task |-> NULL]

ClaimInit ==
  /\ Init
  /\ scan = [s \in Scans |-> NoScan]
  /\ locked = {}
  /\ calm = [s \in Scans |-> {}]

\* The WHERE clause of the sub-select.
Waiting(t) == row[t].status = "pending" /\ row[t].delay = 0

\* Operators named Mutant... are what a slip in the code would make of the
\* definition that follows them; no specification uses them.
MutantPlainPicked == {}

\* Rows a claim has locked FOR UPDATE: every other writer of them waits.
Picked == {scan[s].task : s \in Scans} \ {NULL}

\* SKIP LOCKED returns the row, as the WHERE clause finds it now.
Free(t) == Eligible(t) /\ t \notin locked \union Picked

SetScan(s, r) == scan' = [scan EXCEPT ![s] = r]

\* The row a claim looks at next.
Foremost(s, t) ==
  /\ scan[s].step = "scanning" /\ t \in scan[s].rest
  /\ \A u \in scan[s].rest \ {t} : <<t, u>> \in scan[s].ahead

-----------------------------------------------------------------------------
(* The statement *)

\* It takes its snapshot and sorts it.
Begin(s, w) ==
  LET found == {t \in Tasks : Waiting(t)} IN
  /\ scan[s].step = "idle"
  /\ SetScan(s, [step |-> "scanning", worker |-> w, rest |-> found, task |-> NULL,
                 ahead |-> {p \in found \X found : Before(p[1], p[2])}])
  /\ UNCHANGED <<vars, locked>>

\* As if LIMIT 1 were applied before the locks.
MutantLimitedPassOver(s) ==
  /\ \E t \in Tasks : Foremost(s, t) /\ ~Free(t)
  /\ SetScan(s, [scan[s] EXCEPT !.rest = {}])
  /\ UNCHANGED <<vars, locked>>

PassOver(s) ==
  /\ \E t \in Tasks :
       /\ Foremost(s, t) /\ ~Free(t)
       /\ SetScan(s, [scan[s] EXCEPT !.rest = @ \ {t}])
  /\ UNCHANGED <<vars, locked>>

Pick(s) ==
  /\ \E t \in Tasks :
       /\ Foremost(s, t) /\ Free(t)
       /\ SetScan(s, [scan[s] EXCEPT !.step = "picked", !.task = t])
  /\ UNCHANGED <<vars, locked>>

\* The UPDATE matches by id alone.
Commit(s, delivered) ==
  LET t == scan[s].task IN
  /\ scan[s].step = "picked"
  /\ SetRow(t, Claimed(row[t], scan[s].worker))
  /\ lost' = IF delivered THEN lost ELSE lost \union {t}
  /\ SetScan(s, NoScan)
  /\ UNCHANGED <<logged, tx, births, locked>>

\* No row is left: (nil, nil).
Nothing(s) ==
  /\ scan[s].step = "scanning" /\ scan[s].rest = {}
  /\ SetScan(s, NoScan)
  /\ UNCHANGED <<vars, locked>>

\* The caller's context ends or the connection breaks: rollback.
Abort(s) ==
  /\ scan[s].step # "idle"
  /\ SetScan(s, NoScan)
  /\ UNCHANGED <<vars, locked>>

-----------------------------------------------------------------------------
(* Other statements. One that has locked a row releases it by the write that   *)
(* TaskStore describes, or without: it is rolled back, or is UpdateTaskLinks,  *)
(* which writes no column kept here.                                           *)

Lock(t) ==
  /\ row[t].status \notin Absent /\ t \notin locked \union Picked
  /\ locked' = locked \union {t}
  /\ UNCHANGED <<vars, scan>>

Unlock(t) ==
  /\ t \in locked
  /\ locked' = locked \ {t}
  /\ UNCHANGED <<vars, scan>>

Releases(S) == locked' = locked \ S /\ UNCHANGED scan

Writer(t) ==
  /\ t \notin Picked
  /\ OperatorNext(t) \/ \E w \in Workers : HolderNext(w, t)
  /\ Releases({t})

\* The foreign key asks for FOR KEY SHARE, for which a claim makes it wait.
LogStatement(c) ==
  \/ (\E w \in Workers, t \in Tasks : LogBegin(c, w, t)) /\ Releases({})
  \/ (LogCheck(c) \/ LogAbort(c)) /\ Releases({})
  \/ LogInsert(c) /\ tx[c].task \notin Picked /\ Releases({})
  \/ LogCommit(c) /\ Releases({tx[c].task})

Other ==
  \/ \E t \in Tasks : Lock(t) \/ Unlock(t) \/ Writer(t)
  \/ \E w \in Workers : Crash(w) /\ Releases({})
  \/ \E c \in Conns : LogStatement(c)
  \/ ReapStale /\ Releases(Stale)
  \/ Tick /\ (\A s \in Scans : scan[s].step = "idle") /\ Releases({})

-----------------------------------------------------------------------------
ScanNext(s) ==
  \/ \E w \in Workers : Begin(s, w)
  \/ PassOver(s) \/ Pick(s) \/ Nothing(s) \/ Abort(s)
  \/ \E delivered \in BOOLEAN : Commit(s, delivered)

\* After a step the row is as it was, waiting, and no other statement has locked it.
Undisturbed(s, t) ==
  /\ row'[t] = row[t] /\ Eligible(t)' /\ t \notin locked'
  /\ \A r \in Scans \ {s} : scan'[r].task # t

StillCalm(s) ==
  IF scan'[s].step = "idle" THEN {}
  ELSE {t \in IF scan[s].step = "idle" THEN Tasks ELSE calm[s] : Undisturbed(s, t)}

ClaimNext ==
  /\ (\E s \in Scans : ScanNext(s)) \/ Other
  /\ calm' = [s \in Scans |-> StillCalm(s)]

ClaimSpec == ClaimInit /\ [][ClaimNext]_claimVars

-----------------------------------------------------------------------------
(* Properties *)

\* Claims and locks are well formed, and a claim holds a row exactly once it has
\* picked one.
ClaimTypeOK ==
  /\ scan \in [Scans -> Scan]
  /\ \A s \in Scans : scan[s].step = "picked" <=> scan[s].task # NULL
  /\ locked \subseteq Tasks
  /\ calm \in [Scans -> SUBSET Tasks]

\* What SKIP LOCKED leaves of the order: a claim passes over a task in favour of
\* one of lower priority or a younger one, or answers that there is none, only if
\* another statement had locked or written the task since the claim began.
ClaimsInOrder ==
  \A s \in Scans :
    /\ scan[s].step = "scanning" /\ scan[s].rest = {} => calm[s] = {}
    /\ scan[s].task \in calm[s] =>
         \A t \in calm[s] :
           LET best == row[scan[s].task] IN
           /\ row[t].priority <= best.priority
           /\ row[t].priority = best.priority => row[t].created >= best.created

\* A claim in several steps, among others and under locks, is one ClaimTask of
\* the store: the row it picked is still free when it is written.
ClaimsOnStore == Spec
=============================================================================
