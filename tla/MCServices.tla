----------------------------- MODULE MCServices -----------------------------
(* Services on small instances.                                             *)
EXTENDS Services, TLC

Symmetric == Permutations(Workers) \union Permutations(WorkerCalls)

\* The bound of the run: three calls are under way together, or two once a fault
\* has occurred, and tasks with a smaller budget than the largest are not explored
\* further.
Bounded ==
  /\ Cardinality({c \in Callers : call[c].at # "idle"}) + faults <= 3
  /\ \A t \in Tasks : status[t] \in {"unborn", "deleted"} \/ limit[t] = MaxLimit
=============================================================================
