--------------------------- MODULE MCWorkerBridge ---------------------------
(* WorkerBridge on small instances; Me is told apart from its rivals.       *)
EXTENDS WorkerBridge, TLC

Symmetric == Permutations(Tasks) \union Permutations(Calls) \union Permutations(Handles)
=============================================================================
