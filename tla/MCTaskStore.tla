---------------------------- MODULE MCTaskStore ----------------------------
(* TaskStore on small instances: model values for tasks, workers and        *)
(* connections, interchangeable where no property is about liveness.        *)
EXTENDS TaskStore, TLC

Symmetric == Permutations(Tasks) \union Permutations(Workers) \union Permutations(Conns)
=============================================================================
