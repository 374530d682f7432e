------------------------------ MODULE MCRunner ------------------------------
(* Runner on small instances: one task, so that two workers compete for it. *)
EXTENDS Runner
=============================================================================
