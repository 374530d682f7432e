----------------------------- MODULE MCDashboard -----------------------------
(* Dashboard on small instances.                                            *)
EXTENDS Dashboard, TLC

Symmetric == Permutations(Tasks) \union Permutations(Workers)
=============================================================================
