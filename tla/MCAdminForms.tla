---------------------------- MODULE MCAdminForms ----------------------------
(* AdminForms on small instances.                                           *)
EXTENDS AdminForms, TLC

Symmetric == Permutations(Workers) \union Permutations(Tabs) \union Permutations(Briefs)
=============================================================================
