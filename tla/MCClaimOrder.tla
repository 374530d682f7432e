---------------------------- MODULE MCClaimOrder ----------------------------
(* ClaimOrder on small instances.                                           *)
EXTENDS ClaimOrder, FiniteSets, TLC

Symmetric ==
  Permutations(Tasks) \union Permutations(Workers) \union Permutations(Conns) \union Permutations(Scans)

\* The bound of the run: three statements are under way together, at most two of
\* them claims or log transactions, the others with a row they have locked. What a claim does not look at is not
\* explored further: notes, errors, and claims whose worker has not heard of them.
Bounded ==
  LET long == Cardinality({s \in Scans : scan[s].step # "idle"})
              + Cardinality({c \in Conns : tx[c].step # "idle"}) IN
  /\ long <= 2 /\ long + Cardinality(locked) <= 3
  /\ lost = {}
  /\ \A t \in Tasks : row[t].note = NULL /\ row[t].error = NULL
=============================================================================
