----------------------------- MODULE MC_Evoting -----------------------------
(* Model of the evoting contract for TLC: one election, two users, two      *)
(* plaintexts, a roster of four nodes, so that the Byzantine threshold is  *)
(* two shuffles and two pub-share submissions.                              *)
EXTENDS Evoting, TLC

CONSTANTS e1, alice, bob, yes, no, n1, n2, n3, n4

MCElections == {e1}
MCUsers     == {alice, bob}
MCVotes     == {yes, no}
MCNodes     == {n1, n2, n3, n4}

\* users, plaintexts and the honest nodes are interchangeable: the model
\* only compares them for equality
Symmetry == Permutations(MCUsers) \cup Permutations(MCVotes)
              \cup Permutations({n1, n2, n3})
=============================================================================
