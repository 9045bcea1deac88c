--------------------------- MODULE MC_EvotingBlock ---------------------------
(* Model of the contract executed in blocks for TLC: the instance of       *)
(* MC_Evoting (one election, two users, two plaintexts, four nodes, a      *)
(* threshold of two) with blocks of up to MaxBlockTxs transactions.         *)
EXTENDS EvotingBlock, TLC

CONSTANTS e1, alice, bob, yes, no, n1, n2, n3, n4

MCElections == {e1}
MCUsers     == {alice, bob}
MCVotes     == {yes, no}
MCNodes     == {n1, n2, n3, n4}

Symmetry == Permutations(MCUsers) \cup Permutations(MCVotes)
              \cup Permutations({n1, n2, n3})
=============================================================================
