------------------------ MODULE MC_ShuffleOrchestrator ------------------------
(* Model of the orchestrators for TLC: one election, two users (enough to  *)
(* close), one plaintext (the ballots' content does not bear on progress), *)
(* four roster nodes, so a threshold of two shuffles, one Byzantine node   *)
(* and three honest trustees: one spare for a task ended by makeTx.        *)
EXTENDS ShuffleOrchestrator, TLC

CONSTANTS e1, alice, bob, yes, n1, n2, n3, n4

MCElections == {e1}
MCUsers     == {alice, bob}
MCVotes     == {yes}
MCNodes     == {n1, n2, n3, n4}
=============================================================================
