---------------------------- MODULE MC_EvotingDkg ----------------------------
(* Model of the contract and the DKG service of three roster nodes for    *)
(* TLC: one election, two users, two plaintexts, honest nodes.            *)
EXTENDS EvotingDkg, TLC

CONSTANTS e1, alice, bob, yes, no, n1, n2, n3

MCElections == {e1}
MCUsers     == {alice, bob}
MCVotes     == {yes, no}
MCNodes     == {n1, n2, n3}
=============================================================================
