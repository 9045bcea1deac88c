------------------------------- MODULE Lifecycle -------------------------------
(***************************************************************************)
(* What the evoting contract promises of an election, without ciphertexts,*)
(* keys or proofs: its status moves along the pipeline                     *)
(*   Initial -> Open -> Closed -> ShuffledBallots -> PubSharesSubmitted    *)
(*           -> ResultAvailable                                            *)
(* or to Canceled; votes change the cast ballots only while it is Open;    *)
(* the mix-net of Threshold shuffles and the Threshold pub-share           *)
(* submissions neither add, drop nor change a cast ballot.                *)
(*                                                                         *)
(* The cast ballots are a tally of plaintexts.  Cancel follows the code's  *)
(* rule (any status); spec.md section 4.1 restricts it to running         *)
(* statuses, a disagreement the run cancel_any_status shows.               *)
(***************************************************************************)
EXTENDS Naturals, Functions

CONSTANTS Elections, Votes, MaxBallots, Threshold, Absent

ASSUME Threshold \in Nat \ {0}

VARIABLES status, cast, mixed, shared

lvars == <<status, cast, mixed, shared>>

Tallies == [Votes -> 0..MaxBallots]

Ballots(t) == SumFunction(t)

NoBallot == [v \in Votes |-> 0]

Init ==
  /\ status = [e \in Elections |-> Absent]
  /\ cast = [e \in Elections |-> NoBallot]
  /\ mixed = [e \in Elections |-> 0]
  /\ shared = [e \in Elections |-> 0]

Create(e) ==
  /\ status[e] = Absent
  /\ status' = [status EXCEPT ![e] = "Initial"]
  /\ UNCHANGED <<cast, mixed, shared>>

Open(e) ==
  /\ status[e] = "Initial"
  /\ status' = [status EXCEPT ![e] = "Open"]
  /\ UNCHANGED <<cast, mixed, shared>>

\* a vote adds one ballot or replaces the voter's earlier one
Vote(e) ==
  /\ status[e] = "Open"
  /\ \E t \in Tallies :
       /\ Ballots(t) - Ballots(cast[e]) \in {0, 1}
       /\ cast' = [cast EXCEPT ![e] = t]
  /\ UNCHANGED <<status, mixed, shared>>

Close(e) ==
  /\ status[e] = "Open"
  /\ Ballots(cast[e]) >= 2
  /\ status' = [status EXCEPT ![e] = "Closed"]
  /\ UNCHANGED <<cast, mixed, shared>>

\* one more shuffle of the cast ballots; the last one ends the mix-net
Mix(e) ==
  /\ status[e] = "Closed"
  /\ mixed' = [mixed EXCEPT ![e] = @ + 1]
  /\ status' = [status EXCEPT ![e] =
                  IF mixed'[e] = Threshold THEN "ShuffledBallots" ELSE @]
  /\ UNCHANGED <<cast, shared>>

Share(e) ==
  /\ status[e] = "ShuffledBallots"
  /\ shared' = [shared EXCEPT ![e] = @ + 1]
  /\ status' = [status EXCEPT ![e] =
                  IF shared'[e] = Threshold THEN "PubSharesSubmitted" ELSE @]
  /\ UNCHANGED <<cast, mixed>>

Tally(e) ==
  /\ status[e] = "PubSharesSubmitted"
  /\ status' = [status EXCEPT ![e] = "ResultAvailable"]
  /\ UNCHANGED <<cast, mixed, shared>>

Cancel(e) ==
  /\ status[e] # Absent
  /\ status' = [status EXCEPT ![e] = "Canceled"]
  /\ UNCHANGED <<cast, mixed, shared>>

Next ==
  \E e \in Elections :
    \/ Create(e) \/ Open(e) \/ Vote(e) \/ Close(e)
    \/ Mix(e) \/ Share(e) \/ Tally(e) \/ Cancel(e)

Spec == Init /\ [][Next]_lvars

=============================================================================
