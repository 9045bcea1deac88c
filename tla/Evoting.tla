------------------------------- MODULE Evoting -------------------------------
(***************************************************************************)
(* The evoting smart contract of d-voting (contracts/evoting/evoting.go): *)
(* the election record kept in the ledger snapshot and the handlers the   *)
(* ordering layer runs, one transaction at a time, on that snapshot.      *)
(*                                                                         *)
(* Data abstraction.  A ciphervote is reduced to the plaintext it         *)
(* encrypts (a member of Votes), a list of ciphervotes to the tally of    *)
(* its plaintexts ([Votes -> Nat]) since the Neff proof only binds the    *)
(* multiset, a public key to the node that owns it, a signature to the    *)
(* node that produced it, a pub-share submission to its shape (number of  *)
(* ballots, number of pairs in its first ballot): the only parts of it    *)
(* the code reads.  Checks whose outcome depends on bytes the model does  *)
(* not keep (the shuffle's signature, its seed and random vector) are      *)
(* inputs of the transaction.                                              *)
(***************************************************************************)
EXTENDS Naturals, FiniteSets, Sequences, Functions

CONSTANTS
  Elections,        \* election IDs (SHA256 of the creating transaction ID)
  Users,            \* user IDs: admins and voters
  Votes,            \* plaintext ballots
  Nodes,            \* roster members (their public keys)
  Byzantine,        \* roster members that do not follow the protocol
  Outsider,         \* a key that is not in the roster
  ChunksPerBallot,  \* election.ChunksPerBallot()
  NoVote,           \* no ciphervote on the board for this user
  NoElection        \* no value under this election ID in the snapshot

ASSUME Byzantine \subseteq Nodes /\ Outsider \notin Nodes
ASSUME ChunksPerBallot \in Nat \ {0}

Statuses == {"Initial", "Open", "Closed", "ShuffledBallots",
             "PubSharesSubmitted", "ResultAvailable", "Canceled"}
Commands == {"CreateElection", "OpenElection", "CastVote", "CloseElection",
             "ShuffleBallots", "RegisterPubShares", "DecryptBallots",
             "CancelElection"}
Keys     == Nodes \cup {Outsider}
Honest   == Nodes \ Byzantine
Tally    == [Votes -> 0..Cardinality(Users)]
Shape    == [ballots : 0..Cardinality(Users), pairs : {0, ChunksPerBallot}]

(* threshold.ByzantineThreshold(n): f + 1 with f = (n - 1) \div 3, as    *)
(* spec.md section 3 and scenarios S1 and S4 state it.                     *)
ByzantineThreshold(n) == IF n <= 1 THEN n ELSE (n - 1) \div 3 + 1

VARIABLES
  elections,   \* the snapshot: election ID -> serialized election
  metadata,    \* ElectionsMetadata.ElectionsIDs
  lastTx       \* command and outcome of the last executed transaction

vars == <<elections, metadata, lastTx>>

NoTx == [cmd |-> "none", election |-> "none", result |-> "none"]

Election == [AdminID : Users, Status : Statuses, Pubkey : BOOLEAN,
             PublicBulletinBoard : [Users -> Votes \cup {NoVote}],
             ShuffleInstances : Seq([ShuffledBallots : Tally,
                                     ShufflerPublicKey : Keys]),
             PubSharesSubmissions : Seq(Shape),
             PublicKeys : Seq(Keys),
             DecryptedBallots : Nat,
             ShuffleThreshold : Nat]

TypeOK ==
  /\ elections \in [Elections -> Election \cup {NoElection}]
  /\ metadata \subseteq Elections
  /\ lastTx \in [cmd : Commands, election : Elections,
                 result : {"accepted", "rejected", "panic"}] \cup {NoTx}

-----------------------------------------------------------------------------
(* Helpers of the handlers.                                                *)

\* PublicBulletinBoard.Ballots as a tally of plaintexts
BoardTally(board) == [v \in Votes |-> Cardinality({u \in Users : board[u] = v})]

NbBallots(tally) == SumFunction(tally)

\* isMemberOf: the key is one of the roster's public keys
IsMemberOf(key) == key \in Nodes


\* the ciphertexts a shuffle of this round must permute: the board for round
\* 0, the last accepted shuffle otherwise
ShuffleInput(el, round) ==
  IF round = 0 THEN BoardTally(el.PublicBulletinBoard)
               ELSE el.ShuffleInstances[Len(el.ShuffleInstances)].ShuffledBallots

\* mutant: the proof is not checked
ProofVerifiesAnything(input, output) == TRUE

\* shuffle.Verifier + e.prover: the Neff proof verifies iff the output
\* re-encrypts a permutation of the input
ProofVerifies(input, output) == output = input

\* mutant: the status advances only once the threshold is exceeded
AdvanceStatusStrict(count, threshold, next, current) ==
  IF count > threshold THEN next ELSE current

\* the status update after an appended shuffle or pub-share submission
AdvanceStatus(count, threshold, next, current) ==
  IF count >= threshold THEN next ELSE current

Accept(cmd, e, el) ==
  /\ elections' = [elections EXCEPT ![e] = el]
  /\ lastTx' = [cmd |-> cmd, election |-> e, result |-> "accepted"]

Reject(cmd, e) ==
  /\ lastTx' = [cmd |-> cmd, election |-> e, result |-> "rejected"]
  /\ UNCHANGED <<elections, metadata>>

\* a runtime panic inside the handler: nothing is written
Panic(cmd, e) ==
  /\ lastTx' = [cmd |-> cmd, election |-> e, result |-> "panic"]
  /\ UNCHANGED <<elections, metadata>>

\* getElection: the ID decodes and a stored election is found
Exists(e) == elections[e] # NoElection

-----------------------------------------------------------------------------
(* Handlers.                                                               *)

CreateElection(e, admin, configValid) ==
  \/ /\ elections[e] = NoElection        \* a fresh SHA256 of a new tx ID
     /\ configValid
     /\ elections' = [elections EXCEPT ![e] =
           [AdminID |-> admin, Status |-> "Initial", Pubkey |-> FALSE,
            PublicBulletinBoard |-> [u \in Users |-> NoVote],
            ShuffleInstances |-> <<>>, PubSharesSubmissions |-> <<>>,
            PublicKeys |-> <<>>, DecryptedBallots |-> 0,
            ShuffleThreshold |-> ByzantineThreshold(Cardinality(Nodes))]]
     /\ metadata' = metadata \cup {e}
     /\ lastTx' = [cmd |-> "CreateElection", election |-> e,
                   result |-> "accepted"]
  \/ /\ elections[e] = NoElection
     /\ ~configValid
     /\ Reject("CreateElection", e)

\* dkgReady: the local DKG actor exists and GetPublicKey succeeds
OpenElectionOK(e, dkgReady) ==
  /\ Exists(e)
  /\ elections[e].Status = "Initial"
  /\ ~elections[e].Pubkey
  /\ dkgReady

OpenElection(e, dkgReady) ==
  \/ /\ OpenElectionOK(e, dkgReady)
     /\ Accept("OpenElection", e,
          [elections[e] EXCEPT !.Status = "Open", !.Pubkey = TRUE])
     /\ UNCHANGED metadata
  \/ /\ ~OpenElectionOK(e, dkgReady)
     /\ Reject("OpenElection", e)

\* mutant: votes are accepted whatever the status
CastVoteOKAnyStatus(e, ballot) ==
  /\ Exists(e)
  /\ ballot.len = ChunksPerBallot
  /\ ballot.pointsOK

\* ballot: the plaintext, the number of pairs and whether every pair is
\* non-empty and decodes to curve points
CastVoteOK(e, ballot) ==
  /\ Exists(e)
  /\ elections[e].Status = "Open"
  /\ ballot.len = ChunksPerBallot
  /\ ballot.pointsOK

\* mutant: the board keeps the transaction's ballot record, not the vote
CastVoteWhole(e, user, ballot) ==
  \/ /\ CastVoteOK(e, ballot)
     /\ Accept("CastVote", e, [elections[e] EXCEPT
          !.PublicBulletinBoard[user] = ballot])
     /\ UNCHANGED metadata
  \/ /\ ~CastVoteOK(e, ballot)
     /\ Reject("CastVote", e)

CastVote(e, user, ballot) ==
  \/ /\ CastVoteOK(e, ballot)
     /\ Accept("CastVote", e, [elections[e] EXCEPT
          !.PublicBulletinBoard[user] = ballot.vote])
     /\ UNCHANGED metadata
  \/ /\ ~CastVoteOK(e, ballot)
     /\ Reject("CastVote", e)

CloseElectionOK(e, user) ==
  /\ Exists(e)
  /\ elections[e].AdminID = user
  /\ elections[e].Status = "Open"
  /\ NbBallots(BoardTally(elections[e].PublicBulletinBoard)) > 1

CloseElection(e, user) ==
  \/ /\ CloseElectionOK(e, user)
     /\ Accept("CloseElection", e, [elections[e] EXCEPT !.Status = "Closed"])
     /\ UNCHANGED metadata
  \/ /\ ~CloseElectionOK(e, user)
     /\ Reject("CloseElection", e)

\* mutant: a node may shuffle twice
ShuffleBallotsOKTwice(e, tx) ==
  LET el == elections[e] IN
  /\ Exists(e)
  /\ el.Status = "Closed"
  /\ tx.round = Len(el.ShuffleInstances)
  /\ IsMemberOf(tx.key)
  /\ tx.signatureOK
  /\ tx.randomVectorOK
  /\ ProofVerifies(ShuffleInput(el, tx.round), tx.shuffled)

\* mutant: only a round ahead of the election is refused
ShuffleBallotsOKStaleRound(e, tx) ==
  LET el == elections[e] IN
  /\ Exists(e)
  /\ el.Status = "Closed"
  /\ tx.round <= Len(el.ShuffleInstances)
  /\ IsMemberOf(tx.key)
  /\ \A i \in DOMAIN el.ShuffleInstances :
        el.ShuffleInstances[i].ShufflerPublicKey # tx.key
  /\ tx.signatureOK
  /\ tx.randomVectorOK
  /\ ProofVerifies(ShuffleInput(el, tx.round), tx.shuffled)

ShuffleBallotsOK(e, tx) ==
  LET el == elections[e] IN
  /\ Exists(e)
  /\ el.Status = "Closed"
  /\ tx.round = Len(el.ShuffleInstances)
  /\ IsMemberOf(tx.key)
  /\ \A i \in DOMAIN el.ShuffleInstances :
        el.ShuffleInstances[i].ShufflerPublicKey # tx.key
  /\ tx.signatureOK
  /\ tx.randomVectorOK
  /\ ProofVerifies(ShuffleInput(el, tx.round), tx.shuffled)

\* the election once the shuffle is appended and the status updated
AppendShuffle(el, tx) ==
  LET instances == Append(el.ShuffleInstances,
                     [ShuffledBallots |-> tx.shuffled, ShufflerPublicKey |-> tx.key])
  IN [el EXCEPT !.ShuffleInstances = instances,
                !.Status = AdvanceStatus(Len(instances), el.ShuffleThreshold,
                                         "ShuffledBallots", @)]

ShuffleBallots(e, tx) ==
  \/ /\ ShuffleBallotsOK(e, tx)
     /\ Accept("ShuffleBallots", e, AppendShuffle(elections[e], tx))
     /\ UNCHANGED metadata
  \/ /\ ~ShuffleBallotsOK(e, tx)
     /\ Reject("ShuffleBallots", e)

\* mutant: a node may register its pub-shares twice
\* the pub-shares an honest trustee computes: one row per shuffled ballot,
\* one share per pair
HonestShape(el) ==
  [ballots |-> NbBallots(ShuffleInput(el, Len(el.ShuffleInstances))),
   pairs |-> ChunksPerBallot]

\* signerPubKey.Verify(pubSharesHash, signature): a signature is valid only if
\* the key's owner signed these pub-shares, and an honest owner signs only the
\* pub-shares it computed
PubSharesSigned(el, tx) ==
  tx.signatureOK /\ (tx.key \in Honest => tx.shape = HonestShape(el))

RegisterPubSharesOKTwice(e, tx) ==
  LET el == elections[e] IN
  /\ Exists(e)
  /\ el.Status = "ShuffledBallots"
  /\ tx.round = Len(el.PubSharesSubmissions)
  /\ IsMemberOf(tx.key)
  /\ PubSharesSigned(el, tx)

RegisterPubSharesOK(e, tx) ==
  LET el == elections[e] IN
  /\ Exists(e)
  /\ el.Status = "ShuffledBallots"
  /\ tx.round = Len(el.PubSharesSubmissions)
  /\ IsMemberOf(tx.key)
  /\ \A i \in DOMAIN el.PublicKeys : el.PublicKeys[i] # tx.key
  /\ PubSharesSigned(el, tx)

\* the election once the submission is archived and the status updated
AppendPubShares(el, tx) ==
  LET submissions == Append(el.PubSharesSubmissions, tx.shape)
  IN [el EXCEPT !.PubSharesSubmissions = submissions,
                !.PublicKeys = Append(@, tx.key),
                !.Status = AdvanceStatus(Len(submissions), el.ShuffleThreshold,
                                         "PubSharesSubmitted", @)]

RegisterPubShares(e, tx) ==
  \/ /\ RegisterPubSharesOK(e, tx)
     /\ Accept("RegisterPubShares", e, AppendPubShares(elections[e], tx))
     /\ UNCHANGED metadata
  \/ /\ ~RegisterPubSharesOK(e, tx)
     /\ Reject("RegisterPubShares", e)

(* decryptBallots reads the number of ballots and of pairs from the first  *)
(* submission: pubSharesSubmitted[0][0] is out of range when it has no     *)
(* ballot; with pairs, Decrypt calls UnmarshalBinary on the nil kyber.Point *)
(* interface V; without pairs no chunk is decrypted and every ballot fails *)
(* to unmarshal into an empty ballot.                                      *)
DecryptBallotsOK(e, user) ==
  /\ Exists(e)
  /\ elections[e].AdminID = user
  /\ elections[e].Status = "PubSharesSubmitted"

\* the first pub-share submission, whose shape decryptBallots trusts
FirstSubmission(e) == elections[e].PubSharesSubmissions[1]

DecryptBallots(e, user) ==
  \/ /\ DecryptBallotsOK(e, user)
     /\ FirstSubmission(e).ballots = 0
     /\ Panic("DecryptBallots", e)
  \/ /\ DecryptBallotsOK(e, user)
     /\ FirstSubmission(e).ballots > 0
     /\ FirstSubmission(e).pairs > 0
     /\ Panic("DecryptBallots", e)
  \/ /\ DecryptBallotsOK(e, user)
     /\ FirstSubmission(e).ballots > 0
     /\ FirstSubmission(e).pairs = 0
     /\ Accept("DecryptBallots", e,
          [elections[e] EXCEPT !.DecryptedBallots = FirstSubmission(e).ballots,
                               !.Status = "ResultAvailable"])
     /\ UNCHANGED metadata
  \/ /\ ~DecryptBallotsOK(e, user)
     /\ Reject("DecryptBallots", e)

CancelElectionOK(e, user) ==
  /\ Exists(e)
  /\ elections[e].AdminID = user

CancelElection(e, user) ==
  \/ /\ CancelElectionOK(e, user)
     /\ Accept("CancelElection", e, [elections[e] EXCEPT !.Status = "Canceled"])
     /\ UNCHANGED metadata
  \/ /\ ~CancelElectionOK(e, user)
     /\ Reject("CancelElection", e)

-----------------------------------------------------------------------------
(* The transactions clients and trustees may submit.  A transaction may    *)
(* claim any key, the Outsider's included; whether its signature verifies *)
(* under that key is an input, constrained by PubSharesSigned.             *)

Rounds == 0..ByzantineThreshold(Cardinality(Nodes))

Ballots == [vote : Votes, len : {ChunksPerBallot, ChunksPerBallot + 1},
            pointsOK : BOOLEAN]

\* every shuffle transaction anyone may submit: whatever differs from what an
\* honest trustee submits fails a check of shuffleBallots
ShuffleTxs == [round : Rounds, key : Keys, signatureOK : BOOLEAN,
               randomVectorOK : BOOLEAN, shuffled : Tally]

\* every pub-share transaction anyone may submit
PubSharesTxs == [round : Rounds, key : Keys, signatureOK : BOOLEAN, shape : Shape]

Init ==
  /\ elections = [e \in Elections |-> NoElection]
  /\ metadata = {}
  /\ lastTx = NoTx

\* every handler but openElection, the one whose outcome depends on state
\* outside the snapshot (the node's DKG actor)
HandlersWithoutOpen(e) ==
    \/ \E admin \in Users, valid \in BOOLEAN : CreateElection(e, admin, valid)
    \/ \E u \in Users, b \in Ballots : CastVote(e, u, b)
    \/ \E u \in Users : CloseElection(e, u)
    \/ \E tx \in ShuffleTxs : ShuffleBallots(e, tx)
    \/ \E tx \in PubSharesTxs : RegisterPubShares(e, tx)
    \/ \E u \in Users : DecryptBallots(e, u)
    \/ \E u \in Users : CancelElection(e, u)

Next ==
  \E e \in Elections :
    \/ \E dkgReady \in BOOLEAN : OpenElection(e, dkgReady)
    \/ HandlersWithoutOpen(e)

Spec == Init /\ [][Next]_vars

-----------------------------------------------------------------------------
(* Properties.                                                             *)

Running == {"Initial", "Open", "Closed", "ShuffledBallots", "PubSharesSubmitted"}

(* Every accepted shuffle of an election is a re-encryption of the ballots *)
(* on its bulletin board when it was closed: no vote is added, dropped or  *)
(* changed along the mix-net, whatever the shufflers submit and however    *)
(* late a vote arrives (shuffleBallots input selection and proof check,    *)
(* castVote status check).                                                 *)
ShuffleChainPreservesBallots ==
  \A e \in Elections : Exists(e) =>
    LET el == elections[e] IN
    \A i \in DOMAIN el.ShuffleInstances :
      el.ShuffleInstances[i].ShuffledBallots = BoardTally(el.PublicBulletinBoard)

(* The shufflers of an election are pairwise distinct roster members, even *)
(* when a trustee resubmits with a later round or a faulty one claims      *)
(* someone else's key (shuffleBallots membership, distinctness, signature).*)
ShufflersDistinctMembers ==
  \A e \in Elections : Exists(e) =>
    LET si   == elections[e].ShuffleInstances
        keys == [i \in DOMAIN si |-> si[i].ShufflerPublicKey]
    IN IsInjective(keys) /\ Range(keys) \subseteq Nodes

(* The trustees whose pub-shares were registered are pairwise distinct     *)
(* roster members (registerPubShares membership, distinctness, signature). *)
PubShareSubmittersDistinctMembers ==
  \A e \in Elections : Exists(e) =>
    LET pk == elections[e].PublicKeys IN
    IsInjective(pk) /\ Range(pk) \subseteq Nodes

(* The number of shuffles and of pub-share submissions agrees with the     *)
(* status: neither exceeds the threshold, the status leaves Closed exactly *)
(* when the threshold of shuffles is reached and ShuffledBallots exactly   *)
(* when the threshold of submissions is (the round checks and the >=       *)
(* threshold status updates of shuffleBallots and registerPubShares).      *)
RoundCountsMatchStatus ==
  \A e \in Elections : Exists(e) =>
    LET el == elections[e]
        ns == Len(el.ShuffleInstances)
        np == Len(el.PubSharesSubmissions)
        t  == el.ShuffleThreshold
    IN /\ ns <= t /\ np <= t /\ np = Len(el.PublicKeys)
       /\ el.Status \in {"Initial", "Open"} => ns = 0
       /\ el.Status = "Closed" => ns < t
       /\ el.Status \in {"ShuffledBallots", "PubSharesSubmitted",
                         "ResultAvailable"} => ns = t
       /\ el.Status \in {"Initial", "Open", "Closed"} => np = 0
       /\ el.Status = "ShuffledBallots" => np < t
       /\ el.Status \in {"PubSharesSubmitted", "ResultAvailable"} => np = t

(* spec.md section 7: every handler returns an error instead of failing;   *)
(* no transaction makes the contract panic (decryptBallots, Decrypt).      *)
NoPanic == lastTx.result # "panic"

(* spec.md sections 3 and 8: once the result is available there is one     *)
(* decrypted ballot per ballot of the last shuffle (decryptBallots).       *)
DecryptedMatchesShuffle ==
  \A e \in Elections :
    Exists(e) /\ elections[e].Status = "ResultAvailable" =>
      elections[e].DecryptedBallots =
        NbBallots(ShuffleInput(elections[e], Len(elections[e].ShuffleInstances)))

(* spec.md section 4.1: CancelElection is accepted only from a running     *)
(* status, and fails with a status mismatch once the election is Canceled  *)
(* or its result is available (cancelElection).                            *)
CancelOnlyWhileRunning ==
  [][lastTx'.cmd = "CancelElection" /\ lastTx'.result = "accepted" =>
       elections[lastTx'.election].Status \in Running]_vars

-----------------------------------------------------------------------------
(* Refinement: the contract implements the election lifecycle of module    *)
(* Lifecycle.  An absent election is one with no value in the snapshot;    *)
(* the cast ballots are those the next shuffle must permute (the board    *)
(* until the first shuffle, then the last shuffle's output).               *)

Abstract == INSTANCE Lifecycle WITH
  status <- [e \in Elections |->
               IF Exists(e) THEN elections[e].Status ELSE NoElection],
  cast   <- [e \in Elections |->
               IF Exists(e)
               THEN ShuffleInput(elections[e], Len(elections[e].ShuffleInstances))
               ELSE [v \in Votes |-> 0]],
  mixed  <- [e \in Elections |->
               IF Exists(e) THEN Len(elections[e].ShuffleInstances) ELSE 0],
  shared <- [e \in Elections |->
               IF Exists(e) THEN Len(elections[e].PubSharesSubmissions) ELSE 0],
  MaxBallots <- Cardinality(Users),
  Threshold  <- ByzantineThreshold(Cardinality(Nodes)),
  Absent     <- NoElection

(* Every step of the contract is a step of the lifecycle or leaves it     *)
(* unchanged: statuses only move forward along the pipeline or to          *)
(* Canceled, a shuffle or pub-share submission is counted once and never   *)
(* undone, the last one of the threshold moves the status on, and the      *)
(* ballots a shuffle must permute change only by votes while Open (all     *)
(* handlers, ShuffleInput, AdvanceStatus).                                 *)
RefinesLifecycle == Abstract!Spec

=============================================================================
