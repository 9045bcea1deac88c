----------------------------- MODULE EvotingBlock -----------------------------
(***************************************************************************)
(* The evoting contract executed block by block.  The ordering layer runs  *)
(* the transactions of a block one after the other on the block's          *)
(* snapshot; each execution step carries the transaction (step.Current)    *)
(* and the transactions of the block executed before it (step.Previous),   *)
(* accepted or rejected.  shuffleBallots and registerPubShares first scan *)
(* step.Previous for a transaction of the same round                        *)
(* (checkPreviousShuffleTransactions, checkPreviousPubSharesTransactions). *)
(*                                                                         *)
(* A transaction of step.Previous is kept as what the scans read of it:    *)
(* its command argument, the round its payload decodes to (JSON leaves     *)
(* Round at 0 for a payload of another command), and, for the properties, *)
(* its election and outcome.  The execution step and the block boundary    *)
(* come from dela (not under src/) and are modelled from spec.md sections  *)
(* 2, 4.1 and 6.                                                            *)
(***************************************************************************)
EXTENDS Evoting

CONSTANTS
  MaxBlockTxs,   \* bound on the transactions of one block
  ElectionArg    \* the name of the payload argument, evoting.ElectionArg

ASSUME MaxBlockTxs \in Nat \ {0}
ASSUME ElectionArg \notin Commands

VARIABLE
  previous   \* step.Previous: the transactions executed so far in the block

allVars == <<vars, previous>>

-----------------------------------------------------------------------------
(* The in-block scans.                                                     *)

\* string(tx.GetArg(CmdArg)) == ElectionArg: the scan compares the command
\* argument with the name of the payload argument, for either command
ScanSelects(ptx, cmd) == ptx.cmd = ElectionArg

\* checkPreviousShuffleTransactions: "shuffle is already happening in this
\* round" when a selected previous transaction has the same round
CheckPreviousShuffleTransactions(round) ==
  \E i \in DOMAIN previous :
    ScanSelects(previous[i], "ShuffleBallots") /\ previous[i].round = round

\* checkPreviousPubSharesTransactions: "pubShares have already been
\* submitted in this round"
CheckPreviousPubSharesTransactions(round) ==
  \E i \in DOMAIN previous :
    ScanSelects(previous[i], "RegisterPubShares") /\ previous[i].round = round

-----------------------------------------------------------------------------
(* Execution steps.                                                        *)

\* the ordering layer appends the executed transaction to step.Previous
Executed(cmd, e, round) ==
  previous' = Append(previous, [cmd |-> cmd, election |-> e, round |-> round,
                                result |-> lastTx'.result])

\* shuffleBallots: the scan comes right after decoding the transaction,
\* before the election is read
ShuffleInBlock(e, tx) ==
  /\ IF CheckPreviousShuffleTransactions(tx.round)
        THEN Reject("ShuffleBallots", e)
        ELSE ShuffleBallots(e, tx)
  /\ Executed("ShuffleBallots", e, tx.round)

\* registerPubShares: the same scan for pub-share submissions
RegisterPubSharesInBlock(e, tx) ==
  /\ IF CheckPreviousPubSharesTransactions(tx.round)
        THEN Reject("RegisterPubShares", e)
        ELSE RegisterPubShares(e, tx)
  /\ Executed("RegisterPubShares", e, tx.round)

\* the handlers without a scan; their payload has no Round field
OtherHandlerInBlock(e) ==
  /\ \/ \E dkgReady \in BOOLEAN : OpenElection(e, dkgReady)
     \/ \E admin \in Users, valid \in BOOLEAN : CreateElection(e, admin, valid)
     \/ \E u \in Users, b \in Ballots : CastVote(e, u, b)
     \/ \E u \in Users : CloseElection(e, u)
     \/ \E u \in Users : DecryptBallots(e, u)
     \/ \E u \in Users : CancelElection(e, u)
  /\ Executed(lastTx'.cmd, e, 0)

\* the block is committed; the next one starts with an empty step.Previous
CommitBlock ==
  /\ previous # <<>>
  /\ previous' = <<>>
  /\ UNCHANGED vars

InitBlock == Init /\ previous = <<>>

NextBlock ==
  \/ /\ Len(previous) < MaxBlockTxs
     /\ \E e \in Elections :
          \/ OtherHandlerInBlock(e)
          \/ \E tx \in ShuffleTxs : ShuffleInBlock(e, tx)
          \/ \E tx \in PubSharesTxs : RegisterPubSharesInBlock(e, tx)
  \/ CommitBlock

SpecBlock == InitBlock /\ [][NextBlock]_allVars

-----------------------------------------------------------------------------
(* Properties.                                                             *)

\* two transactions of the block, in this order, for the same round of the
\* same election with the same command, a shuffle or a pub-share submission
SameRoundPair(i, j) ==
  /\ i < j
  /\ previous[i].cmd = previous[j].cmd
  /\ previous[i].cmd \in {"ShuffleBallots", "RegisterPubShares"}
  /\ previous[i].election = previous[j].election
  /\ previous[i].round = previous[j].round

(* spec.md section 8: of two shuffles, or two pub-share submissions, for   *)
(* the same round of an election in one block, at most one is accepted.    *)
(* The in-block scans never select anything, so this rests on the round    *)
(* check of the sequentially updated snapshot (shuffleBallots,             *)
(* registerPubShares, checkPrevious*Transactions).                         *)
SameRoundAcceptedOnce ==
  \A i, j \in DOMAIN previous :
    SameRoundPair(i, j) /\ previous[i].result = "accepted"
      => previous[j].result # "accepted"

(* spec.md section 4.3 step 1 and section 6: a shuffle transaction is      *)
(* rejected when an earlier transaction of its block is a shuffle of the   *)
(* same election and round, "first-seen wins" (checkPreviousShuffle-       *)
(* Transactions).                                                          *)
InBlockDuplicateRejected ==
  \A i, j \in DOMAIN previous :
    SameRoundPair(i, j) /\ previous[i].cmd = "ShuffleBallots"
      => previous[j].result = "rejected"

=============================================================================
