-------------------------- MODULE ShuffleOrchestrator --------------------------
(***************************************************************************)
(* The shuffle orchestrators of the honest trustees, the transaction pool *)
(* and the ordering layer, composed with the evoting contract.            *)
(*                                                                         *)
(* Each honest trustee runs a background task (the neff shuffle handler,  *)
(* whose source is not under src/; modelled from spec.md section 4.5): it *)
(* reads the committed election and, while it is Closed, below the        *)
(* shuffle threshold and without a shuffle of its own, submits a shuffle  *)
(* of the round it read to the pool and waits for the transaction on the  *)
(* event stream, as the proxy's waitForTxnID does (controller/http.go).   *)
(* The wait ends with the transaction's result, or with false when the    *)
(* stream is closed by the watch's timeout (spec.md 4.5 step 6); in both  *)
(* cases the task reads the election again and shuffles again while it    *)
(* must (the retry of a denied transaction is what neff/handler_test.go   *)
(* checks).  The prover seeds the same stream as the verifier (spec.md    *)
(* 4.3 and 9), so a shuffle whose hash gives a refused seed, 1 hash in    *)
(* 256 (module SemiRandomSeed), fails in makeTx; that error ends the task *)
(* without a retry (handler_test.go, "failed to make tx"; spec.md 7).     *)
(* The model takes the worst case: the trustee never shuffles that        *)
(* election again.  The pool may lose a transaction (a bounded number of  *)
(* times).  The ordering layer executes pool transactions one at a time, *)
(* in any order, with the contract's ShuffleBallots.  Clients and the     *)
(* Byzantine trustees act through the contract's other handlers and       *)
(* through shuffle transactions of their own.                              *)
(***************************************************************************)
EXTENDS Evoting

CONSTANTS
  MaxLost,     \* bound on pool transactions lost in a behaviour
  MaxFailed,   \* bound on honest tasks ended by a makeTx failure
  NoWait       \* the trustee is not waiting for a transaction

ASSUME MaxLost \in Nat /\ MaxFailed \in Nat

VARIABLES
  pool,      \* <<election, shuffle transaction>> submitted, not yet executed
  waiting,   \* honest trustee -> the <<election, transaction>> it waits for
  lost,      \* number of pool transactions lost so far
  failed     \* the <<trustee, election>> tasks ended by a makeTx failure

orchVars == <<pool, waiting, lost, failed>>
allVars  == <<vars, orchVars>>

\* the shuffle transactions an honest trustee can build
HonestShuffleTxs == [round : Rounds, key : Honest, signatureOK : {TRUE},
                     randomVectorOK : {TRUE}, shuffled : Tally]

\* the shuffle transactions of Byzantine trustees and outsiders
ForeignShuffleTxs == {tx \in ShuffleTxs : tx.key \notin Honest}

-----------------------------------------------------------------------------
(* The orchestrator of trustee n (spec-modelled).                          *)

\* mutant: the task counts the round it is about to shuffle as done
ShufflingDoneEarly(el) == Len(el.ShuffleInstances) + 1 >= el.ShuffleThreshold

\* shuffling is over once the threshold of shuffles is reached
ShufflingDone(el) == Len(el.ShuffleInstances) >= el.ShuffleThreshold

\* the task acts on a Closed election below the threshold that has no
\* shuffle of its own
MustShuffle(n, el) ==
  /\ el.Status = "Closed"
  /\ ~ShufflingDone(el)
  /\ \A i \in DOMAIN el.ShuffleInstances : el.ShuffleInstances[i].ShufflerPublicKey # n

\* the shuffle of the round it read: a re-encryption of that round's input,
\* signed, with the random vector drawn from the stream of its hash
ShuffleOf(n, el) ==
  [round |-> Len(el.ShuffleInstances), key |-> n, signatureOK |-> TRUE,
   randomVectorOK |-> TRUE,
   shuffled |-> ShuffleInput(el, Len(el.ShuffleInstances))]

\* a task that may act: not waiting, not ended, and the election needs it
TaskActs(n, e) ==
  /\ waiting[n] = NoWait
  /\ <<n, e>> \notin failed
  /\ Exists(e)
  /\ MustShuffle(n, elections[e])

\* makeTx succeeds: the transaction goes to the pool and the task waits
Submit(n, e) ==
  /\ TaskActs(n, e)
  /\ pool' = pool \cup {<<e, ShuffleOf(n, elections[e])>>}
  /\ waiting' = [waiting EXCEPT ![n] = <<e, ShuffleOf(n, elections[e])>>]
  /\ UNCHANGED <<vars, lost, failed>>

\* makeTx fails (NewSemiRandomStream refuses the seed of the shuffle's
\* hash): the error ends the task for this election; nothing is submitted
\* and nothing is retried
MakeTxFails(n, e) ==
  /\ TaskActs(n, e)
  /\ Cardinality(failed) < MaxFailed
  /\ failed' = failed \cup {<<n, e>>}
  /\ UNCHANGED <<vars, pool, waiting, lost>>

\* waitForTxnID: the event carrying the awaited transaction's ID ends the
\* wait with its status
Deliver(e, tx) ==
  waiting' = [waiting EXCEPT ![tx.key] = IF @ = <<e, tx>> THEN NoWait ELSE @]

\* waitForTxnID: the event stream closes (the watch timed out) before the
\* transaction appears; the wait returns false
Timeout(n) ==
  /\ waiting[n] # NoWait
  /\ waiting' = [waiting EXCEPT ![n] = NoWait]
  /\ UNCHANGED <<vars, pool, lost, failed>>

-----------------------------------------------------------------------------
(* The pool and the ordering layer.                                        *)

\* the ordering layer executes a pool transaction and publishes its result
Order(e, tx) ==
  /\ <<e, tx>> \in pool
  /\ ShuffleBallots(e, tx)
  /\ pool' = pool \ {<<e, tx>>}
  /\ Deliver(e, tx)
  /\ UNCHANGED <<lost, failed>>

\* a submitted transaction is lost before it is ordered
Lose(e, tx) ==
  /\ <<e, tx>> \in pool
  /\ lost < MaxLost
  /\ pool' = pool \ {<<e, tx>>}
  /\ lost' = lost + 1
  /\ UNCHANGED <<vars, waiting, failed>>

\* clients, the admin and the Byzantine trustees
Environment(e) ==
  \/ \E admin \in Users, valid \in BOOLEAN : CreateElection(e, admin, valid)
  \/ \E dkgReady \in BOOLEAN : OpenElection(e, dkgReady)
  \/ \E u \in Users, b \in Ballots : CastVote(e, u, b)
  \/ \E u \in Users : CloseElection(e, u)
  \/ \E u \in Users : CancelElection(e, u)
  \/ \E tx \in ForeignShuffleTxs : ShuffleBallots(e, tx)

-----------------------------------------------------------------------------

InitOrch ==
  /\ Init
  /\ pool = {}
  /\ waiting = [n \in Honest |-> NoWait]
  /\ lost = 0
  /\ failed = {}

NextOrch ==
  \/ \E e \in Elections : Environment(e) /\ UNCHANGED orchVars
  \/ \E n \in Honest : Timeout(n)
  \/ \E n \in Honest, e \in Elections : Submit(n, e)
  \/ \E n \in Honest, e \in Elections : MakeTxFails(n, e)
  \/ \E e \in Elections, tx \in HonestShuffleTxs : Order(e, tx)
  \/ \E e \in Elections, tx \in HonestShuffleTxs : Lose(e, tx)

(* Fairness.  The orchestrator is a background task of every honest node  *)
(* that reacts to the committed state: a task that must shuffle and has   *)
(* not ended submits.  A makeTx failure is a crash-stop of that task and  *)
(* has no fairness.  The orchestrator's wait times out (spec.md 4.5 step  *)
(* 6); the proxy's callers of waitForTxnID set no deadline, and they are  *)
(* not part of this module.  The ordering layer eventually orders every   *)
(* transaction that stays in the pool.  Clients, the admin and the        *)
(* Byzantine trustees are not required to act.                             *)
FairnessOrch ==
  /\ \A n \in Honest, e \in Elections : WF_allVars(Submit(n, e))
  /\ \A n \in Honest : WF_allVars(Timeout(n))
  /\ \A e \in Elections, tx \in HonestShuffleTxs : WF_allVars(Order(e, tx))

SpecOrch == InitOrch /\ [][NextOrch]_allVars /\ FairnessOrch

-----------------------------------------------------------------------------
(* Properties.                                                             *)

(* spec.md sections 4.5 and 9: with at least ShuffleThreshold honest      *)
(* trustees whose task does not fail, a Closed election eventually leaves *)
(* Closed, for ShuffledBallots, unless the admin cancels it: stale        *)
(* rounds, lost transactions, timeouts and retries, the Byzantine         *)
(* trustees' shuffles, and a spare honest trustee whose task a refused    *)
(* seed ended, do not stop the mix-net (orchestrator retry loop,          *)
(* waitForTxnID, shuffleBallots round and threshold checks).              *)
ShufflingTerminates ==
  \A e \in Elections :
    (Exists(e) /\ elections[e].Status = "Closed")
      ~> (Exists(e) /\ elections[e].Status \in {"ShuffledBallots", "Canceled"})

=============================================================================
