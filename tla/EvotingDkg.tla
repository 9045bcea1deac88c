------------------------------ MODULE EvotingDkg ------------------------------
(***************************************************************************)
(* The evoting contract composed with the DKG service of every roster     *)
(* node (services/dkg/pedersen/controller/action.go).                     *)
(*                                                                         *)
(* Each node keeps, per election, an in-memory DKG actor (dkg.GetActor)    *)
(* and a copy of it in its DKG bucket of the node-local key-value store.   *)
(* Operators drive the actors through the CLI (init, setup) or the HTTP    *)
(* proxy (POST actors, PUT actors/{id}).  Every node executes every        *)
(* transaction of a block; openElection is the one handler that reads      *)
(* node-local state, the node's actor, so each node reaches its own        *)
(* verdict on it.  A node may crash and restart: its actors are then       *)
(* rebuilt from its DKG bucket.                                             *)
(*                                                                         *)
(* The DKG service itself (Listen, Setup, GetPublicKey, ComputePubshares,  *)
(* reloading the bucket on start) is not under src/; it is modelled from   *)
(* spec.md sections 1, 5 and 6.  An actor is abstracted to the stage of    *)
(* its handler: "listening" (no share yet) or "setup" (holds its share of  *)
(* the collective key).                                                    *)
(***************************************************************************)
EXTENDS Evoting

CONSTANT
  MaxRestarts,   \* bound on node crashes in a behaviour
  NoVerdict      \* no openElection executed yet

ASSUME MaxRestarts \in Nat

VARIABLES
  actors,     \* node -> election -> stage of the in-memory DKG actor
  dkgStore,   \* node -> election -> stage of the actor saved in the DKG bucket
  verdicts,   \* node -> outcome of the last openElection on that node
  restarts    \* number of node crashes so far

dkgVars == <<actors, dkgStore, verdicts, restarts>>
allVars == <<vars, dkgVars>>

-----------------------------------------------------------------------------
(* The DKG service (spec-modelled).                                        *)

\* dkg.GetActor(electionID) finds an actor
HasActor(n, e) == actors[n][e] # "none"

\* actor.GetPublicKey() succeeds: the DKG has run for this actor
HasPubkey(n, e) == actors[n][e] = "setup"

\* dkg.Listen registers a fresh actor under the election ID, in place of
\* any actor already registered there
Listen(n, e) == actors' = [actors EXCEPT ![n][e] = "listening"]

\* actor.Setup(): one DKG run among the election's roster; every roster
\* node must be listening with a fresh actor, and each ends with its share
SetupOK(e) == Exists(e) /\ \A m \in Nodes : actors[m][e] = "listening"

RunSetup(e) == actors' = [m \in Nodes |-> [actors[m] EXCEPT ![e] = "setup"]]

\* actor.ComputePubshares(): the node computes its pub-shares of the last
\* shuffle and submits them for the round it reads
ComputePubsharesTx(n, e) ==
  [round |-> Len(elections[e].PubSharesSubmissions), key |-> n,
   signatureOK |-> TRUE, shape |-> HonestShape(elections[e])]

-----------------------------------------------------------------------------
(* The controller's actions and handlers.                                  *)

\* updateDKGStore(..., bucket.Set(electionID, actor.MarshalJSON()))
Persist(n, e) == dkgStore' = [dkgStore EXCEPT ![n][e] = actors'[n][e]]

\* initAction: fails with "DKG was already initialized" when an actor
\* exists (no state change); otherwise Listen and save the actor
InitAction(n, e) ==
  /\ ~HasActor(n, e)
  /\ Listen(n, e)
  /\ Persist(n, e)
  /\ UNCHANGED <<vars, verdicts, restarts>>

\* setupAction: fails without an actor or when Setup fails; otherwise the
\* initiating node saves its own actor, with its share
SetupAction(n, e) ==
  /\ HasActor(n, e)
  /\ SetupOK(e)
  /\ RunSetup(e)
  /\ Persist(n, e)
  /\ UNCHANGED <<vars, verdicts, restarts>>

\* CreateActorHandler (POST /evoting/services/dkg/actors): Listen, with
\* neither an existence check nor a save to the DKG bucket
CreateActorHandler(n, e) ==
  /\ Listen(n, e)
  /\ UNCHANGED <<vars, dkgStore, verdicts, restarts>>

\* UpdateActorHandler (PUT /evoting/services/dkg/actors/{id}): "actor does
\* not exist" without an actor; then Setup, nothing saved, or
\* ComputePubshares, whose transaction the contract executes
UpdateActorHandler(n, e, action) ==
  /\ HasActor(n, e)
  /\ \/ /\ action = "setup"
        /\ SetupOK(e)
        /\ RunSetup(e)
        /\ UNCHANGED <<vars, dkgStore, verdicts, restarts>>
     \/ /\ action = "computePubshares"
        /\ HasPubkey(n, e)
        /\ RegisterPubShares(e, ComputePubsharesTx(n, e))
        /\ UNCHANGED dkgVars

\* a node crashes and restarts: the DKG service rebuilds its actors from
\* the DKG bucket; the ledger is replicated and survives
Restart(n) ==
  /\ restarts < MaxRestarts
  /\ actors' = [actors EXCEPT ![n] = dkgStore[n]]
  /\ restarts' = restarts + 1
  /\ UNCHANGED <<vars, dkgStore, verdicts>>

\* openElection executed by every node on its own DKG actor
\* (evoting.go: e.pedersen.GetActor, dkgActor.GetPublicKey); the ledger
\* follows the verdict of the node that proposed the block
OpenElectionOn(leader, e) ==
  /\ OpenElection(e, HasPubkey(leader, e))
  /\ verdicts' = [m \in Nodes |->
                    IF OpenElectionOK(e, HasPubkey(m, e)) THEN "accepted"
                                                          ELSE "rejected"]
  /\ UNCHANGED <<actors, dkgStore, restarts>>

-----------------------------------------------------------------------------

InitDkg ==
  /\ Init
  /\ actors = [n \in Nodes |-> [e \in Elections |-> "none"]]
  /\ dkgStore = [n \in Nodes |-> [e \in Elections |-> "none"]]
  /\ verdicts = [n \in Nodes |-> NoVerdict]
  /\ restarts = 0

NextDkg ==
  \/ \E e \in Elections : HandlersWithoutOpen(e) /\ UNCHANGED dkgVars
  \/ \E n \in Nodes :
       \/ Restart(n)
       \/ \E e \in Elections :
            \/ OpenElectionOn(n, e)
            \/ InitAction(n, e)
            \/ SetupAction(n, e)
            \/ CreateActorHandler(n, e)
            \/ \E a \in {"setup", "computePubshares"} : UpdateActorHandler(n, e, a)

SpecDkg == InitDkg /\ [][NextDkg]_allVars

-----------------------------------------------------------------------------
(* Properties.                                                             *)

(* spec.md sections 2 and 4.1: the contract executor is a deterministic    *)
(* function of the transaction and the snapshot, so every node reaches the *)
(* same verdict on an OpenElection transaction, whatever its DKG actor and *)
(* however the operators created it (openElection, initAction,            *)
(* CreateActorHandler, restart).                                           *)
NodesAgreeOnOpen ==
  \A m, k \in Nodes : verdicts[m] = verdicts[k]

(* Until it crashes, a node that took part in the DKG keeps its share of  *)
(* the key: initAction refuses to initialize an actor twice ("DKG was     *)
(* already initialized") so that a second Listen cannot replace it         *)
(* (CreateActorHandler, initAction).                                       *)
DkgShareKept ==
  [][\A n \in Nodes, e \in Elections : HasPubkey(n, e) => HasPubkey(n, e)']_allVars

=============================================================================
