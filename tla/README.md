# TLA+ models of d-voting

TLA+ models of the d-voting e-voting contract and its off-chain helpers, checked
with TLC. Source files are under `src/`. The natural-language specification is
`spec.md`.

## 1. Inventory

### Components and their state

| Component | Source | State | Operations |
|---|---|---|---|
| Contract executor / election state machine | `contracts/evoting/evoting.go` | Ledger snapshot: election ID → serialized `types.Election`. The `ElectionsMetadataKey` index of election IDs. | `createElection`, `openElection`, `castVote`, `closeElection`, `shuffleBallots`, `registerPubShares`, `decryptBallots`, `cancelElection`. Each reads the snapshot, checks, and writes back or returns an error. |
| Election record | `types.Election` (not under `src/`), built at `evoting.go:85-99` | `AdminID`, `Status` (Initial … Canceled), `Pubkey`, `PublicBulletinBoard` (user → ciphervote, overwrite in place), `ShuffleInstances` (shuffled ballots, proof, shuffler key), `PubSharesArchive` (submissions and submitter keys), `DecryptedBallots`, `RosterBuf`, `ShuffleThreshold` | — |
| Shuffle verifier | `shuffleBallots`, `checkPreviousShuffleTransactions`, `isMemberOf`, `NewSemiRandomStream` | (none of its own) | Checks, in order: in-block duplicate, status Closed, round = number of shuffles, roster membership, distinct shuffler, BLS signature, random vector from the semi-random stream, Neff proof. Then it appends the shuffle and advances the status at the threshold. |
| Threshold decryption | `registerPubShares`, `checkPreviousPubSharesTransactions`, `decryptBallots`, `Decrypt` | (none of its own) | Register: the same checks as a shuffle, then archive. Decrypt: the admin asks for Lagrange recovery of every pair. |
| Semi-random stream | `NewSemiRandomStream`, `XORKeyStream` (`evoting.go:773-812`) | A `math/rand` source seeded by `binary.Varint` of the first 8 bytes of the hash | Derive the random vector a shuffle must carry. |
| DKG controller | `services/dkg/pedersen/controller/action.go` | Node-local: DKG actor per election (`dkg.GetActor`), DKG key-value store bucket | CLI `init` (fails if the actor exists, persists it), `setup` (runs DKG, persists), `getPublicKey`, `exportInfo`; HTTP `POST actors` (Listen, **no** existence check, **not** persisted), `PUT actors/{id}` (`setup` / `computePubshares`). |
| HTTP election proxy | `contracts/evoting/controller/http.go` | Signer, pool, ordering service | `waitForTxnID` (blocks on the event stream until the tx appears or the stream closes), `getElectionsMetadata`. |
| Shuffle orchestrator | neff handler (only `handler_test.go` is under `src/`) | Per node: elections it is shuffling | On a Closed election below the threshold: read the input, shuffle, sign, submit, wait for inclusion. |
| External | dela ordering, pool, transport, store | — | Orders transactions and runs the contract one transaction at a time on the block's snapshot. |

### Interactions

Clients and trustees submit transactions (through the HTTP proxy, the orchestrator
or the DKG actor's `computePubshares`) to the pool. The ordering layer puts them
into blocks. Every node runs the contract on each transaction of a block in
order, on a shared snapshot. `openElection` is the one handler that reads
node-local state: it calls the node's DKG actor for the public key. Off-chain
actors see committed state only through proofs (`GetProof`) and the event
stream (`Watch`).

### What makes the system hard

* Many actors submit transactions built from state they read earlier. A
  shuffle is for round `r = |ShuffleInstances|` as the trustee saw it. By the
  time it is ordered, that round may be gone.
* Retries after a timeout resubmit work that may already be committed.
* Byzantine trustees sign whatever they like. Only what the handler checks
  protects the election.
* Two same-round transactions can sit in the same block, and the scans meant
  to catch them compare the wrong argument.
* The contract reads node-local DKG state, so nodes can disagree on the result.
* Thresholds and indexing sit at boundaries: `>=` threshold, `[0][0]`, 8-byte
  Varint seeds.

### Properties that make each component correct

* State machine: the status moves only along the lifecycle edges of spec §4.1.
  Admin-only operations stay admin-only. No handler panics.
* Shuffle verifier: every accepted shuffle re-encrypts the board's ballots.
  Shufflers are distinct roster members. The number of shuffles agrees with the
  status.
* Decryption: submitters are distinct roster members. Once the result is
  available, there is one decrypted ballot per shuffled ballot.
* DKG + executor: every node reaches the same verdict on a transaction.
* Orchestrator: with at least `ShuffleThreshold` honest trustees, a Closed
  election eventually reaches ShuffledBallots.

## 2. Modules and runs

### `Evoting.tla` — the contract

It models `evoting.go`. The variables are:

* `elections`: the snapshot, election ID → record with the Go field names.
* `metadata`: `ElectionsMetadata.ElectionsIDs`.
* `lastTx`: command, election and outcome (accepted / rejected / panic) of the
  last transaction. It lets properties talk about what a transaction did.

Each handler is one action of a `Next` that runs one transaction at a time:
`CreateElection`, `OpenElection`, `CastVote`, `CloseElection`, `ShuffleBallots`,
`RegisterPubShares`, `DecryptBallots`, `CancelElection`. Each action has an
`…OK` operator that is the conjunction of the handler's checks, in code order.
The accept disjunct does the handler's assignments and its `Serialize`/`snap.Set`.
The reject disjunct leaves the snapshot unchanged.

`DecryptBallots` follows the code to its end:

* If the first submission has no ballot, `[0][0]` is out of range: panic.
* If it has pairs, `Decrypt` calls `UnmarshalBinary` on a nil `kyber.Point`
  interface: panic.
* If it has no pair, nothing is decrypted. Every ballot fails to unmarshal and
  is counted as empty. The status becomes ResultAvailable.

Data abstraction:

* A ciphervote is its plaintext.
* A list of ciphertexts is the tally of its plaintexts. The Neff proof binds
  only the multiset, so a proof verifies iff the output tally equals the input
  tally.
* A key is the node that owns it.
* A pub-share submission is its shape: number of rows, and pairs in the first
  row. That is all `decryptBallots` reads.

Transactions range over every value of their fields:

* Round: 0..threshold.
* Any key, including a non-roster `Outsider`.
* Signature and random vector valid or not.
* Any shuffled tally and any shape.

An honest trustee's key signs only the pub-shares it computed (`PubSharesSigned`).
A Byzantine key signs anything. In `Evoting`, `openElection`'s DKG lookup is an input
(`dkgReady`). `EvotingDkg` replaces it with each node's actor.

### `MC_Evoting.tla` and its configurations

The model has one election, two users (admin and voters), two plaintexts,
`ChunksPerBallot = 1`, and four roster nodes. With four nodes the threshold is
f+1 = 2, so rounds 0 and 1 both happen, a second shuffle can collide with the
first, and the threshold boundary is crossed. `n4` is Byzantine in the passing
run. Two users are enough to close: close needs two ballots.

Users, plaintexts and honest nodes are symmetry sets: the model only compares
them for equality. All runs are safety checks, so symmetry is sound.

| Run | Cfg | Expect | What it shows |
|---|---|---|---|
| `evoting_safety` | `MC_Evoting.cfg` | pass (4,765 distinct states) | `ShuffleChainPreservesBallots`, `ShufflersDistinctMembers`, `PubShareSubmittersDistinctMembers` and `RoundCountsMatchStatus` hold against a Byzantine trustee, stale rounds, retries and late votes. |
| `decrypt_panics` | `MC_Evoting_panic.cfg` | violation of `NoPanic` | With honest trustees only: create, open, 2 votes, close, 2 shuffles, 2 registrations, then the admin's decrypt panics (`evoting.go:691`). No run reaches ResultAvailable honestly. |
| `decrypt_count` | `MC_Evoting_decrypted.cfg` | violation of `DecryptedMatchesShuffle` | A Byzantine first submission of one row with no pair yields ResultAvailable with 1 decrypted ballot for 2 shuffled ballots (`evoting.go:642`, TODO at 559). |
| `cancel_any_status` | `MC_Evoting_cancel.cfg` | violation of `CancelOnlyWhileRunning` | Cancel, then cancel again: the second is accepted on a Canceled election (`evoting.go:730`). |

Each passing property has a mutant that TLC catches (`PROJECT.json` "mutants"):

* the whole ciphervote record stored on the board (breaks `TypeOK`);
* the proof check dropped;
* the distinct-shuffler loop dropped;
* the distinct-submitter loop dropped;
* `>` instead of `>=` at the threshold.

In `MC_Evoting_refine.cfg` the same model is checked against the abstract
specification (next section).

### `Lifecycle.tla`: what the contract promises

`Lifecycle` is the abstract specification of an election, without ciphertexts,
keys or proofs. Its variables are:

* `status`;
* `cast`: the tally of cast ballots;
* `mixed` and `shared`: the number of shuffles and of pub-share submissions.

Its actions follow the pipeline of spec §4.1:

* a vote changes the ballots only while the election is Open, adding at most one;
* Close needs two ballots;
* `Threshold` shuffles move the election to ShuffledBallots, and `Threshold`
  submissions move it to PubSharesSubmitted;
* Cancel is allowed from any status. That is the code's rule; the run
  `cancel_any_status` shows that it disagrees with the spec.

`Evoting` ends with the refinement mapping
`Abstract == INSTANCE Lifecycle WITH ...`. It maps:

* `status` to the record's `Status`;
* `cast` to the input of the round the mix-net has reached (`ShuffleInput`, which
  is the board while no shuffle exists);
* `mixed` and `shared` to the lengths of `ShuffleInstances` and
  `PubSharesSubmissions`;
* `Threshold` to the Byzantine threshold of the roster.

The run `lifecycle_refinement` checks `RefinesLifecycle == Abstract!Spec`. It
passes with the Byzantine `n4`: whatever a Byzantine trustee signs, the contract
does not let it add, drop or change a ballot, or skip a stage. The mutant that
drops the status check of `castVote` breaks it, because a vote then changes the
ballots of a Closed election.

### `EvotingDkg.tla`: the DKG controller composed with the contract

`EvotingDkg` extends `Evoting` with the DKG controller of every roster node
(`services/dkg/pedersen/controller/action.go`). Its variables are:

* `actors[n][e]`: the node's in-memory actor, one of "none", "listening" (no
  share) or "setup" (holds its share of the key);
* `dkgStore[n][e]`: the copy in the node's DKG bucket;
* `verdicts[n]`: what node `n` decided on the last `openElection`;
* `restarts`: the number of crashes, bounded by `MaxRestarts`.

Its actions:

* `InitAction` (CLI `init`): refuses if an actor exists; otherwise Listen and
  save to the bucket.
* `SetupAction` (CLI `setup`): runs the DKG on every node and saves only the
  initiating node's actor.
* `CreateActorHandler` (HTTP POST): Listen, with no existence check and no save.
* `UpdateActorHandler` (HTTP PUT): `setup`, which saves nothing, or
  `computePubshares`, whose transaction the contract executes through
  `RegisterPubShares`.
* `Restart(n)`: the node's actors are rebuilt from its bucket.
* `OpenElectionOn(leader, e)`: `openElection` on every node, each with its own
  actor. The ledger follows the leader's verdict.

The DKG service itself is not under `src/` and is modelled from spec.md §1, §5
and §6 (`spec_modelled` in the map). The assumptions are:

* Listen replaces any actor registered under the same election;
* Setup needs every roster node listening with a fresh actor;
* a restart reloads the bucket.

`MC_EvotingDkg.tla` has one election, three honest nodes and `MaxRestarts` of 1
(or 0).

### `ShuffleOrchestrator.tla`: liveness of the mix-net

The neff shuffle handler is not under `src/` (only its test is).
`ShuffleOrchestrator` models it from spec §4.5 as a task of each honest trustee.
The task:

* reads the committed election;
* while the election is Closed, below the threshold and without a shuffle of its
  own, submits the shuffle of the round it read (`Submit`);
* waits for it on the event stream as `waitForTxnID` does (http.go 84-99). The
  wait ends with the result (`Deliver`, part of `Order`) or with false when the
  stream closes (`Timeout`);
* reads the election again, and shuffles again while it still must. This retry
  after a denied transaction is what `neff/handler_test.go` checks: its fake
  denies the first transaction and the handler still ends without error.

The prover seeds the same semi-random stream as the verifier (spec §4.3 and
§9). `SemiRandomSeed` shows that 1 hash in 256 gives a refused Varint seed, so
for such a hash the trustee's `makeTx` fails. `handler_test.go` shows that an
error in `makeTx` ("failed to make tx: …") ends `handleStartShuffle`, and spec
§7 says cryptographic errors are never retried. `MakeTxFails(n, e)` models this
worst case as a crash-stop: the task ends for that election and never shuffles
it again. At most `MaxFailed` tasks fail this way, and `failed` records which.

The pool is a set of `<<election, tx>>`. `Order` executes any pool transaction
with the contract's `ShuffleBallots`. `Lose` drops one, at most `MaxLost` times.
`Environment` is everything else: clients, the admin, and the Byzantine
trustees' own shuffle transactions, valid or not.

Fairness (`FairnessOrch`) is weak fairness on:

* `Submit` and `Timeout` of every honest trustee. The task is a background
  loop of a running node. Its wait times out (spec §4.5 step 6); the timeout is
  the orchestrator's own, since no caller of `waitForTxnID` under `src/` sets a
  deadline. The HTTP proxy's wait can therefore block forever on a lost
  transaction, and that is not checked here;
* `Order` of every honest transaction: the ordering layer eventually includes a
  transaction that stays in the pool.

`MakeTxFails` has no fairness: like a process crash, it may happen or not.
Nothing is assumed of clients, the admin or Byzantine trustees. Losses are
bounded, because a pool that loses every transaction forever admits no progress.

`MC_ShuffleOrchestrator.tla` has four nodes, one of them Byzantine, so three
trustees are honest for `ShuffleThreshold = 2`: one spare. It has one
plaintext, `MaxLost = 1` and `MaxFailed = 1` (209,683 distinct states, about
70 s). With `MaxFailed = 2`, fewer than the threshold of honest tasks remain,
and TLC finds the election stuck in Closed. So with exactly `ShuffleThreshold`
honest trustees, a single refused seed stops the mix-net. The property states
the spec's assumption of a threshold of honest trustees whose task does not
fail, and checks that the spare absorbs one failure.
Symmetry is not used, since the property is
temporal.

### `SemiRandomSeed.tla`: the seed of the random-vector stream

This module translates `NewSemiRandomStream` (evoting.go 784-797):

* the hash is truncated to 8 bytes;
* `binary.Varint` is computed through `binary.Uvarint`, a RECURSIVE operator
  `UvarintFrom`;
* the stream is refused when `n <= 0`.

The value is kept as its sequence of 7-bit groups. A 49-bit value would overflow
TLC's integers, and the zigzag step of `Varint` is a bijection, so the groups
are what tells seeds apart.

The single variable `hash` grows one byte at a time, up to `MaxHashLen = 9`,
from the bytes {0, 127, 128, 255}. Those bytes are the two sides of the
high-bit boundary and of the 7-bit value boundary. Every prefix of every such
hash is a state, so the 8-byte cut is crossed.

### Runs added with these modules

| Run | Cfg | Expect | What it shows |
|---|---|---|---|
| `lifecycle_refinement` | `MC_Evoting_refine.cfg` | pass | `Evoting` implements `Lifecycle` under the mapping above, with a Byzantine trustee. |
| `dkg_open_diverges` | `MC_EvotingDkg_open.cfg` | violation of `NodesAgreeOnOpen` | The CLI `init`s three nodes, one HTTP `setup` gives every node its share but saves none, and `n1` restarts. `openElection` is then accepted by two nodes and rejected by `n1`: the executor is not a function of the transaction and the snapshot (spec §2; evoting.go:170). |
| `dkg_share_dropped` | `MC_EvotingDkg_share.cfg` | violation of `DkgShareKept` | After setup, a second POST `actors` replaces a node's actor with a fresh one and its share is gone, with no crash: `CreateActorHandler` lacks `initAction`'s existence check (action.go:343 vs 55). |
| `shuffle_liveness` | `MC_ShuffleOrchestrator.cfg` | pass | `ShufflingTerminates` holds: with three honest trustees for a threshold of two, a Closed election eventually reaches ShuffledBallots or is canceled. Stale rounds, a lost transaction, timeouts with retries, Byzantine shuffles and one honest task ended for good by a `makeTx` failure (refused seed) do not stop it. The mutant that counts the round being shuffled as done stops one trustee short, and TLC finds the election stuck in Closed. |
| `varint_seed` | `SemiRandomSeed.cfg` | pass | `SeedMatchesReference`: the recursive Uvarint agrees with a non-recursive reference (refused iff no byte below 0x80 among the first 8; the seed is those bytes up to the first low one). The mutant that refuses only on overflow breaks it. |
| `varint_seed_refused` | `SemiRandomSeed_spec.cfg` | violation of `SeedAlwaysAccepted` | The 8 bytes `255 … 255` are refused, so an honest shuffle whose hash starts with 8 high-bit bytes (1 hash in 256) is rejected (evoting.go:790), contrary to spec §8. |

### `EvotingBlock.tla`: the contract executed in blocks

`EvotingBlock` extends `Evoting` with the block structure of the ordering
layer. The variable `previous` is `step.Previous`: the transactions of the
current block executed so far, accepted or rejected. An element keeps:

* what the scans read: the command argument, and the round its payload decodes
  to (0 for the payload of another command, which has no Round field);
* its election and outcome, for the properties.

The actions are:

* `ShuffleInBlock`: `shuffleBallots` preceded by its scan
  `checkPreviousShuffleTransactions`;
* `RegisterPubSharesInBlock`: the same for `registerPubShares`;
* `OtherHandlerInBlock`: the other handlers;
* `CommitBlock`, which starts a new block.

The scans are translated as written. `ScanSelects` compares the command
argument with the name of the payload argument, `ElectionArg`. That is a
constant distinct from every command (`ASSUME ElectionArg \notin Commands`), so
the scan never selects a transaction. The execution step and the block boundary
come from dela and are modelled from spec §2 and §5.

`MC_EvotingBlock.tla` is the `MC_Evoting` instance with blocks of up to
`MaxBlockTxs = 2` transactions, enough for a pair in one block. A bound of 3
also passes, with 1.18M states, but takes more than 8 minutes.

| Run | Cfg | Expect | What it shows |
|---|---|---|---|
| `block_same_round` | `MC_EvotingBlock.cfg` | pass (99,019 distinct states) | `SameRoundAcceptedOnce`: of two shuffles, or two pub-share submissions, for the same round of an election in one block, at most one is accepted. The scans are dead, so this rests on the round check on the sequentially updated snapshot. The mutant that refuses only rounds ahead of the election (`<=` for `=`) lets a second round-0 shuffle in. |
| `block_first_seen` | `MC_EvotingBlock_dup.cfg` | violation of `InBlockDuplicateRejected` | A Byzantine round-0 shuffle is rejected, and an honest round-0 shuffle later in the same block is accepted. spec §4.3 step 1 and §5 say an earlier same-round shuffle in the block rejects it ("first-seen wins"). The code's behaviour is the safer one: an invalid transaction cannot block a round. |

### Notes on the spec

* spec §3 gives the threshold both as `f+1` and as `n - ceil((n-1)/3)`. These
  differ for n = 4. `threshold.ByzantineThreshold` is in dela, not in `src/`, so
  the model follows the spec's worked scenarios S1 and S4 (f+1).
* spec §3 says "publicKey is nil iff status = Initial". Yet Cancel from Initial
  is allowed, which leaves a Canceled election without a key. The model keeps
  the code's behaviour and does not check that sentence.

## 3. Not modelled, and why

* **Transaction decoding** (`getTransaction`, evoting.go 856-872). Every
  modelled transaction decodes. A payload that does not decode is rejected
  before any other check, the same outcome as a failed precondition.
* **Cryptography** (ElGamal, Neff proof, BLS, Lagrange recovery, point
  embedding, the blake2xb keystream of `XORKeyStream`). It is out of TLC's reach
  and abstracted to its outcomes.
* **`exportInfo`, `getPublicKey` and `getElectionsMetadata`.** They only read and
  print or serve.
* **JSON/hex encoding and HTTP routing.** These are pure I/O.
* **dela** (consensus, p2p, key-value store). The ordering layer is abstracted
  as described above. The DKG service and the neff handler, which are also not
  under `src/`, are modelled from spec.md where the code depends on them.
* **Too few honest trustees.** The orchestrator is not checked with fewer than
  `ShuffleThreshold` honest trustees. There the election obviously never leaves
  Closed (evoting.go:98), and spec §9 assumes enough honest trustees, so TLC
  would only confirm the assumption.
* **The HTTP proxy's blocked wait** (`waitForTxnID`, http.go 84-99, as called
  by the proxy). No caller under `src/` sets a deadline, so a transaction lost
  from the pool leaves the HTTP request waiting forever. That changes no state
  of the contract. The orchestrator's wait, which does time out (spec §4.5
  step 6), is the one `ShuffleOrchestrator` models.
