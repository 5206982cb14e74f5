# Gleipnir: a TLA+ verification project

Gleipnir anchors provenance entries (hashes that clients hand in) in a chain of
blocks that a fixed set of validators agrees on. This directory models the
program under `src/`, checks the models with TLC on small instances, and proves
the properties that matter most with TLAPS for every instance.

`PROJECT.json` is the index: every component with its status, every run, the
source lines each definition stands for, the disagreements that were found, every
hazard with the line where it bites and the properties that cover it, and the
theorems. This text explains them.

## 1. The system and its models

What makes the system hard: validators run the same cycle concurrently and meet
only on a bus; any wait may time out while what it waited for is on its way; an
aborted cycle is repeated on a bus that still holds what the first attempt
published; the state tree is changed before a block is agreed and must be restored
on every early return; a block's signatures are matched to signers by position; a
key rotation is timed by one counter and applied by another; what is kept on disk
is written in several transactions; and read calls, sub-chains, submissions and
the publisher run beside a cycle that holds the engine's lock.

| Part | Modules | Source |
|---|---|---|
| Consensus over the in-memory bus | `PrepareQuorum`, `Engine`, `MemoryBus`, `Consensus`; abstract: `BatchLog` | `pkg/consensus` engine, prepare, commit, triad, gossip |
| Consensus over libp2p | `GossipBus`, `P2PConsensus` (with `Engine`), `PeerMesh` | `pkg/transport/p2p/gossip.go` |
| Degraded mode, cycle pacing | `DegradedMode`, `CyclePacing` | `degraded.go`, `engine.go` |
| Network state | `NetworkState` | `pkg/state` |
| Key rotation | `KeyRotation`, `KeyHistory` | `key_rotation.go` in three packages |
| Mandates, compliance | `Mandates`, `Compliance` | `mandates.go`, `pkg/validation` |
| Submission and its limits | `Submission`, `ApiServers` | `api.go`, `ratelimit.go`, `pkg/rest`, `pkg/server`, `client` |
| Sub-chains | `SubChain` | `pkg/consensus/subchain.go` |
| State tree | `SparseMerkleTree` | `pkg/smt` |
| Persistence | `Storage` | `persist`, `loadPersisted`, `pkg/storage` |
| Reads and light client | `NodeReads`, `LightClient`, `KeyHistory` | `pkg/server`, `pkg/lightclient` |
| Publication of blocks | `AnchorPublisher` | `pkg/anchor`, end of `RunCycle` |
| Identities | `Registry`, `VRF` | `pkg/identity` |
| Encrypted transport | `SecureConn` | `pkg/transport/secure_conn.go` |
| The process | `Daemon` | `cmd/provenanced` |

The modules whose names end in `Proofs` hold the theorems. The `MC` modules
instantiate the others for TLC:

| Module | Parts |
|---|---|
| `MCConsensus` | `Consensus` with as many validators as `MinValidators` asks for (`enough`) or fewer (`few`) |
| `MCKeyRotation` | `KeyRotation`: two rotations, or one with a restart |
| `MCNetwork` | `P2PConsensus` (`libp2p`, `faulty`), `PeerMesh`, `SecureConn` (`handshake`, `frames`), `CyclePacing` |
| `MCLedger` | `Registry`, `Storage` (`crashing`, `stopping`), `SparseMerkleTree`, `LightClient` (`light`, `degraded`), `Mandates`, `VRF` |
| `MCServices` | `AnchorPublisher`, `SubChain`, `Submission` (`limits`, `queue`), `ApiServers` (`checks`, `window`, `answers`), `Daemon` (`start`, `stop`), `NodeReads` (`streams`), `Compliance`, `DegradedMode` |

`NetworkState` is run as it is. In the last three, a behaviour picks one part in its initial state (`part`, never
changed), runs it and leaves the variables of the others alone. Nothing is lost by
that: the parts share no variable, so a behaviour in which several of them move is an
interleaving of behaviours of each, and no property relates two parts. Where components do
interact (engine and bus, engine and key history, sub-chain and parent, server and
queue, publisher and storage) they are composed inside one part. The modules whose
properties are proved are extended, so that a run checks the very definition that the
theorem is about; the others, and second instances, are `INSTANCE`s.

Data is abstracted in the same way everywhere: an entry is its hash; a hash, a
digest or an identifier computed from contents is the contents themselves, so it
collides only for equal contents; a signature is its signer and what it covers; a
tree, where it is not the subject, is the set of its keys, its root that set, and
an inclusion proof the root it was taken under. Numbers keep their width where
they can wrap (`Compliance`, `LightClient`, `NodeReads`, `SecureConn`).

### 1.1 Consensus

`RunCycle` holds `e.mu` from beginning to end, so an engine's own fields change
only in its cycle (or between cycles, by `Enqueue` and `Submit`, which wait for
the same lock). What other validators do can be seen only through the bus. A
cycle is therefore cut into the pieces between two bus operations, and `pc[n]`
says where node `n` stands:

| `pc` | next step | code |
|---|---|---|
| `idle` | `Start`: ingest the pool, snapshot the tree | `engine.go` 629-690 |
| `vrf` | `PublishVRFProof` | `prepare.go` 39-50 |
| `elect` | `Select`, `Reject`, or a timeout | 52-99 |
| `build` | `Build` (snapshot of the pool, insertion) or `NoEntries` | 110-186 |
| `propose`, `sign` | `Propose`, `SignOwn` | 198-202 |
| `await` | `SignProposal` or a timeout | 205-248 |
| `quorum` | `Quorum` or a timeout | 311-345 |
| `commit` | leader: `PublishFinal`; others: `ValidatorCommit` or a timeout | `commit.go` |
| `append` | `LeaderCommit` | `engine.go` 723-825 |

A bitmap is the set of its positions, counted from 1; a peer's `Status` is counted
in steps of `DecayRate`. The winner of a cycle is fixed in `leader`, an arbitrary
function chosen in the initial state: the VRF output is unpredictable and, since
one alpha is possible per cycle (`StableAlpha`), one value per cycle is enough.

On the shared bus the second call of `RunPreparePhase` re-reads the proposal that
the first one read, re-elects from a proof set that can only be the same, and
re-inserts what is in the tree already; only its wait for signatures can change
anything, so only that is a step. A cycle with nothing pending is skipped and
changes none of the modelled variables. The block timestamp is left out of the
hash: on the shared bus the first proposal and the first signature of a cycle
stay, so a second candidate for a cycle never meets anyone.

`P2PConsensus` puts the same `Engine` on one `GossipBus` per node. Here a bus
changes under its node, so the second call of `RunPreparePhase` is a step of its
own. A frame is sent once, by a goroutine of its own; it arrives in any order or
not at all; a wait may time out any number of times; a restarted node has nothing,
as the daemon keeps nothing on disk, and any of the frames it had not sent are gone. `PeerMesh` is how nodes find each other:
bootstrap dials, mDNS announcements, the redial loop, dropped connections.
`NetworkState` and `CyclePacing` take a cycle as one step and follow what it does
to the `Status` of the peers, and to the next cycle's length and budget.

### 1.2 Key rotation

`KeyRotation` keeps of a cycle only what keys decide and adds what `Engine` leaves
out. Per node it has the key history (`rotations`), the bodies the node knows, the
validator's copy of the cycle, and both counters: `clock` is `e.state.Cycle`,
which every attempt advances, and `height` the length of the chain. Rule 3 (the
lead time) is judged on the first, signatures are verified for the second.

| Action | Code |
|---|---|
| `RotateKey`, `SubmitKeyRotation` | copy the cycle under `e.mu`, then release it |
| `ValidateSubmission`, `StoreBody`, `EnqueueSubmission` | the three other steps of `SubmitKeyRotation`; a cycle may run between any two of them, and `Enqueue` may refuse |
| `RecordRotationBody` | a peer's body arrives, some time or never |
| `StartCycle`, `AdmitEntry`, `SkipCycle` | `RunCycle` up to PREPARE: ingest, copy the cycle, then `ValidateAndRecord` each pending entry whose body is known |
| `PublishVRFProof`, `Propose`, `SignProposal`, `Finalise`, `CommitFinal` | PREPARE and COMMIT; the proposer's signature, those counted and those in `B_final` verify under the verifier's own history |
| `AbortCycle` | any error: entries are kept, and so is the key history |
| `Restart` | `Stop` and a new engine on the same storage: chain, counter and `e.pending` survive, the history, the bodies, the retained entries and the degraded flag do not |

Every engine signs with its registered key: no code puts another one into
`e.node.UID.SecretKey`. Ordinary entries are left out, so a cycle without a
rotation may or may not have something to anchor. `KeyHistory` holds the reading
of a history; the engine and the light client share it, as they share the code.

### 1.3 The parts around a cycle

| Module | State | Actions and what cuts them |
|---|---|---|
| `DegradedMode` | mode, grace counter, history of calls | one call of `CheckDegradedTransition`; the engine's own use, with a fixed validator count, is in `Engine` |
| `CyclePacing` | `rttEWMA`, `cycleDuration`, `cycleTimeout` | `RunCycle` as long as its waits allow, each a quarter of `cycleTimeout`; `CalmDown`: no wait times out any more |
| `NetworkState` | per node: cycle, height and the `Status` of every peer | `Attempt`: a leader, and the peers its cycle reaches |
| `Storage` | engine, disk, the two calls of `persist` | a transaction per write; `Crash` and `WriteFails` between any two; `Stop` persists without the lock while a cycle runs |
| `Submission` | limiter windows, `pending`, retained entries, pool, chain, waits | each entry point holds `e.mu`; `WaitForAnchor` polls |
| `ApiServers` | a request per caller, limiter windows, the queue, the pool, what is anchored | a block anchors any of what is held and the rest stays in the pool; a REST request is authenticated, counted, validated, queued and awaited; the limiter releases its lock between reading and writing a window (`CountRequest`, `StoreWindow`); gRPC submits and waits in two calls |
| `Mandates` | per node: keys known, resolver, bodies, pending entries; blocks | `SubmitMandate` installs, then `EnqueueMandate`; bodies reach other nodes out of band |
| `Compliance` | one query: window, rule, expectations, report | `Validate`, `Cut` (one expectation), `Judge` (one rule), `Answer` |
| `SubChain` | sub-chains, calls, parent queue, parent tree and proofs | `Anchor` and `EnqueueAnchor` are separate because the manager's lock is released between them; `Prove` reads the engine three times |
| `SparseMerkleTree` | root, store, clone | `Insert`, `Clone`, `Rollback`, `Reload`; the only module with recursive operators |
| `NodeReads` | chain, a call and its answers so far, a stream | each read of the engine is a step, a commit may come between; streams with their channel |
| `LightClient` | chain, recorded rotations, accepted blocks | `RunCycle` makes a block; `Follow` verifies what the client is shown: a block, a damaged copy, an unfinished candidate |
| `AnchorPublisher` | chain, stored chain, temporary and published files, the publication in progress | `Commit` appends and saves; each backend writes, renames or returns on its own; `Crash` anywhere |
| `Registry` | map, bucket, writer, readers | `Register` holds the lock over both writes; `Lookup` reads the bucket and fills the map in separate steps |
| `VRF` | secret, the hashes asked so far, proof, encoding, verdict | `Prove`, `Receive`, `Verify` over a group of prime order |
| `SecureConn` | both ends, the bytes on the wire | the handshake's messages; a frame is read length first |
| `Daemon` | flags, position of `main`, the parts that run, `cycleLoop`, signal handler, calls | start in order, a signal at any time, deferred stops in reverse order; `Stop` gets the lock between two cycles and does not wait for `cycleLoop` to return |

What these models take for granted, beyond the abstractions above:

* `Storage`, `Submission` and `SubChain` let a cycle commit any batch: which one is
  the subject of `Consensus`.
* `NetworkState`: the engine registers the full mesh of weight 1 and never changes it. Of
  lambda1 only the outcome there is kept: `Apply` accepts below `DenseLimit` (20) nodes.
* `AnchorPublisher` saves of the chain succeed (a failing one is in `Storage`).
* `Registry`: no caller in the repository opens the registry with a database; the
  model of the bucket describes the API. Without a database the map is all there is.
* `SecureConn`: a caller stops at its first error, as the tests do. KEM and AEAD
  are external: a ciphertext opens under the key that sealed it and under no other.
* `VRF`: the hashes are tables filled with arbitrary values when first asked.
* `Daemon`: `grpc.Server` and `http.Server` are external, modelled by what `main`
  relies on. Calls other than waits for an anchor end by themselves.

## 2. Runs

### 2.1 Runs that pass

A property that bundles several is a conjunction of the properties its component's
module defines, each with its own comment, and of that module's type invariant.

**`consensus_safety`**: 3 validators, 2 gossiped entries, 2 cycles, 1 timeout at any
wait; and the same without a timeout where 4 validators are the minimum, so that the
second block is agreed under another quorum and certificates are trimmed. Chains agree (`Agreement`), are linked (`ChainLinked`) and certified
(`Certified`: by published signatures, as many as the label asks for, the same on every
node, and still verifying after the last change to the block); no entry is lost (`NoEnqueuedEntryLost`) or anchored twice
(`AnchoredOnce`); a node has one election input per cycle (`StableAlpha`). `Followable`:
nobody falls two blocks behind, the proposal and the final block on the bus verify
for everyone who waits for them, and a tree at rest holds its chain.
`ImplementsBatchLog`: all of it is one log of batches that nodes read at their own pace.

**`consensus_liveness`**: 3 validators, 2 gossiped entries, 2 blocks, 1 timeout at any
wait, fair steps, the leaders up to a renaming of the validators. Every entry accepted by
`Enqueue` is anchored on every node, in one block or in two, unless a leader has committed an
earlier proposal with a later tree (`EventuallyAnchored`). That exception is real: it is the
behaviour of `stale_candidate`, after which elections fail.

**`key_rotation`**: 2 validators, 2 blocks, 1 idle or aborted attempt each; two of
two chained rotations, or one of three (with overlapping windows) and a restart.
Histories are chains of authorisations (`HistoryAuthorised`), no step changes the keys
of a height already reached (`KeysSettled`), windows hand over as tabled and what is
in force is anchored (`KeysInForce`).

**`network_safety`**

| Property | Instance | Shows |
|---|---|---|
| `SlotsSettled` | 2 validators over libp2p, 2 entries, frames in any order, any number of retries | proofs on a bus stay proofs for the root in use; a received block changes no slot's content; blocks are certified by signatures their signers hold |
| `EntriesSurviveFault` | 2 validators, 1 entry, 1 lost frame and 1 restart at any step | an entry that has got to every node is not lost: one of them has it to propose, or it is in a final block or on its way |

**`network_liveness`**

| Property | Instance | Shows |
|---|---|---|
| `EventuallyFinalised` | 2 validators, an entry as large as a stream allows, fair delivery | the leader finalises, however often waits time out |
| `EventuallyMeshed` | 3 nodes, 1 dropped connection | every known pair is connected in the end; only known peers are dialled |
| `ConnectionsWork` | identifiers up to the field's width; payloads below, at and above the limit | both ends get one key, no handshake hangs, messages arrive whole and in order |
| `PacingRecovers` | intervals far below, below, at and above the default cap, 4 waits a cycle | cycles and waits that lengthen each other do not keep the first cycle's budget alive, and once cycles are quick a slow period leaves only rounding |

**`ledger`**

| Property | Instance | Shows |
|---|---|---|
| `RegistryKeeps` | 2 identities, 2 keys, 2 readers, 2 registrations with a bucket | a registered identity is found, by calls and restarts at any step |
| `LoadedConsistent` | 2 blocks; 2 crashes, or 1 crash, 1 stop and 2 failed writes | a loaded chain is in order and, after crashes, covered by tree, proofs and clock; a complete `persist` repairs what failed |
| `TreeExact` | 4 keys of 3 bits that part at every depth, 2 values, 4 insertions, 1 rollback | the root is a function of the contents; proofs are exact and binding |
| `AcceptedExactly` | 4 validators with rotations and 4 blocks; 3 validators, degraded | a client accepts nothing it is shown but the chain's blocks, and all of those if it lists the validators in the order of the proposer; it admits the rotations the nodes admit and resolves the same keys |
| `MandatesKept` | 2 nodes, 2 versions, authentic and other bodies, 1 restart | what is held is enforced; an anchored claim keeps its terms |
| `VRFSound` | a group of order 5, 2 inputs | honest proofs verify; key binding, one encoding, one output |

**`services_safety`**

| Property | Instance | Shows |
|---|---|---|
| `FilesMatchChain`, `PublishedImmutable` | 3 blocks, 4 made over all lives, all configurations, backends that may hang, a crash at any step | published files are whole blocks of the chain and stay |
| `ProofOfCheckpoint`, `CheckpointsInLine` | 1 sub-chain, 2 entries, 1 other client, 2 callers, 1 restart | every proof speaks of a checkpoint that was made; checkpoints form a line |
| `AdmissionExact` | 2 submitters, window of 2 ticks, limits changed once; 2 REST callers with every kind of credential; 1 caller in sequence | nobody exceeds a window, refusals are free, what was taken is held until it is anchored, and the answer says what happened, but for a REST wait that ran out |
| `ModeFollowsCalls` | all sequences of 6 calls | the mode is what the history of calls says |

**`services_liveness`**

| Property | Instance | Shows |
|---|---|---|
| `PublisherServes` | 2 blocks, 3 made, backends that return | publishing ends; the anchors returned hold and the content identifier verifies |
| `CallsAnswered` | 2 entries, 2 aborts, fair polls; 1 REST caller | only aborts copy entries; waiters and REST requests are answered |
| `DaemonRuns` | all peer lists of up to 2 entries; 2 clients in calls | a node runs as configured and with production keys only; no gRPC call loses the engine under it, and after a signal the process ends, cycles going on, unless a wait holds it |
| `StreamsWhole` | 5 blocks, 3-bit indices, callers that read or give up | streams are bounded, whole and end while blocks are committed, near the largest index too |
| `ReportExact` | all queries over small windows, rules and chains, timestamps of 5 bits | the report is the reference definition's, and there is one |

**Bounds.** Three validators are the smallest set in which a quorum
(`ceil(2N/3)` = 2) is neither one nor everybody. Two cycles are needed for a link
between blocks, for an entry that could be anchored twice, and for a validator
that is left behind by one block. One timeout, at any wait of any node, turns an
attempt into an abort and a retry. Two entries let the pool change between an attempt
and its retry. Over libp2p two nodes are enough for every disagreement between two
buses, and the number of retries is not bounded. For key rotation two validators
give two views of one history. The three rotations are a first one, one chained to
it and one whose window overlaps it; the two submissions without a restart are of the
first two. Lead time
and overlap are 2 and 1 instead of 10, so that windows open and close within the
blocks of the model; `InForceIsAnchored` needs a lead time of at least 2 when nodes
may restart. Elsewhere two concurrent callers are what a race needs, one restart
or crash at any step is what a recovery needs (two where recovery itself may be
interrupted), and sizes (queue, window, frame, index, timestamp) are the smallest
at which the value below, at and above the limit all occur. Every bound is a
constant of its module, marked `bound`. The deadlock check is off only where the
bounds end a behaviour or the process really stops.

**Fairness.** Only weak fairness, with one exception, and only of steps that a
running process takes by itself:

* `Consensus`, `KeyRotation`, `P2PConsensus`: each node's own steps. `cycleLoop`
  calls `RunCycle` again whenever it returns, and nothing in a cycle blocks but the
  bounded waits. Timeouts are not fair. `Consensus` bounds their number: a network
  that is slow for a while. `P2PConsensus` does not, but assumes that a frame that
  is not lost arrives in the end.
* `PeerMesh`: the ticker of the redial loop, and dials, which end by their timeout.
* `Submission`: the polling ticker, the clock and the engine's commits, though the
  engine may be stopped at any time. `ApiServers`: the clock and the handlers; nothing is
  assumed of commits.
* `CyclePacing`, `Compliance`, `SecureConn`, `NodeReads`: the loops they model,
  and in `NodeReads` a client that reads.
* `AnchorPublisher`: a backend that was started and does not hang.
* `Daemon`: `main`, the signal handler, the end of cycles and of calls other than waits,
  and, the exception, strong fairness of `StopEngine`: `Stop` needs the lock that every
  cycle takes, and a `sync.Mutex` does not let a waiter starve.

`MCNetwork` and `MCServices` state the fairness of their parts with `part` in the
action, and `MCConsensus` with `setting`, so that it binds only the part that runs.

### 2.2 Disagreements between code and documentation

Each of four runs states what a document or a comment says, and TLC finds a behaviour
of the code that contradicts it. `findings` in `PROJECT.json` quotes the text.

| Run | Property | What the behaviour shows |
|---|---|---|
| `stale_candidate` | `RootBacked` | a leader that aborts after proposing and retries with a larger pool commits the old proposal with the new tree: its root has entries no block carries, and its next VRF proof is for another alpha than its peers' |
| `key_stall` | `NetworkKeepsGoing` | a validator signs with its outgoing key for ever, and the network stops when the overlap ends |
| `p2p_final` | `FinalReachesPeers` | `B_final` is stored as a proposal by those who receive it, so `GetFinal` finds it on the leader only |
| `heartbeat_lost` | `ParticipantsStayActive` | no heartbeat is sent: after 20 blocks every peer is inactive for every other |

The modules state more expectations that the code does not meet. They are kept as
definitions, each with a comment that quotes or names what it comes from, and no run
lists them. Checking one means naming it in the `MC` module of its component; a
condition in the last column is one the passing runs exclude or the instance must allow.

| Module | Definition | The code's behaviour |
|---|---|---|
| `Consensus` | `AcceptedStaysCandidate` | an entry accepted by `Submit` stays on its node and is cleared by the next commit |
| `Consensus` | `FinalAlwaysVerifies` | fails if every node lists itself first in `Peers`, as the daemon does |
| `KeyRotation` | `SameActiveKeys` | nodes at one height may use different keys |
| `KeyRotation` | `OverlapHonoured` | inside an open window the next incoming key is refused |
| `KeyRotation` | `OnlyAnchoredRecorded` | an abort keeps rotations no block anchors |
| `P2PConsensus` | `ElectionEventually` | one lost VRF proof stalls the cycle: a proof that is held is not sent again |
| `P2PConsensus` | `EventuallyFinalised` | fails for a batch larger than `MaxStream`: the sender drops the proposal |
| `P2PConsensus` | `AcceptedSurvives` | an entry that only its node holds is lost when that node restarts |
| `CyclePacing` | `DefaultCapHeld`, `WaitWithinSlot` | the cap follows the interval; the first cycle waits a quarter of 10 s at any interval |
| `PeerMesh` | `ConnectedSettles` | the map of connected peers stays empty |
| `Mandates` | `GovernsOnceAnchored`, `RejectedNotEnforced` | a mandate governs before any cycle, and after its submission was refused |
| `Mandates` | `InForceUntilReplaced`, `LatestOnly`, `LatestIsHighest` | a mandate is unlisted before its successor starts; supersession is followed one step |
| `Compliance` | `WindowPartitioned`, `OpenEndAccepted` | the loop over expectations wraps near the largest timestamp; an open end is refused |
| `Storage` | `RecoveredRootBacked` | a crash between two writes is loaded as a root without a block |
| `Storage` | `TreeCoversLoaded` | fails where `Stop` runs beside a cycle (`stopping`): a block is saved without its tree |
| `Submission` | `TrackedBounded`, `AnchoredOnce` | windows are never evicted; an anchored hash is anchored again |
| `ApiServers` | `WindowLimited` | fails with two requests of one identity at a time |
| `ApiServers` | `ErrorMeansRefused` | a REST wait that runs out is answered `QUEUE_FULL` although the entry is held and may be anchored |
| `ApiServers` | `RateLimitReported`, `WaitEnds` | a full queue has no error code; a gRPC wait has no bound |
| `SubChain` | `AnchorEnqueued`, `CrossProofVerifies`, `SubChainsSurvive` | a refused anchor is reported as made; a commit between two reads spoils a proof; sub-chains are not persisted |
| `SparseMerkleTree` | `Retrievable`, `KeysDoNotCollide` | `Get` misses keys that differ in the last bit of their path; keys of different lengths collide |
| `LightClient` | `BitsBounded` | a bit past the trusted set is used as an index |
| `NodeReads` | `RootOfHeight` | a commit between two reads puts one block's root beside another's height |
| `NodeReads` | `RootIsBlocks`, `ProofMatchesRoot`, `ProofTiesToBlock` | `GetMerkleProof` answers with the live root, reads it separately from the proof, and its proofs do not fit the block's root once the chain went on |
| `AnchorPublisher` | `PublishEnds`, `PublishedImmutable` | fail with a backend that hangs (`CanHang`) and without storage (`WithStorage` false) |
| `AnchorPublisher` | `ExternalAnchorsStored` | anchors are put on a block no one stores |
| `Registry` | `LookupRegistered`, `LookupCurrent`, `GetAllReturnsAll` | with a bucket `Lookup` keeps bytes that bolt may rewrite and may cache a replaced key; `GetAll` is empty after a restart |
| `SecureConn` | `DirectionsAgree` | the writer's limit leaves out the tag that the reader's counts |
| `Daemon` | `NoCycleOnClosedBus` | a tick taken after `Stop` returned runs a cycle while the bus is closed |
| `Daemon` | `PeersDistinct` | one identity under two addresses counts as two validators |

## 3. Proofs

The theorems hold for every value of the constants that satisfies the assumptions
named in the modules: any finite set of validators or callers, any peer order, any
entries, any bound.

**`PrepareQuorumProofs`** is about positional signatures: `CompactThenRead`
(compacting and reading back agree, for every bitmap), `SameOrderVerifies`, and
`QuorumsShareAThird`.

**`ConsensusProofs`** proves `TypeOK`, the first layer of everything else, and four
inductive invariants, each with the help of the ones before it:

* `ChainInv`: an index has one proposal on the bus, and every final block and
  every block of a chain has the body of the proposal of its index. Agreement is
  a consequence: `AgreementHolds`.
* `ProofInv`: a signer has one proof per cycle, it is for the root the signer
  uses as long as it is in that cycle, a node past the election has everyone's
  proof for its own root, and a committed height was proved by everyone. The
  agreement of roots that elections need is not inductive without the last part:
  a node may be behind by one block. Consequences: `StableAlphaHolds`,
  `LagHolds`.
* `ProposalInv`: a proposal is signed by the leader of its cycle, on the root of
  the leader's proof, when nobody is below its height, and links to the proposal
  before it. Consequences: `ChainLinkedHolds`, `ProposalVerifiesHolds`.
* `PoolInv`: what chains hold has left the pool, and proposals of different
  cycles share no entry. Consequences: `NoEntryLostHolds`, `AnchoredOnceHolds`.

**`BatchLogProofs`** adds three more. `CertInv` is about what a block is certified by.
A final block carries a whole certificate in its proposer's peer order; a height has
one final block, because the leader that publishes one is the next to commit it; a block
of a chain is the final block of its height, trimmed below `MinValidators` and whole
otherwise. The part that had to be found is `LabelBacked`: the label of a block is
fixed when it is proposed and the quorum is asked for in a later attempt, between which
a node may enter degraded mode, so either the quorum is still the label's or enough
signatures are on the bus already. `TreeInv`: the tree holds the chain, and a leader
past its proposal holds what it proposed, also if the proposal is the one of an
earlier attempt; that needs a proposal which is not final to be in the pool still.
`LogInv`: no batch is empty and the heights of the final blocks have no gap. Consequences:

* `CertifiedHolds`, for any peer orders and any `MinValidators`, so both settings of
  `consensus_safety` are instances of it.
* `FollowableHolds`, if all nodes list their peers in one order. Without that the
  bits of a certificate mean other signers to other nodes and `FinalAlwaysVerifies`
  fails (section 2.2).
* `LogRefined`: every step of the engines and of the bus is a step of `BatchLog` or
  leaves its variables alone. `PublishFinal` appends the batch, `LeaderCommit` and
  `ValidatorCommit` learn it, `Enqueue` and `Submit` are submissions, and everything
  else, aborts and retries included, is a stutter.

**`P2PProofs`** is the consensus over one bus per node, where the invariants above, which
speak of one shared bus, do not apply: a proposal may be on one bus, in a frame to a second and
lost on the way to a third. The proofs therefore speak of what *circulates*
(`ProposalOut`, `SigOut`, `ProofOut`: on some bus or in some frame). `BusMoves` sums up a
step of the bus by the messages it newly puts in circulation, so that delivering,
repeating or losing a frame adds nothing, and `StepKinds` sums up every step of a node by
eight kinds (`KnownStep`). Three invariants follow, each proved once per kind:

* `AlphaInv`: a VRF proof in circulation is for a height its signer has reached; for the
  signer's own height it covers the root the signer uses now, and for height 0 the empty
  tree, which is where a restart goes back to. Consequence: `P2PStableAlphaHolds`.
* `SlotInv`: the blocks of a cycle in circulation have one hash and come from its
  leader, whose own slot is filled as long as one of them circulates; that is what makes the
  overwriting of a slot by `handleProposalsStream` harmless. A signature in circulation
  is on its signer's own bus. Consequence: `SlotInvHolds`.
* `QuorumInv`: what PREPARE counted stays on the signers' buses until COMMIT, a final block
  on a bus is compacted from such signatures in its leader's peer order, and what a node appends
  has a quorum of them or, trimmed, the one that degraded mode keeps. Consequence:
  `CertifiedBySignersHolds`.

`SlotsSettledHolds` puts them together. It asks for no restarts, except for types and,
on a chain of one block, VRF proofs: a restarted node has lost its chain and its tree, so that
a restarted leader may propose another block for a cycle its peers remember, and its
own old proof for a later height covers a tree it no longer has.

**`NodeProofs`** is about two parts of a node.

* `MandatesKeptHolds`. `MandInv` adds that a call in flight carries a body only with the
  identifier of its contents, and that everything queued or anchored already kept the terms when
  it was accepted; bodies are never replaced, so later ones cannot take that back.
* `VRFSoundHolds`, for every prime order `L`. Honest proofs verify because `s` was made
  so that both commitments come out as the prover's (`CommitmentsAgree`). Uniqueness
  is algebra: two answers that complete to a proof for another point differ by a
  factor of zero (`TwoChallenges`), which a prime order excludes (`PrimeFactor`). That
  a prime divides no product of smaller numbers is induction in disguise; it is proved with a least
  counterexample, from the library's theorem on well-founded relations that takes no operator.

**`KeyRotationProofs`** proves `HistoriesAuthorised` and `KeysStaySettled`, for every
set of nodes and bodies and every positive lead time, restarts included. The
inductive invariant `KeyInv` has three parts that need each other: the types of
the key state, `ClocksInStep` (the attempt counter is never behind the chain, and
the validator's copy is current while entries are admitted), and `Authorised`
histories. The central lemma, `AppendKeepsKeys`, says that appending a strictly
newer rotation changes no key of a cycle before it takes effect: with the order of
the history it keeps the earlier authorisations true, and with `ClocksInStep` it
gives `KeysSettled`. `HandOverHolds` follows from the same invariant.

`KeysInForceHolds` says that a rotation in force at a node is anchored in its chain.
Nothing in the code waits for that: a rotation is recorded when it is admitted, before
the cycle that may or may not anchor it, and an abort does not take it back. It
holds because a candidate takes the whole pool and the lead time is long enough.
`ChainInv` says that a cycle has a candidate only when every node has reached it, and that a
chain anchors what the candidates of its heights do. `RotationInv` adds that what is
queued is in the pool, in the candidate of the height or in the chain, and `Timely`: a
recorded rotation is anchored, or takes effect above the node's height and is in the
candidate, or takes effect one height later still if the candidate was made without
it. The last case is why the theorem asks for a lead time of at least 2 (the code has
10): with 1, TLC finds a node that restarts and records a rotation while the candidate
of its height lacks it.

**`StorageProofs`** proves `LoadedConsistentHolds` for any number of blocks, aborts,
crashes, stops and failed writes. The invariant has five layers: types; `ShapeInv`
(the database holds blocks of the chain, one for a key, and both loops over the blocks
write a prefix of it); `OrderInv` (with at most one failed write the keys on disk have
no gap, and no loop is past the block that is missing, so the next call fills it);
`PersistInv` (what the cycle's loop has passed is on disk); and `CrashInv` (without
stops and failures the counter, the tree and the proofs are on disk before a block that needs
them, whichever two writes a crash falls between). That a new process reads back just
what the disk holds is the lemma `LoadFacts`.

**`ServiceProofs`** is about four parts around the cycle.

* `FilesAlwaysMatchChain` and `PublishedStaysPublished`, for an engine with storage
  (`WithStorage`; without it both fail, since a restarted engine makes the same heights
  again). The invariant `PInv` adds to the property that the stored chain is the
  engine's, so that a crash loses no published block, and `JobInv`: the block being
  published is in the chain, and a temporary file about to be renamed holds it.
* `ProofsOfCheckpoints` and `CheckpointsStayInLine`. A caller of `Prove` gathers its
  answer in four steps with commits in between, so `CallOK` says for every position of
  a call what its fields are already known to be, `ChainOK` that recorded roots are
  nested and were submitted, and `ParentInv` that what the parent queued or committed
  for a known sub-chain is one of its roots.
* `ModeAlwaysFollowsCalls`. The property speaks of the whole history, the code of one
  counter; `CounterInv` connects them: in degraded mode the counter is the length of
  the normal suffix of the calls, and a call that was not normal precedes it. It needs
  `MinValidators` of at least 1: with 0 no call could be low.
* `RegistryKeepsHolds`, with and without a bucket. `RInv` adds `CacheHolds` (without a bucket
  the map has what was acknowledged) and `LookupsOK` (what a reader has seen so far
  accounts for every registration that returned before its call began), since a
  reader's answer is decided several steps after its start.

### Only model-checked

* Every liveness property (`EventuallyAnchored`, `EventuallyFinalised`,
  and the liveness conjuncts of `EventuallyMeshed`, `ConnectionsWork`,
  `PacingRecovers`, `PublisherServes`, `CallsAnswered`, `DaemonRuns`,
  `StreamsWhole`, `ReportExact`): fairness is out of the prover's reach.
* `SparseMerkleTree` (`TreeExact`), whose definitions are recursive, and the loops of
  `Compliance` (`ReportExact`): what they compute would need induction over data.
* `AcceptedExactly` and `AdmissionExact`, which compare a loop of the code, written as a
  fold or a filtered sequence, with a set. For all inputs they would need induction over
  the sequence.
* `EntriesSurviveFault`, which says of every later state what an earlier one had.
* What `SlotsSettled` says under restarts beyond types and, on a chain of one block, VRF
  proofs (see `P2PProofs`): the code does not promise it.

## 4. Not modelled

* CBOR, JSON, YAML and protobuf layout, error texts, logging and metrics: byte
  layout with no control. Where a conversion loses something (padding, integer
  types, limits) it is modelled by what it does.
* Cryptography: ML-DSA signatures, Kyber key encapsulation, HKDF and hashes are
  library calls without state and are taken as ideal. The VRF is the exception, being
  written in the repository.
* The numerics of eigenvalues: `NetworkState` has the outcome for the one graph the
  engine builds, which from 20 validators on is that lambda1 comes out as 0 and every
  block is dropped.
* The genesis generator, one sequential conversion of a file into a file. Keys of a wrong
  length are padded or cut by `copy`, an integer minimum is not read where a float is, and
  the mandate does not get into the block.
* The read calls of `NodeReads` (`CallSpec`) are modelled and in no run: each answer is a
  few independent reads, and what comments say of them together fails (section 2.2).
* `RunVRFPhase`, `RateLimiter.Cleanup`, `VerifyQuorum`,
  `protocol.BuildGenesisBlock` and the like, which nothing but tests calls.
* `provectl`, `pipeline-sim`, `conformance-test` and the demonstration front end:
  sequential clients of the modelled parts. The health summary and other read-only
  wrappers add nothing to `NodeReads`.
* The length of the address list of a libp2p peer, which every redial doubles: the
  mesh keeps known peers as a set, and no decision of the code depends on the length.
