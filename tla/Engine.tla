------------------------------- MODULE Engine -------------------------------
(***************************************************************************)
(* One validator's consensus engine: the steps of Engine.RunCycle          *)
(* (pkg/consensus engine.go, prepare.go, commit.go) between two calls on    *)
(* the gossip bus.  e.mu is held for the whole cycle, so nothing else of   *)
(* the engine moves while a cycle runs; what the other validators do to    *)
(* the bus is interleaved between the steps.                               *)
(*                                                                         *)
(* Every operator changes the state of one engine only.  What it reads     *)
(* from the bus is a parameter; Consensus composes engines with the bus.   *)
(* The key rotations of a batch are in KeyRotation.                        *)
(*                                                                         *)
(* Data: an entry is its hash; the state tree is the set of its keys, and  *)
(* its root is that set, since the root of a sparse Merkle tree depends on *)
(* nothing else; the pending queues are sets.  The second call of          *)
(* RunPreparePhase repeats the election and the insertions of the first on *)
(* the same root, the same proofs and the same proposal, so only its quorum*)
(* wait is a step.                                                         *)
(***************************************************************************)
EXTENDS PrepareQuorum

CONSTANTS
    Node,            \* the validators
    Entry,           \* provenance entries, by hash
    Peers,           \* Peers[n]: the order in which node n lists e.peers
    MinValidators,   \* below it a commit enters degraded mode
    StatusSteps,     \* missed heartbeats until a peer's Status is 0 (1.0 / DecayRate)
    MaxBlocks        \* bound: no cycle starts on a chain this long

ASSUME PeersAssumption ==
    /\ IsFiniteSet(Node)
    /\ \A n \in Node : /\ Peers[n] \in Seq(Node)
                       /\ Len(Peers[n]) = Cardinality(Node)
                       /\ \A p \in Node : \E i \in DOMAIN Peers[n] : Peers[n][i] = p
ASSUME BoundAssumption ==
    /\ MaxBlocks \in Nat
    /\ MinValidators \in Nat
    /\ StatusSteps \in Nat \ {0}

VARIABLES
    pc,              \* where node n stands in RunCycle
    blocks,          \* e.blocks
    st,              \* e.st, as the set of its keys
    snap,            \* stateSnapshot; rootArr is its root
    pending,         \* e.pending: accepted from clients since the last commit
    pendingEntries,  \* e.pendingEntries: ingested, or retained by an abort
    batch,           \* the entries the proposer took from the bus
    prepareSigs,     \* PrepareResult.PrepareSigs, by signer
    anchored,        \* e.anchored, the proofs handed to clients
    inDegraded,      \* e.degraded.inDegraded
    status,          \* e.state.Nodes[m].Status, in steps of DecayRate
    leader           \* who has the lowest VRF output in each cycle

engineVars == <<pc, blocks, st, snap, pending, pendingEntries, batch,
                prepareSigs, anchored, inDegraded, status, leader>>

Cycles == 0..(MaxBlocks - 1)

\* nextCycleLocked: the height of the local chain.
cycle(n) == Len(blocks[n])

\* Mutant: every block is linked to the genesis hash.
prevHashGenesis(n) == <<>>

prevHash(n) == IF Len(blocks[n]) > 0 THEN ComputeBlockHash(blocks[n][Len(blocks[n])])
               ELSE <<>>

requiredQuorum(n) == IF inDegraded[n] THEN 1 ELSE quorumRequired(Cardinality(Node))

\* The VRF is a random oracle: who wins a cycle is an arbitrary choice, fixed
\* for the cycle.  A cycle has one alpha: SelectProposer needs every peer's
\* proof for it and a peer's first proof of a cycle is the one that stays.
EngineInit ==
    /\ pc = [n \in Node |-> "idle"]
    /\ blocks = [n \in Node |-> <<>>]
    /\ st = [n \in Node |-> {}]
    /\ snap = [n \in Node |-> {}]
    /\ pending = [n \in Node |-> {}]
    /\ pendingEntries = [n \in Node |-> {}]
    /\ batch = [n \in Node |-> {}]
    /\ prepareSigs = [n \in Node |-> {}]
    /\ anchored = [n \in Node |-> {}]
    /\ inDegraded = [n \in Node |-> FALSE]
    /\ status = [n \in Node |-> [m \in Node |-> StatusSteps]]
    /\ leader \in [Cycles -> Node]

-----------------------------------------------------------------------------
\* Enqueue and Submit wait for e.mu, so neither lands inside a cycle.
AcceptEntry(n, e) ==
    /\ pc[n] = "idle"
    /\ pending' = [pending EXCEPT ![n] = @ \cup {e}]
    /\ UNCHANGED <<pc, blocks, st, snap, pendingEntries, batch, prepareSigs,
                   anchored, inDegraded, status, leader>>

\* The top of RunCycle: ingest the pool, snapshot the tree.  A cycle with
\* nothing pending is skipped, which changes none of these variables.
StartCycle(n, pool) ==
    LET ingested == pendingEntries[n] \cup (pool \ pending[n])
    IN  /\ pc[n] = "idle"
        /\ cycle(n) < MaxBlocks
        /\ ingested \cup pending[n] # {}
        /\ pendingEntries' = [pendingEntries EXCEPT ![n] = ingested]
        /\ snap' = [snap EXCEPT ![n] = st[n]]
        /\ pc' = [pc EXCEPT ![n] = "vrf"]
        /\ UNCHANGED <<blocks, st, pending, batch, prepareSigs, anchored,
                       inDegraded, status, leader>>

\* Mutant: the tree is not restored.
RollbackKeepingTree(n) ==
    /\ pendingEntries' = [pendingEntries EXCEPT ![n] = @ \cup pending[n]]
    /\ pc' = [pc EXCEPT ![n] = "idle"]
    /\ batch' = [batch EXCEPT ![n] = {}]
    /\ prepareSigs' = [prepareSigs EXCEPT ![n] = {}]
    /\ UNCHANGED <<blocks, st, snap, pending, anchored, status, leader>>

\* The error returns of RunCycle: keep everything pending, restore the tree.
Rollback(n) ==
    /\ pendingEntries' = [pendingEntries EXCEPT ![n] = @ \cup pending[n]]
    /\ st' = [st EXCEPT ![n] = snap[n]]
    /\ pc' = [pc EXCEPT ![n] = "idle"]
    /\ batch' = [batch EXCEPT ![n] = {}]
    /\ prepareSigs' = [prepareSigs EXCEPT ![n] = {}]
    /\ UNCHANGED <<blocks, snap, pending, anchored, status, leader>>

\* ... of which all but the last two leave the degraded flag alone.
AbortCycle(n) == Rollback(n) /\ UNCHANGED inDegraded

Goto(n, from, to) ==
    /\ pc[n] = from
    /\ pc' = [pc EXCEPT ![n] = to]

\* The proof published at the start of PREPARE covers (cycle, root).
VRFProof(n) == [cycle |-> cycle(n), signer |-> n, root |-> snap[n]]

AfterVRFProof(n) ==
    /\ Goto(n, "vrf", "elect")
    /\ UNCHANGED <<blocks, st, snap, pending, pendingEntries, batch, prepareSigs,
                   anchored, inDegraded, status, leader>>

\* The proof set holds one proof per peer; a node's own is always at hand.
ProofSetComplete(n, proofs) ==
    \A p \in Node \ {n} : \E q \in proofs : q.cycle = cycle(n) /\ q.signer = p

\* ... and each verifies for this node's alpha.
ProofSetValid(n, proofs) ==
    \A p \in Node \ {n} : [cycle |-> cycle(n), signer |-> p, root |-> snap[n]] \in proofs

ProposerActive(n) == status[n][leader[cycle(n)]] > 0

SelectProposer(n, proofs) ==
    /\ ProofSetValid(n, proofs)
    /\ ProposerActive(n)
    /\ Goto(n, "elect", IF leader[cycle(n)] = n THEN "build" ELSE "await")
    /\ UNCHANGED <<blocks, st, snap, pending, pendingEntries, batch, prepareSigs,
                   anchored, inDegraded, status, leader>>

\* A complete proof set that does not verify, or an inactive winner.
RejectElection(n, proofs) ==
    /\ pc[n] = "elect"
    /\ ProofSetComplete(n, proofs)
    /\ ~(ProofSetValid(n, proofs) /\ ProposerActive(n))
    /\ AbortCycle(n)

\* The proposer takes the whole pool and inserts it to compute the root.
BuildCandidate(n, pool) ==
    /\ pool # {}
    /\ Goto(n, "build", "propose")
    /\ batch' = [batch EXCEPT ![n] = pool]
    /\ st' = [st EXCEPT ![n] = @ \cup pool]
    /\ UNCHANGED <<blocks, snap, pending, pendingEntries, prepareSigs, anchored,
                   inDegraded, status, leader>>

NothingToPropose(n, pool) ==
    /\ pc[n] = "build"
    /\ pool = {}
    /\ AbortCycle(n)

Candidate(n) ==
    LET b == [index |-> cycle(n), prev |-> prevHash(n), proposer |-> n,
              anchored |-> batch[n], root |-> st[n]]
    IN  [index |-> b.index, prev |-> b.prev, proposer |-> n, anchored |-> b.anchored,
         root |-> b.root, degraded |-> requiredQuorum(n) = 1,
         sig |-> SignDilithium(n, ComputeBlockHash(b))]

AfterPropose(n) ==
    /\ Goto(n, "propose", "sign")
    /\ UNCHANGED <<blocks, st, snap, pending, pendingEntries, batch, prepareSigs,
                   anchored, inDegraded, status, leader>>

\* A PREPARE signature as the bus carries it.
BlockSig(n, b) == [cycle |-> b.index, signer |-> n, hash |-> ComputeBlockHash(b)]

AfterSign(n) ==
    /\ Goto(n, "sign", "quorum")
    /\ UNCHANGED <<blocks, st, snap, pending, pendingEntries, batch, prepareSigs,
                   anchored, inDegraded, status, leader>>

\* A validator inserts the proposed entries and compares roots.  The proposal
\* must be signed by the proposer this validator elected.
ProposalVerifies(n, b) ==
    /\ st[n] \cup b.anchored = b.root
    /\ VerifyDilithium(leader[cycle(n)], ComputeBlockHash(b), b.sig)

HandleProposal(n, b) ==
    /\ pc[n] = "await"
    /\ IF ProposalVerifies(n, b)
       THEN /\ pc' = [pc EXCEPT ![n] = "quorum"]
            /\ st' = [st EXCEPT ![n] = @ \cup b.anchored]
            /\ UNCHANGED <<blocks, snap, pending, pendingEntries, batch,
                           prepareSigs, anchored, inDegraded, status, leader>>
       ELSE AbortCycle(n)

\* The signers whose PREPARE signature verifies for the block on the bus.
validPrepareSigs(b, sigs) == {s \in Node : BlockSig(s, b) \in sigs}

\* Mutant: a node counts its own signature twice.
CheckQuorumOwnTwice(n, b, sigs) ==
    /\ Cardinality(validPrepareSigs(b, sigs)) + 1 >= requiredQuorum(n)
    /\ Goto(n, "quorum", "commit")
    /\ prepareSigs' = [prepareSigs EXCEPT ![n] = validPrepareSigs(b, sigs)]
    /\ UNCHANGED <<blocks, st, snap, pending, pendingEntries, batch, anchored,
                   inDegraded, status, leader>>

CheckQuorum(n, b, sigs) ==
    /\ Cardinality(validPrepareSigs(b, sigs)) >= requiredQuorum(n)
    /\ Goto(n, "quorum", "commit")
    /\ prepareSigs' = [prepareSigs EXCEPT ![n] = validPrepareSigs(b, sigs)]
    /\ UNCHANGED <<blocks, st, snap, pending, pendingEntries, batch, anchored,
                   inDegraded, status, leader>>

\* B_final: the candidate with the bitmap, the compacted signatures and the
\* leader's COMMIT signature.
FinalBlock(n, b) ==
    LET bitmap == PrepareBitmap(Peers[n], prepareSigs[n])
        hash == ComputeBlockHash(b)
    IN  [index |-> b.index, prev |-> b.prev, proposer |-> b.proposer,
         anchored |-> b.anchored, root |-> b.root, degraded |-> b.degraded,
         bitmap |-> bitmap, sigs |-> CompactSigs(Peers[n], bitmap, hash),
         commitSig |-> SignDilithium(n, hash)]

AfterPublishFinal(n) ==
    /\ leader[cycle(n)] = n
    /\ Goto(n, "commit", "append")
    /\ UNCHANGED <<blocks, st, snap, pending, pendingEntries, batch, prepareSigs,
                   anchored, inDegraded, status, leader>>

FinalVerifies(n, f) ==
    /\ verifyPrepareQuorum(f, Peers[n])
    /\ VerifyDilithium(leader[cycle(n)], ComputeBlockHash(f), f.commitSig)

-----------------------------------------------------------------------------
\* CheckDegradedTransition with a validator count that never changes: the
\* first commit of a small network enters degraded mode, nothing leaves it.
DegradedAfter(n) == inDegraded[n] \/ Cardinality(Node) < MinValidators

\* Only this node's own heartbeat is passed to state.Apply: its Status is
\* reset, everyone else's decays.
StatusAfter(n) ==
    [m \in Node |-> IF m = n THEN StatusSteps
                    ELSE IF status[n][m] > 0 THEN status[n][m] - 1 ELSE 0]

\* Mutant: the proof names the block before.
AnchorsAtParent(n, f) ==
    {a \in anchored[n] : a.entry \notin f.anchored}
        \cup {[entry |-> e, index |-> cycle(n) - 1, root |-> st[n]] : e \in f.anchored}

\* An anchor proof carries the root of the local tree, not the block's.
AnchorsAfter(n, f) ==
    {a \in anchored[n] : a.entry \notin f.anchored}
        \cup {[entry |-> e, index |-> cycle(n), root |-> st[n]] : e \in f.anchored}

\* state.Apply refuses a network whose lambda1 is below MinLambda1.  The graph is
\* a full mesh of weight 1, whose lambda1 is its size; from 20 nodes on the power
\* iteration starts from the zero vector and answers 0.
Fragmented == Cardinality(Node) >= 20

\* The two errors left once B_final is accepted: degraded mode finds no valid
\* signature to keep, or state.Apply fails.
CommitFails(n, f) ==
    \/ DegradedAfter(n) /\ ValidPositions(f, Peers[n]) = {}
    \/ Fragmented

\* The success path.
AppendBlock(n, f) ==
    LET sealed == IF DegradedAfter(n) THEN TrimToOne(f, Peers[n]) ELSE f
    IN  /\ status' = [status EXCEPT ![n] = StatusAfter(n)]
        /\ pendingEntries' = [pendingEntries EXCEPT ![n] = @ \ f.anchored]
        /\ pending' = [pending EXCEPT ![n] = {}]
        /\ blocks' = [blocks EXCEPT ![n] = Append(@, sealed)]
        /\ anchored' = [anchored EXCEPT ![n] = AnchorsAfter(n, f)]
        /\ pc' = [pc EXCEPT ![n] = "idle"]
        /\ batch' = [batch EXCEPT ![n] = {}]
        /\ prepareSigs' = [prepareSigs EXCEPT ![n] = {}]
        /\ UNCHANGED <<st, snap, leader>>

\* The end of RunCycle, once RunCommitPhase has returned B_final.
CommitBlock(n, f) ==
    /\ inDegraded' = [inDegraded EXCEPT ![n] = DegradedAfter(n)]
    /\ IF CommitFails(n, f) THEN Rollback(n) ELSE AppendBlock(n, f)

\* The leader commits the block it has just published.
CommitAsLeader(n, f) ==
    /\ pc[n] = "append"
    /\ CommitBlock(n, f)

\* A validator commits the final block if it verifies, and aborts otherwise.
HandleFinal(n, f) ==
    /\ pc[n] = "commit"
    /\ leader[cycle(n)] # n
    /\ IF FinalVerifies(n, f) THEN CommitBlock(n, f) ELSE AbortCycle(n)

=============================================================================
