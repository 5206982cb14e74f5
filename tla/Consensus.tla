----------------------------- MODULE Consensus -----------------------------
(***************************************************************************)
(* Validators running RunCycle over the shared MemoryBus.  A step is the   *)
(* engine's work up to and including one bus operation; a read of a bus    *)
(* slot that is written once is merged with the step that follows it.      *)
(*                                                                         *)
(* A wait on the bus ends when what it waits for is there, or with a       *)
(* timeout.  A behaviour has at most MaxTimeouts timeouts: the network is  *)
(* slow for a while and then delivers in time.                             *)
(***************************************************************************)
EXTENDS Engine, MemoryBus

CONSTANTS
    Gossiped,        \* the entries that arrive through Enqueue; the others through Submit
    MaxTimeouts      \* bound: how many waits may time out

ASSUME ConsensusAssumption ==
    /\ Gossiped \subseteq Entry
    /\ MaxTimeouts \in Nat

VARIABLES
    accepted,        \* the entries clients have handed in
    timeouts         \* waits that have timed out so far

vars == <<engineVars, busVars, accepted, timeouts>>

Init ==
    /\ EngineInit
    /\ BusInit
    /\ accepted = {}
    /\ timeouts = 0

\* A client enqueues an entry once, which also publishes it.
Enqueue(n, e) ==
    /\ e \in Gossiped \ accepted
    /\ AcceptEntry(n, e)
    /\ Publish(e)
    /\ accepted' = accepted \cup {e}
    /\ UNCHANGED timeouts

\* Submit queues the entry on this node and does not publish it; a client may hand it
\* to several nodes.
Submit(n, e) ==
    /\ e \in Entry \ Gossiped
    /\ AcceptEntry(n, e)
    /\ accepted' = accepted \cup {e}
    /\ UNCHANGED <<busVars, timeouts>>

Start(n) ==
    /\ StartCycle(n, pool)
    /\ UNCHANGED <<busVars, accepted, timeouts>>

PublishVRFProof(n) ==
    /\ AfterVRFProof(n)
    /\ BusPublishVRFProof(VRFProof(n))
    /\ UNCHANGED <<accepted, timeouts>>

Select(n) ==
    /\ SelectProposer(n, proofs)
    /\ UNCHANGED <<busVars, accepted, timeouts>>

Reject(n) ==
    /\ RejectElection(n, proofs)
    /\ UNCHANGED <<busVars, accepted, timeouts>>

Build(n) ==
    /\ BuildCandidate(n, pool)
    /\ UNCHANGED <<busVars, accepted, timeouts>>

NoEntries(n) ==
    /\ NothingToPropose(n, pool)
    /\ UNCHANGED <<busVars, accepted, timeouts>>

Propose(n) ==
    /\ AfterPropose(n)
    /\ BusPropose(Candidate(n))
    /\ UNCHANGED <<accepted, timeouts>>

SignOwn(n) ==
    /\ AfterSign(n)
    /\ BusPublishSig(BlockSig(n, Candidate(n)))
    /\ UNCHANGED <<accepted, timeouts>>

\* A validator that accepts the proposal also signs it.
SignProposal(n) ==
    \E b \in Proposed(cycle(n)) :
        /\ HandleProposal(n, b)
        /\ IF ProposalVerifies(n, b) THEN BusPublishSig(BlockSig(n, b))
           ELSE UNCHANGED busVars
        /\ UNCHANGED <<accepted, timeouts>>

\* Both the proposer and the validators judge the block the bus holds.
Quorum(n) ==
    \E b \in Proposed(cycle(n)) :
        /\ CheckQuorum(n, b, sigs)
        /\ UNCHANGED <<busVars, accepted, timeouts>>

PublishFinal(n) ==
    \E b \in Proposed(cycle(n)) :
        /\ AfterPublishFinal(n)
        /\ BusPublishFinal(FinalBlock(n, b))
        /\ UNCHANGED <<accepted, timeouts>>

\* The leader goes on with the block it built, which is the one on the bus.
LeaderCommit(n) ==
    \E f \in Final(cycle(n)) :
        /\ CommitAsLeader(n, f)
        /\ IF CommitFails(n, f) THEN UNCHANGED busVars
           ELSE RemoveEntries(f.anchored)
        /\ UNCHANGED <<accepted, timeouts>>

ValidatorCommit(n) ==
    \E f \in Final(cycle(n)) :
        /\ HandleFinal(n, f)
        /\ IF FinalVerifies(n, f) /\ ~CommitFails(n, f) THEN RemoveEntries(f.anchored)
           ELSE UNCHANGED busVars
        /\ UNCHANGED <<accepted, timeouts>>

\* What node n waits for is not on the bus.
Waiting(n) ==
    \/ pc[n] = "elect" /\ ~ProofSetComplete(n, proofs)
    \/ pc[n] = "await" /\ Proposed(cycle(n)) = {}
    \/ pc[n] = "quorum" /\ \E b \in Proposed(cycle(n)) :
           Cardinality(validPrepareSigs(b, sigs)) < requiredQuorum(n)
    \/ pc[n] = "commit" /\ leader[cycle(n)] # n /\ Final(cycle(n)) = {}

Timeout(n) ==
    /\ timeouts < MaxTimeouts
    /\ Waiting(n)
    /\ AbortCycle(n)
    /\ timeouts' = timeouts + 1
    /\ UNCHANGED <<busVars, accepted>>

\* One step of node n's cycle, timeouts aside.
Step(n) ==
    \/ Start(n)
    \/ PublishVRFProof(n)
    \/ Select(n)
    \/ Reject(n)
    \/ Build(n)
    \/ NoEntries(n)
    \/ Propose(n)
    \/ SignOwn(n)
    \/ SignProposal(n)
    \/ Quorum(n)
    \/ PublishFinal(n)
    \/ LeaderCommit(n)
    \/ ValidatorCommit(n)

Next ==
    \E n \in Node :
        \/ \E e \in Entry : Enqueue(n, e) \/ Submit(n, e)
        \/ Step(n)
        \/ Timeout(n)

Spec == Init /\ [][Next]_vars

\* cycleLoop calls RunCycle again and again, and a running cycle is never
\* descheduled for good.
FairSpec == Spec /\ \A n \in Node : WF_vars(Step(n))

-----------------------------------------------------------------------------
Committed(n) == UNION {blocks[n][i].anchored : i \in DOMAIN blocks[n]}

\* The root that goes into node n's alpha for its current cycle.
AlphaRoot(n) == IF pc[n] = "idle" THEN st[n] ELSE snap[n]

BodyType == [index : Nat, proposer : Node, anchored : SUBSET Entry, root : SUBSET Entry]

SigType == [signer : Node, hash : Seq(BodyType)]

CandidateType ==
    [index : Nat, prev : Seq(BodyType), proposer : Node, anchored : SUBSET Entry,
     root : SUBSET Entry, degraded : BOOLEAN, sig : SigType]

FinalType ==
    [index : Nat, prev : Seq(BodyType), proposer : Node, anchored : SUBSET Entry,
     root : SUBSET Entry, degraded : BOOLEAN, bitmap : SUBSET (1..Cardinality(Node)),
     sigs : Seq(SigType), commitSig : SigType]

\* The types of the engine and bus state (engine.go Engine, gossip.go MemoryBus).
TypeOK ==
    /\ pc \in [Node -> {"idle", "vrf", "elect", "build", "propose", "sign",
                        "await", "quorum", "commit", "append"}]
    /\ blocks \in [Node -> Seq(FinalType)]
    /\ st \in [Node -> SUBSET Entry]
    /\ snap \in [Node -> SUBSET Entry]
    /\ pending \in [Node -> SUBSET Entry]
    /\ pendingEntries \in [Node -> SUBSET Entry]
    /\ batch \in [Node -> SUBSET Entry]
    /\ prepareSigs \in [Node -> SUBSET Node]
    /\ anchored \in [Node -> SUBSET [entry : Entry, index : Nat, root : SUBSET Entry]]
    /\ inDegraded \in [Node -> BOOLEAN]
    /\ status \in [Node -> [Node -> 0..StatusSteps]]
    /\ leader \in [Cycles -> Node]
    /\ pool \in SUBSET Entry
    /\ proofs \in SUBSET [cycle : Nat, signer : Node, root : SUBSET Entry]
    /\ proposals \in SUBSET CandidateType
    /\ sigs \in SUBSET [cycle : Nat, signer : Node, hash : Seq(BodyType)]
    /\ finals \in SUBSET FinalType
    /\ accepted \in SUBSET Entry
    /\ timeouts \in 0..MaxTimeouts

\* Two validators never hold blocks with different hashes at one height
\* (RunCommitPhase: nobody commits but what the elected leader finalised).
Agreement ==
    \A m, n \in Node : \A i \in DOMAIN blocks[m] \cap DOMAIN blocks[n] :
        ComputeBlockHash(blocks[m][i]) = ComputeBlockHash(blocks[n][i])

\* Every chain is linked by hash from its first block, although a validator
\* never compares a proposal's PrevHash with its own last block (prepare.go 205-248).
ChainLinked ==
    \A n \in Node : \A i \in DOMAIN blocks[n] :
        /\ blocks[n][i].index = i - 1
        /\ blocks[n][i].prev = IF i = 1 THEN <<>> ELSE ComputeBlockHash(blocks[n][i - 1])

\* A committed block carries as many signatures as its label asks for, and each
\* is one its claimed signer really published for that block (collectValidSigs,
\* the bitmap of RunPreparePhase, the trimming of ApplyDegradedBlock).
QuorumCertified ==
    \A n \in Node : \A i \in DOMAIN blocks[n] :
        LET b == blocks[n][i]
        IN  /\ \A k \in b.bitmap : BlockSig(Peers[n][k], b) \in sigs
            /\ Cardinality(b.bitmap) >= RequiredIn(b, Peers[n])

\* A block in the chain still passes verifyPrepareQuorum under its own label,
\* although ApplyDegradedBlock has rewritten its bitmap and payload by then.
CommittedVerifies ==
    \A n \in Node : \A i \in DOMAIN blocks[n] : verifyPrepareQuorum(blocks[n][i], Peers[n])

\* Validators hold one certificate per height, signatures included: they enter
\* degraded mode at the same block and trim to the same signer (RunCycle 727-737).
CertificatesAgree ==
    \A m, n \in Node : \A i \in DOMAIN blocks[m] \cap DOMAIN blocks[n] :
        blocks[m][i] = blocks[n][i]

\* What a node commits is certified, also below MinValidators, where ApplyDegradedBlock
\* trims what RunPreparePhase collected: by the published signatures the block's label
\* asks for, the same ones on every node, which still pass verifyPrepareQuorum.
Certified ==
    /\ QuorumCertified
    /\ CommittedVerifies
    /\ CertificatesAgree

\* No chain anchors one entry in two blocks, when a client hands it in once:
\* what a commit removes from the pool and the queues never comes back.
AnchoredOnce ==
    \A n \in Node : \A i, j \in DOMAIN blocks[n] :
        i # j => blocks[n][i].anchored \cap blocks[n][j].anchored = {}

\* An entry accepted by Enqueue is in the pool until a final block carries it,
\* whatever aborts and retries happen (Enqueue, RunCycle's RemoveEntries).
NoEnqueuedEntryLost ==
    accepted \cap Gossiped \subseteq pool \cup UNION {f.anchored : f \in finals}

\* No validator is two blocks behind another: a cycle elects nobody without the
\* proof of every peer for that cycle (SelectProposerVRF).
LagAtMostOne ==
    \A m, n \in Node : Len(blocks[m]) <= Len(blocks[n]) + 1

\* The proof a node has on the bus for its current cycle is a proof for the
\* root it would use now: an aborted attempt leaves alpha as it was
\* (stateSnapshot in RunCycle; PublishVRFProof keeps the first proof).
StableAlpha ==
    \A q \in proofs : q.cycle = cycle(q.signer) => q.root = AlphaRoot(q.signer)

\* Validators that elected a proposer for a cycle elected it for one root, so a
\* proposal never fails the root comparison of the validator that waits for it.
ProposalAlwaysVerifies ==
    \A n \in Node : \A b \in Proposed(cycle(n)) :
        pc[n] = "await" => ProposalVerifies(n, b)

\* The final block of a cycle is acceptable to every validator that is still in
\* that cycle (RunCommitPhase, verifyPrepareQuorum).
FinalAlwaysVerifies ==
    \A n \in Node : \A f \in Final(cycle(n)) :
        pc[n] = "commit" => FinalVerifies(n, f)

\* Between cycles the tree holds every entry of the chain, so every anchored
\* entry can be proved (anchored map of RunCycle, ProveSMT).
TreeCoversChain ==
    \A n \in Node : pc[n] = "idle" => Committed(n) \subseteq st[n]

\* Whoever waits in a cycle can go on with it: nobody is left two blocks behind, the
\* proposal and the final block on the bus are acceptable to every validator that waits
\* for them, and a tree that is at rest holds the chain (RunPreparePhase,
\* RunCommitPhase, the rollback of RunCycle).
Followable ==
    /\ LagAtMostOne
    /\ ProposalAlwaysVerifies
    /\ FinalAlwaysVerifies
    /\ TreeCoversChain

\* Between cycles the state root has the node's blocks behind it and nothing
\* else: what stateSnapshot is there to guarantee.
RootBacked ==
    \A n \in Node : pc[n] = "idle" => st[n] = Committed(n)

\* An entry some node has accepted stays a candidate for a block until one
\* carries it: "an entry submitted anywhere becomes a candidate" (engine.go 580).
AcceptedStaysCandidate ==
    accepted \subseteq UNION {f.anchored : f \in finals}
                       \cup UNION {pending[n] \cup pendingEntries[n] : n \in Node}

\* A leader has committed a proposal of an earlier attempt with the tree of a later one:
\* the proof it hands out is under another root than the block's (RunCycle 723-825 puts
\* the root of e.st into it).
TreeParted ==
    \E n \in Node : \E a \in anchored[n] : a.root # blocks[n][a.index + 1].root

\* Time and again every entry that Enqueue has accepted is anchored by every validator,
\* whatever waits time out, or a leader's tree has parted from its chain: no other abort,
\* retry or race of an acceptance with a cycle keeps an entry out (cycleLoop, RunCycle).
\* With finitely many entries: each of them is anchored in the end.
EventuallyAnchored ==
    []<>(TreeParted \/ \A n \in Node : accepted \cap Gossiped \subseteq Committed(n))

-----------------------------------------------------------------------------
\* The engine implements BatchLog: the log is what leaders have finalised, and
\* a node has learned what its chain holds.
FinalBatch(c) == (CHOOSE f \in finals : f.index = c).anchored

Log == INSTANCE BatchLog WITH
    submitted <- accepted,
    log <- [i \in 1..Cardinality(finals) |-> FinalBatch(i - 1)],
    learned <- [n \in Node |-> [i \in DOMAIN blocks[n] |-> blocks[n][i].anchored]]

\* Every behaviour of the engines over the bus is a behaviour of BatchLog: one
\* log, batches disjoint, nodes never more than one batch apart.
ImplementsBatchLog == Log!LogSpec

=============================================================================
