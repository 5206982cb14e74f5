---------------------------- MODULE P2PConsensus ----------------------------
(***************************************************************************)
(* Validators running RunCycle over libp2p: the engine of Engine, each on  *)
(* its own GossipBus.  Unlike the shared bus, a node's bus changes under   *)
(* it, so the second call of RunPreparePhase, which reads and signs the    *)
(* proposal again, is a step of its own.                                   *)
(*                                                                         *)
(* A wait may time out whenever what it waits for is not there yet, any    *)
(* number of times.  The daemon keeps nothing on disk: a restarted node    *)
(* starts from an empty chain and an empty bus.                            *)
(***************************************************************************)
EXTENDS Engine, GossipBus

CONSTANTS
    Lossy,           \* the protocols on which a frame may be lost
    MaxLost,         \* bound: frames lost
    MaxRestarts      \* bound: node restarts

\* What the constants must satisfy.
P2PAssumption ==
    /\ HostAssumption /\ Host = Node /\ MaxLost \in Nat /\ MaxRestarts \in Nat

VARIABLES
    rechecked,       \* node n has read the proposal in its second pass
    accepted,        \* the entries clients have handed in
    lost,
    restarts

rest == <<accepted, lost, restarts>>

p2pConsensusVars == <<engineVars, p2pVars, rechecked, rest>>

P2PInit ==
    /\ EngineInit
    /\ GossipInit
    /\ rechecked = [n \in Node |-> FALSE]
    /\ accepted = {}
    /\ lost = 0
    /\ restarts = 0

Enqueue(n, e) ==
    /\ e \in Entry \ accepted
    /\ AcceptEntry(n, e)
    /\ GossipPublish(n, e)
    /\ accepted' = accepted \cup {e}
    /\ UNCHANGED <<rechecked, lost, restarts>>

Start(n) ==
    /\ StartCycle(n, gossip[n].pending)
    /\ rechecked' = [rechecked EXCEPT ![n] = FALSE]
    /\ UNCHANGED <<p2pVars, rest>>

PublishVRFProof(n) ==
    /\ AfterVRFProof(n)
    /\ GossipPublishVRFProof(n, VRFProof(n))
    /\ UNCHANGED <<rechecked, rest>>

Elect(n) ==
    /\ SelectProposer(n, gossip[n].vrfProofs) \/ RejectElection(n, gossip[n].vrfProofs)
    /\ UNCHANGED <<p2pVars, rechecked, rest>>

Build(n) ==
    /\ BuildCandidate(n, gossip[n].pending) \/ NothingToPropose(n, gossip[n].pending)
    /\ UNCHANGED <<p2pVars, rechecked, rest>>

Propose(n) ==
    /\ AfterPropose(n)
    /\ GossipPropose(n, Candidate(n))
    /\ UNCHANGED <<rechecked, rest>>

SignOwn(n) ==
    /\ AfterSign(n)
    /\ GossipPublishSig(n, BlockSig(n, Candidate(n)))
    /\ UNCHANGED <<rechecked, rest>>

\* A validator's first pass.
SignProposal(n) ==
    \E b \in GetProposed(n, cycle(n)) :
        /\ HandleProposal(n, b)
        /\ IF ProposalVerifies(n, b) THEN GossipPublishSig(n, BlockSig(n, b))
           ELSE UNCHANGED p2pVars
        /\ UNCHANGED <<rechecked, rest>>

\* Its second pass judges and signs what the slot holds by then.
Recheck(n) ==
    \E b \in GetProposed(n, cycle(n)) :
        /\ pc[n] = "quorum"
        /\ leader[cycle(n)] # n
        /\ ~rechecked[n]
        /\ IF ProposalVerifies(n, b)
           THEN /\ GossipPublishSig(n, BlockSig(n, b))
                /\ rechecked' = [rechecked EXCEPT ![n] = TRUE]
                /\ st' = [st EXCEPT ![n] = @ \cup b.anchored]
                /\ UNCHANGED <<pc, blocks, snap, pending, pendingEntries, batch,
                               prepareSigs, anchored, inDegraded, status, leader>>
           ELSE AbortCycle(n) /\ UNCHANGED <<p2pVars, rechecked>>
        /\ UNCHANGED rest

Quorum(n) ==
    \E b \in GetProposed(n, cycle(n)) :
        /\ rechecked[n] \/ leader[cycle(n)] = n
        /\ CheckQuorum(n, b, gossip[n].sigs)
        /\ UNCHANGED <<p2pVars, rechecked, rest>>

PublishFinal(n) ==
    \E b \in GetProposed(n, cycle(n)) :
        /\ AfterPublishFinal(n)
        /\ GossipPublishFinal(n, FinalBlock(n, b))
        /\ UNCHANGED <<rechecked, rest>>

\* The block to commit is the one GetFinal returns: the leader's own, or a
\* validator's copy if one had reached it.
Commit(n) ==
    \E f \in GetFinal(n, cycle(n)) :
        /\ IF leader[cycle(n)] = n THEN CommitAsLeader(n, f) ELSE HandleFinal(n, f)
        /\ IF Len(blocks'[n]) > cycle(n) THEN GossipRemoveEntries(n, f.anchored)
           ELSE UNCHANGED p2pVars
        /\ UNCHANGED <<rechecked, rest>>

\* collectValidSigs looks at the first signature of a signer, in the order of arrival:
\* a leader whose retry signed another candidate may not count for its peers.
SurelyCounted(n, b) ==
    {s \in validPrepareSigs(b, gossip[n].sigs) :
        s = n \/ \A q \in gossip[n].sigs :
                    q.cycle = b.index /\ q.signer = s => q = BlockSig(s, b)}

Waiting(n) ==
    \/ pc[n] = "elect" /\ ~ProofSetComplete(n, gossip[n].vrfProofs)
    \/ pc[n] = "await" /\ GetProposed(n, cycle(n)) = {}
    \/ pc[n] = "quorum" /\ \E b \in GetProposed(n, cycle(n)) :
           /\ rechecked[n] \/ leader[cycle(n)] = n
           /\ Cardinality(SurelyCounted(n, b)) < requiredQuorum(n)
    \/ pc[n] = "commit" /\ leader[cycle(n)] # n /\ GetFinal(n, cycle(n)) = {}

Timeout(n) ==
    /\ Waiting(n)
    /\ AbortCycle(n)
    /\ UNCHANGED <<p2pVars, rechecked, rest>>

Step(n) ==
    \/ Start(n) \/ PublishVRFProof(n) \/ Elect(n) \/ Build(n) \/ Propose(n) \/ SignOwn(n)
    \/ SignProposal(n) \/ Recheck(n) \/ Quorum(n) \/ PublishFinal(n) \/ Commit(n)
    \/ Timeout(n)

\* A frame from p to n on one of the four protocols arrives.
Receive(n, p, proto) ==
    \E m \in net :
        /\ m.to = n /\ m.from = p /\ m.proto = proto
        /\ Deliver(m)
        /\ UNCHANGED <<engineVars, rechecked, rest>>

LoseFrame ==
    /\ lost < MaxLost
    /\ \E m \in net : m.proto \in Lossy /\ Lose(m)
    /\ lost' = lost + 1
    /\ UNCHANGED <<engineVars, rechecked, accepted, restarts>>

\* A node stops and comes back with nothing but its keys.  What its goroutines had not
\* written yet is not sent.
Restart(n) ==
    /\ restarts < MaxRestarts
    /\ restarts' = restarts + 1
    /\ gossip' = [gossip EXCEPT ![n] = EmptyBus]
    /\ pc' = [pc EXCEPT ![n] = "idle"]
    /\ blocks' = [blocks EXCEPT ![n] = <<>>]
    /\ st' = [st EXCEPT ![n] = {}]
    /\ snap' = [snap EXCEPT ![n] = {}]
    /\ pending' = [pending EXCEPT ![n] = {}]
    /\ pendingEntries' = [pendingEntries EXCEPT ![n] = {}]
    /\ batch' = [batch EXCEPT ![n] = {}]
    /\ prepareSigs' = [prepareSigs EXCEPT ![n] = {}]
    /\ anchored' = [anchored EXCEPT ![n] = {}]
    /\ inDegraded' = [inDegraded EXCEPT ![n] = FALSE]
    /\ status' = [status EXCEPT ![n] = [m \in Node |-> StatusSteps]]
    /\ rechecked' = [rechecked EXCEPT ![n] = FALSE]
    /\ \E unsent \in SUBSET {m \in net : m.from = n} : net' = net \ unsent
    /\ UNCHANGED <<leader, accepted, lost>>

Protocols == {"entries", "proposals", "sigs", "vrfproofs"}

P2PNext ==
    \/ \E n \in Node, e \in Entry : Enqueue(n, e)
    \/ \E n \in Node : Step(n) \/ Restart(n)
    \/ \E n, p \in Node, proto \in Protocols : Receive(n, p, proto)
    \/ LoseFrame

P2PSpec == P2PInit /\ [][P2PNext]_p2pConsensusVars

\* cycleLoop runs for ever and libp2p delivers what sendStream wrote.
P2PFairSpec ==
    /\ P2PSpec
    /\ \A n \in Node : WF_p2pConsensusVars(Step(n))
    /\ \A n, p \in Node, proto \in Protocols : WF_p2pConsensusVars(Receive(n, p, proto))

-----------------------------------------------------------------------------
BodyOf == [index : Nat, proposer : Node, anchored : SUBSET Entry, root : SUBSET Entry]

\* The types of the libp2p bus and of what travels on it (gossip.go GossipBus).
P2PTypeOK ==
    /\ rechecked \in [Node -> BOOLEAN]
    /\ accepted \subseteq Entry
    /\ \A n \in Node :
           /\ gossip[n].pending \subseteq Entry
           /\ gossip[n].vrfProofs \subseteq [cycle : Nat, signer : Node, root : SUBSET Entry]
           /\ gossip[n].sigs \subseteq [cycle : Nat, signer : Node, hash : Seq(BodyOf)]
           /\ \A b \in gossip[n].proposals \cup gossip[n].finals : ComputeBlockHash(b) \in Seq(BodyOf)
    /\ \A m \in net : m.from \in Node /\ m.to \in Node \ {m.from} /\ m.proto \in Protocols

\* The block a node holds for a cycle keeps its hash, although a received block
\* overwrites the slot and B_final arrives where the candidate was: "a proposer must
\* not be able to replace the candidate after validators have begun verifying it"
\* (Propose, handleProposalsStream).
SlotKept ==
    \A n \in Node : \A b \in gossip[n].proposals : \A q \in gossip'[n].proposals :
        b.index = q.index => ComputeBlockHash(b) = ComputeBlockHash(q)

\* A committed block carries a quorum of signatures, each one that its signer
\* made and still holds on a bus of its own, after any reordering and repetition
\* of frames and any number of retries (collectValidSigs, RunPreparePhase).
CertifiedBySigners ==
    \A n \in Node : \A i \in DOMAIN blocks[n] :
        LET b == blocks[n][i]
        IN  /\ \A k \in b.bitmap : BlockSig(Peers[n][k], b) \in gossip[Peers[n][k]].sigs
            /\ Cardinality(b.bitmap) >= RequiredIn(b, Peers[n])

\* The VRF proof that some bus holds for a node's current cycle covers the root
\* the node would use now, also when the node has restarted and its peers keep
\* the proof it published before (PublishVRFProof, handleVRFProofsStream).
P2PStableAlpha ==
    \A n \in Node : \A q \in gossip[n].vrfProofs :
        q.cycle = cycle(q.signer) =>
            q.root = IF pc[q.signer] = "idle" THEN st[q.signer] ELSE snap[q.signer]

\* What a bus holds for a cycle is settled, as long as no node restarts.  A restarted node
\* has lost its tree and its chain: it may propose and sign another block of a cycle its
\* peers remember, and on a chain of several blocks meet its own proof of an earlier run.
\* On a chain of one block that proof covers the empty tree in every run.
SlotsHold ==
    /\ P2PTypeOK
    /\ MaxRestarts = 0 \/ MaxBlocks <= 1 => P2PStableAlpha
    /\ MaxRestarts = 0 => CertifiedBySigners

SlotsSettled == []SlotsHold /\ [][MaxRestarts = 0 => SlotKept]_p2pConsensusVars

\* Where the entries are that clients have handed in: on a bus, in an entries frame, or in
\* a final block.
KeptEntries ==
    UNION {gossip[n].pending : n \in Node}
        \cup {m.data : m \in {f \in net : f.proto = "entries"}}
        \cup UNION {b.anchored : b \in UNION {gossip[n].finals : n \in Node}}

\* An entry that has got to every node is not lost with one of them, although nothing is on
\* disk, no frame is sent again and a leader forgets the entry when it commits: whichever
\* node restarts, and at whatever step, a node still has it to propose or has anchored it
\* (RemoveEntries, handleProposalsStream, PublishFinal).
EntriesSurvive ==
    \A e \in Entry :
        []((\A n \in Node : e \in gossip[n].pending) => [](restarts <= 1 => e \in KeptEntries))

\* An accepted entry is not lost with the node that accepted it.
AcceptedSurvives == restarts <= 1 /\ lost = 0 => accepted \subseteq KeptEntries

\* With fair scheduling and every frame delivered, whatever waits time out, an
\* accepted entry gets the network to a final block, batches at the size limit
\* of a stream included (RunCycle over GossipBus, sendStream).
EventuallyFinalised ==
    (accepted # {}) ~> (\E n \in Node : gossip[n].finals # {})

\* A node that waits for VRF proofs gets through an election in the end: a wait
\* that fails "costs this cycle and nothing more" (waitForVRFProofs, prepare.go 411).
ElectionEventually ==
    \A n \in Node : (pc[n] = "elect") ~> (pc[n] \in {"build", "await"})

\* "PublishFinal stores the leader's finalised block for a cycle and gossips it":
\* once one bus has the final block of a cycle, every bus gets it (gossip.go 466).
FinalReachesPeers ==
    \A n, p \in Node, c \in Cycles : (GetFinal(p, c) # {}) ~> (GetFinal(n, c) # {})

=============================================================================
