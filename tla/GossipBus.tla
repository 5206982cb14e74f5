----------------------------- MODULE GossipBus -----------------------------
(***************************************************************************)
(* The libp2p bus (pkg/transport/p2p gossip.go): every node keeps a bus of *)
(* its own and sends what it publishes to its peers, each frame by a       *)
(* goroutine of its own, once.  Frames arrive in any order or not at all.  *)
(***************************************************************************)
EXTENDS Naturals, FiniteSets

CONSTANTS
    Host,            \* the nodes of the mesh
    MaxStream        \* maxStreamMessage, in entries of a block

\* What the constants must satisfy.
HostAssumption == IsFiniteSet(Host) /\ MaxStream \in Nat

VARIABLES
    gossip,          \* gossip[n]: the maps of node n's GossipBus
    net              \* the frames on their way

p2pVars == <<gossip, net>>

EmptyBus == [pending |-> {}, proposals |-> {}, finals |-> {}, sigs |-> {}, vrfProofs |-> {}]

GossipInit ==
    /\ gossip = [n \in Host |-> EmptyBus]
    /\ net = {}

\* Mutant: the limit is exclusive.
FitsBelow(proto, data) == proto = "proposals" => Cardinality(data.anchored) < MaxStream

\* A block grows with its batch; the other messages are far below the limit.
FitsStream(proto, data) == proto = "proposals" => Cardinality(data.anchored) <= MaxStream

Frames(n, proto, data) ==
    {[from |-> n, to |-> p, proto |-> proto, data |-> data] : p \in Host \ {n}}

broadcast(n, proto, data) ==
    net' = IF FitsStream(proto, data) THEN net \cup Frames(n, proto, data) ELSE net

\* The fields of a block that are read once it is in a proposals slot.
AsProposal(b) ==
    [index |-> b.index, prev |-> b.prev, proposer |-> b.proposer, anchored |-> b.anchored,
     root |-> b.root, degraded |-> b.degraded, sig |-> b.sigs[1]]

GossipPublish(n, e) ==
    /\ gossip' = [gossip EXCEPT ![n].pending = @ \cup {e}]
    /\ broadcast(n, "entries", e)

GossipRemoveEntries(n, gone) ==
    /\ gossip' = [gossip EXCEPT ![n].pending = @ \ gone]
    /\ UNCHANGED net

GetProposed(n, c) == {b \in gossip[n].proposals : b.index = c}

\* Mutant: a retry replaces the candidate.
GossipProposeAgain(n, b) ==
    /\ gossip' = [gossip EXCEPT ![n].proposals = {q \in @ : q.index # b.index} \cup {b}]
    /\ broadcast(n, "proposals", b)

\* First write wins, and only the first write is sent.
GossipPropose(n, b) ==
    IF GetProposed(n, b.index) # {} THEN UNCHANGED p2pVars
    ELSE /\ gossip' = [gossip EXCEPT ![n].proposals = @ \cup {b}]
         /\ broadcast(n, "proposals", b)

GetFinal(n, c) == {b \in gossip[n].finals : b.index = c}

\* B_final travels as a proposal.
GossipPublishFinal(n, f) ==
    /\ gossip' = [gossip EXCEPT ![n].finals = {q \in @ : q.index # f.index} \cup {f}]
    /\ broadcast(n, "proposals", AsProposal(f))

\* Every call appends and sends.  Copies of a signature are one element.
GossipPublishSig(n, s) ==
    /\ gossip' = [gossip EXCEPT ![n].sigs = @ \cup {s}]
    /\ broadcast(n, "sigs", s)

HeldProof(n, q) == \E held \in gossip[n].vrfProofs : held.cycle = q.cycle /\ held.signer = q.signer

\* First write wins, and only the first write is sent.
GossipPublishVRFProof(n, q) ==
    IF HeldProof(n, q) THEN UNCHANGED p2pVars
    ELSE /\ gossip' = [gossip EXCEPT ![n].vrfProofs = @ \cup {q}]
         /\ broadcast(n, "vrfproofs", q)

-----------------------------------------------------------------------------
\* The stream handlers.  A received block replaces what the slot held.
handleEntriesStream(n, e) == gossip' = [gossip EXCEPT ![n].pending = @ \cup {e}]

\* Mutant: what a received block anchors leaves the pool.
HandleAndForget(n, b) ==
    gossip' = [gossip EXCEPT ![n].proposals = {q \in @ : q.index # b.index} \cup {b},
                             ![n].pending = @ \ b.anchored]

handleProposalsStream(n, b) ==
    gossip' = [gossip EXCEPT ![n].proposals = {q \in @ : q.index # b.index} \cup {b}]

handleSigsStream(n, s) == gossip' = [gossip EXCEPT ![n].sigs = @ \cup {s}]

handleVRFProofsStream(n, q) ==
    gossip' = IF HeldProof(n, q) THEN gossip
              ELSE [gossip EXCEPT ![n].vrfProofs = @ \cup {q}]

\* A frame is read whole by the handler of its protocol.
Deliver(m) ==
    /\ m \in net
    /\ net' = net \ {m}
    /\ \/ m.proto = "entries" /\ handleEntriesStream(m.to, m.data)
       \/ m.proto = "proposals" /\ handleProposalsStream(m.to, m.data)
       \/ m.proto = "sigs" /\ handleSigsStream(m.to, m.data)
       \/ m.proto = "vrfproofs" /\ handleVRFProofsStream(m.to, m.data)

\* sendStream gives up: no stream, a failed write, the request timeout.
Lose(m) ==
    /\ m \in net
    /\ net' = net \ {m}
    /\ UNCHANGED gossip

=============================================================================
