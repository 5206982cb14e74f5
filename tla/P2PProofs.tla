----------------------------- MODULE P2PProofs -----------------------------
(***************************************************************************)
(* Consensus over the libp2p bus, for every set of validators, every peer  *)
(* order, every loss and reordering of frames and every number of blocks.  *)
(*                                                                         *)
(* A bus step is summed up once (BusMoves): which proposals, signatures    *)
(* and VRF proofs circulate after it, on a bus or in a frame, that did not *)
(* before.  The invariants speak of what circulates, so that delivering,   *)
(* repeating or losing a frame changes none of them.                       *)
(***************************************************************************)
EXTENDS P2PConsensus, PrepareQuorumProofs

\* A leaf that names no prover is left to Zenon; the ones that need SMT name it.
USE ZenonT(30)

-----------------------------------------------------------------------------
Sig == [signer : Node, hash : Seq(BodyOf)]

Proposal ==
    [index : Nat, prev : Seq(BodyOf), proposer : Node, anchored : SUBSET Entry,
     root : SUBSET Entry, degraded : BOOLEAN, sig : Sig]

Final ==
    [index : Nat, prev : Seq(BodyOf), proposer : Node, anchored : SUBSET Entry,
     root : SUBSET Entry, degraded : BOOLEAN, bitmap : SUBSET (1..Cardinality(Node)),
     sigs : Seq(Sig), commitSig : Sig]

SigMessage == [cycle : Nat, signer : Node, hash : Seq(BodyOf)]

ProofMessage == [cycle : Nat, signer : Node, root : SUBSET Entry]

Bus ==
    [pending : SUBSET Entry, proposals : SUBSET Proposal, finals : SUBSET Final,
     sigs : SUBSET SigMessage, vrfProofs : SUBSET ProofMessage]

Payload(proto) ==
    CASE proto = "entries" -> Entry
      [] proto = "proposals" -> Proposal
      [] proto = "sigs" -> SigMessage
      [] OTHER -> ProofMessage

IsFrame(m) ==
    /\ m.from \in Node
    /\ m.to \in Node \ {m.from}
    /\ m.proto \in Protocols
    /\ m.data \in Payload(m.proto)

\* Where RunCycle waits or writes.
Places == {"idle", "vrf", "elect", "build", "propose", "sign", "await", "quorum", "commit", "append"}

EngineTypes ==
    /\ pc \in [Node -> Places]
    /\ blocks \in [Node -> Seq(Final)]
    /\ st \in [Node -> SUBSET Entry]
    /\ snap \in [Node -> SUBSET Entry]
    /\ batch \in [Node -> SUBSET Entry]
    /\ prepareSigs \in [Node -> SUBSET Node]
    /\ inDegraded \in [Node -> BOOLEAN]

BusTypes ==
    /\ gossip \in [Node -> Bus]
    /\ \A m \in net : IsFrame(m)

\* A final block carries a signature, so that the frame it travels in has one to show.
Signed ==
    \A n \in Node : pc[n] = "commit" => prepareSigs[n] # {}

P2PTypes ==
    /\ EngineTypes /\ BusTypes /\ Signed
    /\ rechecked \in [Node -> BOOLEAN]
    /\ accepted \in SUBSET Entry
    /\ restarts \in Nat

-----------------------------------------------------------------------------
\* The hash of a typed block is a sequence of bodies (ComputeBlockHash).
LEMMA HashTyped ==
    ASSUME NEW b, b.index \in Nat, b.prev \in Seq(BodyOf), b.proposer \in Node,
           b.anchored \in SUBSET Entry, b.root \in SUBSET Entry
    PROVE  ComputeBlockHash(b) \in Seq(BodyOf)
  <1>1. [index |-> b.index, proposer |-> b.proposer, anchored |-> b.anchored, root |-> b.root]
            \in BodyOf
    BY SMTT(30) DEF BodyOf
  <1> HIDE DEF BodyOf
  <1> QED
    BY <1>1, SMTT(30) DEF ComputeBlockHash

\* ... for the two record types of blocks, whose fields it lists.
LEMMA ProposalTyped ==
    ASSUME NEW b \in Proposal
    PROVE  /\ ComputeBlockHash(b) \in Seq(BodyOf)
           /\ b.index \in Nat /\ b.anchored \in SUBSET Entry /\ b.root \in SUBSET Entry
  BY HashTyped, SMTT(30) DEF Proposal

\* The same for a block that carries a certificate.
LEMMA FinalTyped ==
    ASSUME NEW f \in Final
    PROVE  /\ ComputeBlockHash(f) \in Seq(BodyOf)
           /\ f.index \in Nat /\ f.anchored \in SUBSET Entry /\ f.root \in SUBSET Entry
           /\ f.bitmap \in SUBSET (1..Cardinality(Node)) /\ f.sigs \in Seq(Sig)
           /\ f.degraded \in BOOLEAN
  BY HashTyped DEF Final

\* The positions of a peer list are 1..Cardinality(Node), one per validator.
LEMMA PeersTyped ==
    ASSUME NEW n \in Node
    PROVE  /\ Peers[n] \in Seq(Node)
           /\ DOMAIN Peers[n] = 1..Cardinality(Node)
           /\ Len(Peers[n]) = Cardinality(Node)
           /\ Cardinality(Node) \in Nat \ {0}
  <1>1. Cardinality(Node) \in Nat /\ Cardinality(Node) # 0
    BY PeersAssumption, FS_CardinalityType, FS_EmptySet
  <1> QED
    BY <1>1, PeersAssumption, SMTT(30)

\* Both quorums ask for at least one signature (requiredQuorum, quorumRequired).
LEMMA QuorumAtLeastOne ==
    ASSUME EngineTypes, NEW n \in Node
    PROVE  /\ requiredQuorum(n) \in Nat /\ requiredQuorum(n) >= 1
           /\ quorumRequired(Cardinality(Node)) \in Nat /\ quorumRequired(Cardinality(Node)) >= 1
  <1>1. quorumRequired(Cardinality(Node)) \in Nat \ {0}
    BY PeersTyped, QuorumPositive
  <1> QED
    BY <1>1, SMTT(30) DEF requiredQuorum

\* The height and the parent hash of a chain.
LEMMA HeightTyped ==
    ASSUME EngineTypes, NEW n \in Node
    PROVE  cycle(n) \in Nat /\ prevHash(n) \in Seq(BodyOf)
  <1>1. blocks[n] \in Seq(Final) /\ Len(blocks[n]) \in Nat
    BY SMTT(30) DEF EngineTypes
  <1>2. CASE Len(blocks[n]) = 0
    BY <1>1, <1>2, SMTT(30) DEF prevHash, cycle
  <1>3. CASE Len(blocks[n]) > 0
    <2>1. blocks[n][Len(blocks[n])] \in Final
      BY <1>1, <1>3, SMTT(30)
    <2> QED
      BY <1>1, <1>3, <2>1, FinalTyped DEF prevHash, cycle
  <1> QED
    BY <1>1, <1>2, <1>3, SMTT(30)

\* The candidate of a proposer (buildBlockCandidate).
LEMMA CandidateMade ==
    ASSUME EngineTypes, NEW n \in Node
    PROVE  Candidate(n) \in Proposal /\ Candidate(n).index = cycle(n)
  <1> DEFINE b == [index |-> cycle(n), prev |-> prevHash(n), proposer |-> n,
                   anchored |-> batch[n], root |-> st[n]]
             h == ComputeBlockHash(b)
             c == [index |-> b.index, prev |-> b.prev, proposer |-> n, anchored |-> b.anchored,
                   root |-> b.root, degraded |-> requiredQuorum(n) = 1,
                   sig |-> SignDilithium(n, h)]
  <1>1. Candidate(n) = c
    BY DEF Candidate
  <1>2. /\ prevHash(n) \in Seq(BodyOf) /\ cycle(n) \in Nat
        /\ batch[n] \in SUBSET Entry /\ st[n] \in SUBSET Entry
    BY HeightTyped DEF EngineTypes
  <1>3. h \in Seq(BodyOf)
    BY <1>2, HashTyped
  <1>4. SignDilithium(n, h) \in Sig
    BY <1>3 DEF SignDilithium, Sig
  <1> HIDE DEF h
  <1>5. c \in Proposal
    BY <1>2, <1>4 DEF Proposal
  <1> QED
    BY <1>1, <1>5, SMTT(30)

\* A PREPARE signature over a typed block.
LEMMA SigMade ==
    ASSUME NEW n \in Node, NEW b \in Proposal
    PROVE  BlockSig(n, b) \in SigMessage
  BY ProposalTyped DEF BlockSig, SigMessage

\* The bitmap of a set of signers has a bit for each (RunPreparePhase).
LEMMA SignersCounted ==
    ASSUME NEW n \in Node, NEW S \in SUBSET Node
    PROVE  /\ IsFiniteSet(S) /\ Cardinality(S) \in Nat
           /\ PrepareBitmap(Peers[n], S) \in SUBSET (1..Cardinality(Node))
           /\ Cardinality(PrepareBitmap(Peers[n], S)) \in Nat
           /\ Cardinality(PrepareBitmap(Peers[n], S)) >= Cardinality(S)
           /\ S # {} => PrepareBitmap(Peers[n], S) # {}
  <1> DEFINE bits == PrepareBitmap(Peers[n], S)
             at == [i \in bits |-> Peers[n][i]]
  <1>1. bits \in SUBSET (1..Cardinality(Node))
    BY PeersTyped DEF PrepareBitmap
  <1>2. IsFiniteSet(bits) /\ Cardinality(bits) \in Nat
    BY <1>1, PeersTyped, BitmapFinite
  <1>3. \A p \in S : \E i \in bits : Peers[n][i] = p
    BY PeersAssumption DEF PrepareBitmap
  <1>4. at \in Surjection(bits, S)
    <2>1. at \in [bits -> S]
      BY DEF PrepareBitmap
    <2>2. \A p \in S : \E i \in bits : at[i] = p
      BY <1>3
    <2> HIDE DEF at, bits
    <2> QED
      BY <2>1, <2>2 DEF Surjection
  <1> HIDE DEF at, bits
  <1>5. IsFiniteSet(S) /\ Cardinality(S) <= Cardinality(bits)
    BY <1>2, <1>4, FS_Surjection
  <1>6. Cardinality(S) \in Nat
    BY <1>5, FS_CardinalityType
  <1>7. S # {} => bits # {}
    BY <1>3
  <1> QED
    BY <1>1, <1>2, <1>5, <1>6, <1>7 DEF bits

\* B_final: typed, with the hash and the height of the proposal, a bit per signer and
\* the payload compacted in the leader's peer order; so is the block sent for it.
LEMMA FinalMade ==
    ASSUME EngineTypes, NEW n \in Node, NEW b \in Proposal, prepareSigs[n] # {}
    PROVE  LET f == FinalBlock(n, b)
           IN  /\ f \in Final
               /\ f.index = b.index
               /\ ComputeBlockHash(f) = ComputeBlockHash(b)
               /\ f.bitmap = PrepareBitmap(Peers[n], prepareSigs[n])
               /\ f.sigs = CompactSigs(Peers[n], f.bitmap, ComputeBlockHash(f))
               /\ AsProposal(f) \in Proposal
               /\ AsProposal(f).index = b.index
               /\ ComputeBlockHash(AsProposal(f)) = ComputeBlockHash(b)
  <1> DEFINE bits == PrepareBitmap(Peers[n], prepareSigs[n])
             h == ComputeBlockHash(b)
             payload == CompactSigs(Peers[n], bits, h)
             f == FinalBlock(n, b)
             p == AsProposal(f)
             T == {SignDilithium(Peers[n][i], h) : i \in bits}
  <1>1. h \in Seq(BodyOf)
    BY ProposalTyped
  <1>2. prepareSigs[n] \in SUBSET Node
    BY DEF EngineTypes
  <1>3. bits \in SUBSET (1..Cardinality(Node)) /\ bits # {}
    BY <1>2, SignersCounted
  <1>4. bits \subseteq Nat /\ IsFiniteSet(bits) /\ Cardinality(bits) \in Nat
    BY <1>3, PeersTyped, BitmapFinite
  <1>5. payload \in Seq(T) /\ Len(payload) = Cardinality(bits)
    BY <1>4, CompactLength
  <1>6. \A i \in bits : Peers[n][i] \in Node
    BY <1>3, PeersTyped, SMTT(30)
  <1> HIDE DEF h, bits
  <1>7. T \subseteq Sig
    BY <1>1, <1>6, SMTT(30) DEF SignDilithium, Sig
  <1>8. Cardinality(bits) # 0
    BY <1>3, <1>4, FS_EmptySet
  <1> HIDE DEF T, payload
  <1>9. payload \in Seq(Sig) /\ payload[1] \in Sig
    <2>1. payload \in Seq(Sig)
      BY <1>5, <1>7, SeqWidens
    <2>2. 1 \in 1..Len(payload)
      BY <1>4, <1>5, <1>8, SMTT(30)
    <2> QED
      BY <2>1, <2>2, SMTT(30)
  <1>10. SignDilithium(n, h) \in Sig
    BY <1>1 DEF SignDilithium, Sig
  <1>11. f = [index |-> b.index, prev |-> b.prev, proposer |-> b.proposer,
              anchored |-> b.anchored, root |-> b.root, degraded |-> b.degraded,
              bitmap |-> bits, sigs |-> payload, commitSig |-> SignDilithium(n, h)]
    BY DEF FinalBlock, bits, h, payload
  <1>12. p = [index |-> b.index, prev |-> b.prev, proposer |-> b.proposer,
              anchored |-> b.anchored, root |-> b.root, degraded |-> b.degraded,
              sig |-> payload[1]]
    BY <1>11, SMTT(30) DEF AsProposal
  <1> HIDE DEF f, p
  <1>13. f \in Final
    BY <1>3, <1>9, <1>10, <1>11 DEF Final, Proposal
  <1>14. p \in Proposal
    BY <1>9, <1>12 DEF Proposal
  <1>15. ComputeBlockHash(f) = h /\ ComputeBlockHash(p) = h
    BY <1>11, <1>12 DEF ComputeBlockHash, h
  <1>16. f.index = b.index /\ f.bitmap = bits /\ f.sigs = payload /\ p.index = b.index
    BY <1>11, <1>12
  <1>17. f.sigs = CompactSigs(Peers[n], f.bitmap, ComputeBlockHash(f))
    BY <1>15, <1>16 DEF payload
  <1> QED
    BY <1>13, <1>14, <1>15, <1>16, <1>17 DEF f, p, bits, h

\* ApplyDegradedBlock keeps one valid signature of a block that has one, and labels
\* the block; its hash and height stay.
LEMMA TrimMade ==
    ASSUME NEW f \in Final, NEW n \in Node, ValidPositions(f, Peers[n]) # {}
    PROVE  LET t == TrimToOne(f, Peers[n])
           IN  /\ t \in Final
               /\ t.index = f.index
               /\ ComputeBlockHash(t) = ComputeBlockHash(f)
               /\ t.degraded
               /\ \E i \in f.bitmap : t.bitmap = {i}
  <1> DEFINE V == ValidPositions(f, Peers[n])
             i == CHOOSE i \in V : \A j \in V : i <= j
             s == f.sigs[countBitsBefore(f.bitmap, i) + 1]
             t == TrimToOne(f, Peers[n])
  <1>1. f.bitmap \in SUBSET (1..Cardinality(Node)) /\ f.sigs \in Seq(Sig)
    BY FinalTyped
  <1>2. V \subseteq 1..Cardinality(Node) /\ V \subseteq f.bitmap
    BY <1>1 DEF ValidPositions
  <1>3. i \in V
    BY <1>2, PeersTyped, LeastPosition
  <1>4. i \in 1..Cardinality(Node) /\ i \in f.bitmap /\ SigVerifies(f, Peers[n], i)
    BY <1>2, <1>3 DEF ValidPositions
  <1>5. s \in Sig
    <2>1. f.bitmap \subseteq Nat /\ IsFiniteSet(f.bitmap) /\ Cardinality(f.bitmap) \in Nat
      BY <1>1, PeersTyped, BitmapFinite
    <2>2. countBitsBefore(f.bitmap, i) \in 0..(Cardinality(f.bitmap) - 1)
      BY <1>4, <2>1, CountBelow
    <2>3. countBitsBefore(f.bitmap, i) < Len(f.sigs)
      BY <1>4 DEF SigVerifies
    <2> HIDE DEF i
    <2> QED
      BY <1>1, <2>1, <2>2, <2>3, SMTT(30)
  <1>6. t = [f EXCEPT !.bitmap = {i}, !.sigs = <<s>>, !.degraded = TRUE]
    BY DEF TrimToOne
  <1> HIDE DEF i, s, V, t
  <1>7. <<s>> \in Seq(Sig) /\ {i} \in SUBSET (1..Cardinality(Node))
    BY <1>4, <1>5, SMTT(30)
  <1>8. t \in Final /\ t.index = f.index /\ t.prev = f.prev /\ t.proposer = f.proposer
        /\ t.anchored = f.anchored /\ t.root = f.root /\ t.degraded /\ t.bitmap = {i}
    BY <1>6, <1>7 DEF Final
  <1>9. ComputeBlockHash(t) = ComputeBlockHash(f)
    BY <1>8 DEF ComputeBlockHash
  <1> QED
    BY <1>4, <1>8, <1>9 DEF t

-----------------------------------------------------------------------------
\* What circulates: on the bus of some node, or in a frame on its way.
Sent(proto, d) == \E m \in net : m.proto = proto /\ m.data = d

ProposalOut(b) == Sent("proposals", b) \/ \E n \in Node : b \in gossip[n].proposals

SigOut(s) == Sent("sigs", s) \/ \E n \in Node : s \in gossip[n].sigs

ProofOut(q) == Sent("vrfproofs", q) \/ \E n \in Node : q \in gossip[n].vrfProofs

\* A step of the buses that brings nothing new into circulation but the proposals x, the
\* signatures s and the proofs q, takes back no signature and leaves no slot empty.
BusMoves(x, s, q) ==
    /\ BusTypes'
    /\ \A b : ProposalOut(b)' => ProposalOut(b) \/ b \in x
    /\ \A t : SigOut(t)' => SigOut(t) \/ t \in s
    /\ \A r : ProofOut(r)' => ProofOut(r) \/ r \in q
    /\ \A n \in Node : gossip[n].sigs \subseteq gossip'[n].sigs
    /\ \A n \in Node, c \in Nat : GetProposed(n, c) # {} => GetProposed(n, c)' # {}

FinalsKept == \A n \in Node : gossip'[n].finals = gossip[n].finals

\* One node's bus changes to g, and the frames new on the network carry x, s or q.
LEMMA BusPut ==
    ASSUME BusTypes, NEW n \in Node, NEW g \in Bus, NEW x, NEW s, NEW q,
           gossip' = [gossip EXCEPT ![n] = g],
           \A m \in net' : \/ m \in net
                           \/ /\ IsFrame(m)
                              /\ m.proto = "proposals" => m.data \in x
                              /\ m.proto = "sigs" => m.data \in s
                              /\ m.proto = "vrfproofs" => m.data \in q,
           \A b \in g.proposals : ProposalOut(b) \/ b \in x,
           \A t \in g.sigs : SigOut(t) \/ t \in s,
           \A r \in g.vrfProofs : ProofOut(r) \/ r \in q,
           gossip[n].sigs \subseteq g.sigs,
           \A c \in Nat : GetProposed(n, c) # {} => \E b \in g.proposals : b.index = c
    PROVE  BusMoves(x, s, q)
  <1>1. gossip' \in [Node -> Bus] /\ gossip'[n] = g
        /\ \A m \in Node \ {n} : gossip'[m] = gossip[m]
    BY DEF BusTypes
  <1>2. BusTypes'
    BY <1>1 DEF BusTypes, IsFrame
  <1>3. ASSUME NEW b, ProposalOut(b)' PROVE ProposalOut(b) \/ b \in x
    BY <1>1, <1>3 DEF ProposalOut, Sent
  <1>4. ASSUME NEW t, SigOut(t)' PROVE SigOut(t) \/ t \in s
    BY <1>1, <1>4 DEF SigOut, Sent
  <1>5. ASSUME NEW r, ProofOut(r)' PROVE ProofOut(r) \/ r \in q
    BY <1>1, <1>5 DEF ProofOut, Sent
  <1>6. \A m \in Node : gossip[m].sigs \subseteq gossip'[m].sigs
    BY <1>1
  <1>7. \A m \in Node, c \in Nat : GetProposed(m, c) # {} => GetProposed(m, c)' # {}
    BY <1>1 DEF GetProposed
  <1> QED
    BY <1>2, <1>3, <1>4, <1>5, <1>6, <1>7 DEF BusMoves

\* broadcast puts typed frames of one message on the network, or none.
LEMMA FramesOf ==
    ASSUME P2PAssumption, NEW n \in Node, NEW proto \in Protocols, NEW data \in Payload(proto),
           broadcast(n, proto, data)
    PROVE  \A m \in net' : m \in net \/ (IsFrame(m) /\ m.proto = proto /\ m.data = data)
  <1> SUFFICES ASSUME NEW m \in net', m \notin net
               PROVE  IsFrame(m) /\ m.proto = proto /\ m.data = data
    OBVIOUS
  <1>1. m \in Frames(n, proto, data)
    BY DEF broadcast
  <1>2. PICK p \in Node \ {n} : m = [from |-> n, to |-> p, proto |-> proto, data |-> data]
    BY <1>1 DEF Frames, P2PAssumption
  <1> QED
    BY <1>2 DEF IsFrame

\* A bus that does not move.
LEMMA BusStill ==
    ASSUME BusTypes, UNCHANGED p2pVars
    PROVE  BusMoves({}, {}, {}) /\ FinalsKept
  <1>1. UNCHANGED gossip /\ UNCHANGED net
    BY DEF p2pVars
  <1>2. BusTypes'
    BY <1>1 DEF BusTypes, IsFrame
  <1> QED
    BY <1>1, <1>2 DEF BusMoves, FinalsKept, GetProposed, ProposalOut, SigOut, ProofOut, Sent

\* Publish: an entry is on the node's own bus and on its way to the peers.
LEMMA PublishMoves ==
    ASSUME P2PAssumption, BusTypes, NEW n \in Node, NEW e \in Entry, GossipPublish(n, e)
    PROVE  BusMoves({}, {}, {}) /\ FinalsKept
  <1> DEFINE g == [gossip[n] EXCEPT !.pending = @ \cup {e}]
  <1>1. gossip[n] \in Bus
    BY DEF BusTypes
  <1>2. /\ g \in Bus /\ g.proposals = gossip[n].proposals /\ g.finals = gossip[n].finals
        /\ g.sigs = gossip[n].sigs /\ g.vrfProofs = gossip[n].vrfProofs
    BY <1>1 DEF Bus
  <1>3. gossip' = [gossip EXCEPT ![n] = g] /\ broadcast(n, "entries", e)
    BY DEF GossipPublish
  <1>p. "entries" \in Protocols /\ e \in Payload("entries")
    BY DEF Protocols, Payload
  <1>4. \A m \in net' : m \in net \/ (IsFrame(m) /\ m.proto = "entries")
    BY <1>p, <1>3, FramesOf
  <1> HIDE DEF g
  <1>5. FinalsKept
    BY <1>2, <1>3 DEF FinalsKept, BusTypes
  <1>6. /\ \A b \in g.proposals : ProposalOut(b)
        /\ \A t \in g.sigs : SigOut(t)
        /\ \A r \in g.vrfProofs : ProofOut(r)
        /\ gossip[n].sigs \subseteq g.sigs
    BY <1>2 DEF ProposalOut, SigOut, ProofOut
  <1>7. \A c \in Nat : GetProposed(n, c) # {} => \E b \in g.proposals : b.index = c
    BY <1>2 DEF GetProposed
  <1> QED
    BY <1>2, <1>3, <1>4, <1>5, <1>6, <1>7, BusPut

\* RemoveEntries: the pool of one bus shrinks.
LEMMA RemoveMoves ==
    ASSUME BusTypes, NEW n \in Node, NEW gone, GossipRemoveEntries(n, gone)
    PROVE  BusMoves({}, {}, {}) /\ FinalsKept
  <1> DEFINE g == [gossip[n] EXCEPT !.pending = @ \ gone]
  <1>1. gossip[n] \in Bus
    BY DEF BusTypes
  <1>2. /\ g \in Bus /\ g.proposals = gossip[n].proposals /\ g.finals = gossip[n].finals
        /\ g.sigs = gossip[n].sigs /\ g.vrfProofs = gossip[n].vrfProofs
    BY <1>1 DEF Bus
  <1>3. gossip' = [gossip EXCEPT ![n] = g] /\ UNCHANGED net
    BY DEF GossipRemoveEntries
  <1> HIDE DEF g
  <1>5. FinalsKept
    BY <1>2, <1>3 DEF FinalsKept, BusTypes
  <1>6. /\ \A b \in g.proposals : ProposalOut(b)
        /\ \A t \in g.sigs : SigOut(t)
        /\ \A r \in g.vrfProofs : ProofOut(r)
        /\ gossip[n].sigs \subseteq g.sigs
    BY <1>2 DEF ProposalOut, SigOut, ProofOut
  <1>7. \A c \in Nat : GetProposed(n, c) # {} => \E b \in g.proposals : b.index = c
    BY <1>2 DEF GetProposed
  <1> QED
    BY <1>2, <1>3, <1>5, <1>6, <1>7, BusPut

\* Propose: the candidate fills an empty slot and is sent, or nothing happens.
LEMMA ProposeMoves ==
    ASSUME P2PAssumption, BusTypes, NEW n \in Node, NEW p \in Proposal, GossipPropose(n, p)
    PROVE  /\ BusMoves(IF GetProposed(n, p.index) = {} THEN {p} ELSE {}, {}, {})
           /\ FinalsKept
           /\ \E b \in gossip'[n].proposals : b.index = p.index
  <1>1. CASE GetProposed(n, p.index) # {}
    <2>1. UNCHANGED p2pVars
      BY <1>1 DEF GossipPropose
    <2> QED
      BY <1>1, <2>1, BusStill DEF GetProposed, p2pVars
  <1>2. CASE GetProposed(n, p.index) = {}
    <2> DEFINE g == [gossip[n] EXCEPT !.proposals = @ \cup {p}]
    <2>1. gossip[n] \in Bus
      BY DEF BusTypes
    <2>2. /\ g \in Bus /\ g.proposals = gossip[n].proposals \cup {p}
          /\ g.finals = gossip[n].finals
          /\ g.sigs = gossip[n].sigs /\ g.vrfProofs = gossip[n].vrfProofs
      BY <2>1 DEF Bus
    <2>3. gossip' = [gossip EXCEPT ![n] = g] /\ broadcast(n, "proposals", p)
      BY <1>2 DEF GossipPropose
    <2>p. "proposals" \in Protocols /\ p \in Payload("proposals")
      BY DEF Protocols, Payload
    <2>4. \A m \in net' : m \in net \/ (IsFrame(m) /\ m.proto = "proposals" /\ m.data = p)
      BY <2>p, <2>3, FramesOf
    <2> HIDE DEF g
    <2>5. FinalsKept /\ gossip'[n] = g
      BY <2>2, <2>3 DEF FinalsKept, BusTypes
    <2>6. /\ \A b \in g.proposals : ProposalOut(b) \/ b \in {p}
          /\ \A t \in g.sigs : SigOut(t)
          /\ \A r \in g.vrfProofs : ProofOut(r)
          /\ gossip[n].sigs \subseteq g.sigs
      BY <2>2 DEF ProposalOut, SigOut, ProofOut
    <2>7. \A c \in Nat : GetProposed(n, c) # {} => \E b \in g.proposals : b.index = c
      BY <2>2 DEF GetProposed
    <2>8. BusMoves({p}, {}, {})
      BY <2>2, <2>3, <2>4, <2>6, <2>7, BusPut
    <2>9. \E b \in gossip'[n].proposals : b.index = p.index
      BY <2>2, <2>5
    <2> QED
      BY <1>2, <2>5, <2>8, <2>9
  <1> QED
    BY <1>1, <1>2

\* PublishFinal: the leader's bus keeps B_final, and a block with its hash is sent.
LEMMA FinalMoves ==
    ASSUME P2PAssumption, BusTypes, NEW n \in Node, NEW f \in Final, AsProposal(f) \in Proposal,
           GossipPublishFinal(n, f)
    PROVE  /\ BusMoves({AsProposal(f)}, {}, {})
           /\ \A m \in Node \ {n} : gossip'[m].finals = gossip[m].finals
           /\ gossip'[n].finals = {h \in gossip[n].finals : h.index # f.index} \cup {f}
  <1> DEFINE F == {h \in gossip[n].finals : h.index # f.index} \cup {f}
             g == [gossip[n] EXCEPT !.finals = F]
             p == AsProposal(f)
  <1>1. gossip[n] \in Bus
    BY DEF BusTypes
  <1>2. F \in SUBSET Final
    BY <1>1 DEF Bus
  <1>3. gossip' = [gossip EXCEPT ![n] = g] /\ broadcast(n, "proposals", p)
    BY DEF GossipPublishFinal
  <1> HIDE DEF F
  <1>4. /\ g \in Bus /\ g.proposals = gossip[n].proposals /\ g.finals = F
        /\ g.sigs = gossip[n].sigs /\ g.vrfProofs = gossip[n].vrfProofs
    BY <1>1, <1>2 DEF Bus
  <1> HIDE DEF g, p
  <1>p. "proposals" \in Protocols /\ p \in Payload("proposals")
    BY DEF Protocols, Payload, p
  <1>5. \A m \in net' : m \in net \/ (IsFrame(m) /\ m.proto = "proposals" /\ m.data = p)
    BY <1>p, <1>3, FramesOf
  <1>6. gossip'[n] = g /\ \A m \in Node \ {n} : gossip'[m] = gossip[m]
    BY <1>3 DEF BusTypes
  <1>7. /\ \A b \in g.proposals : ProposalOut(b)
        /\ \A t \in g.sigs : SigOut(t)
        /\ \A r \in g.vrfProofs : ProofOut(r)
        /\ gossip[n].sigs \subseteq g.sigs
    BY <1>4 DEF ProposalOut, SigOut, ProofOut
  <1>8. \A c \in Nat : GetProposed(n, c) # {} => \E b \in g.proposals : b.index = c
    BY <1>4 DEF GetProposed
  <1>9. BusMoves({p}, {}, {})
    BY <1>3, <1>4, <1>5, <1>7, <1>8, BusPut
  <1> QED
    BY <1>4, <1>6, <1>9 DEF F, p

\* PublishPrepareSig: a node's signature is on its own bus and on its way.
LEMMA SigMoves ==
    ASSUME P2PAssumption, BusTypes, NEW n \in Node, NEW s \in SigMessage, GossipPublishSig(n, s)
    PROVE  BusMoves({}, {s}, {}) /\ FinalsKept /\ s \in gossip'[n].sigs
  <1> DEFINE g == [gossip[n] EXCEPT !.sigs = @ \cup {s}]
  <1>1. gossip[n] \in Bus
    BY DEF BusTypes
  <1>2. /\ g \in Bus /\ g.proposals = gossip[n].proposals /\ g.finals = gossip[n].finals
        /\ g.sigs = gossip[n].sigs \cup {s} /\ g.vrfProofs = gossip[n].vrfProofs
    BY <1>1 DEF Bus
  <1>3. gossip' = [gossip EXCEPT ![n] = g] /\ broadcast(n, "sigs", s)
    BY DEF GossipPublishSig
  <1>p. "sigs" \in Protocols /\ s \in Payload("sigs")
    BY DEF Protocols, Payload
  <1>4. \A m \in net' : m \in net \/ (IsFrame(m) /\ m.proto = "sigs" /\ m.data = s)
    BY <1>p, <1>3, FramesOf
  <1> HIDE DEF g
  <1>5. FinalsKept /\ gossip'[n] = g
    BY <1>2, <1>3 DEF FinalsKept, BusTypes
  <1>6. /\ \A b \in g.proposals : ProposalOut(b)
        /\ \A t \in g.sigs : SigOut(t) \/ t \in {s}
        /\ \A r \in g.vrfProofs : ProofOut(r)
        /\ gossip[n].sigs \subseteq g.sigs
    BY <1>2 DEF ProposalOut, SigOut, ProofOut
  <1>7. \A c \in Nat : GetProposed(n, c) # {} => \E b \in g.proposals : b.index = c
    BY <1>2 DEF GetProposed
  <1>8. BusMoves({}, {s}, {})
    BY <1>2, <1>3, <1>4, <1>6, <1>7, BusPut
  <1> QED
    BY <1>2, <1>5, <1>8

\* PublishVRFProof: the first proof of a cycle is kept and sent, later ones are not.
LEMMA ProofMoves ==
    ASSUME P2PAssumption, BusTypes, NEW n \in Node, NEW q \in ProofMessage,
           GossipPublishVRFProof(n, q)
    PROVE  BusMoves({}, {}, {q}) /\ FinalsKept
  <1>1. CASE HeldProof(n, q)
    <2>1. UNCHANGED p2pVars
      BY <1>1 DEF GossipPublishVRFProof
    <2> QED
      BY <2>1, BusStill DEF BusMoves
  <1>2. CASE ~HeldProof(n, q)
    <2> DEFINE g == [gossip[n] EXCEPT !.vrfProofs = @ \cup {q}]
    <2>1. gossip[n] \in Bus
      BY DEF BusTypes
    <2>2. /\ g \in Bus /\ g.proposals = gossip[n].proposals /\ g.finals = gossip[n].finals
          /\ g.sigs = gossip[n].sigs /\ g.vrfProofs = gossip[n].vrfProofs \cup {q}
      BY <2>1 DEF Bus
    <2>3. gossip' = [gossip EXCEPT ![n] = g] /\ broadcast(n, "vrfproofs", q)
      BY <1>2 DEF GossipPublishVRFProof
    <2>p. "vrfproofs" \in Protocols /\ q \in Payload("vrfproofs")
      BY DEF Protocols, Payload
    <2>4. \A m \in net' : m \in net \/ (IsFrame(m) /\ m.proto = "vrfproofs" /\ m.data = q)
      BY <2>p, <2>3, FramesOf
    <2> HIDE DEF g
    <2>5. FinalsKept
      BY <2>2, <2>3 DEF FinalsKept, BusTypes
    <2>6. /\ \A b \in g.proposals : ProposalOut(b)
          /\ \A t \in g.sigs : SigOut(t)
          /\ \A r \in g.vrfProofs : ProofOut(r) \/ r \in {q}
          /\ gossip[n].sigs \subseteq g.sigs
      BY <2>2 DEF ProposalOut, SigOut, ProofOut
    <2>7. \A c \in Nat : GetProposed(n, c) # {} => \E b \in g.proposals : b.index = c
      BY <2>2 DEF GetProposed
    <2>8. BusMoves({}, {}, {q})
      BY <2>2, <2>3, <2>4, <2>6, <2>7, BusPut
    <2> QED
      BY <2>5, <2>8
  <1> QED
    BY <1>1, <1>2

\* A stream handler moves what its frame carries; nothing new circulates.
LEMMA DeliverMoves ==
    ASSUME BusTypes, NEW m \in net, Deliver(m)
    PROVE  BusMoves({}, {}, {}) /\ FinalsKept
  <1>1. /\ m.to \in Node /\ m.data \in Payload(m.proto)
        /\ net' = net \ {m} /\ gossip[m.to] \in Bus
    BY DEF BusTypes, IsFrame, Deliver
  <1> DEFINE old == gossip[m.to]
             d == m.data
  <1>2. ASSUME NEW g \in Bus, gossip' = [gossip EXCEPT ![m.to] = g], g.finals = old.finals,
               \A b \in g.proposals : ProposalOut(b),
               \A t \in g.sigs : SigOut(t),
               \A r \in g.vrfProofs : ProofOut(r),
               old.sigs \subseteq g.sigs,
               \A c \in Nat : GetProposed(m.to, c) # {} => \E b \in g.proposals : b.index = c
        PROVE  BusMoves({}, {}, {}) /\ FinalsKept
    <2>1. FinalsKept
      BY <1>1, <1>2 DEF FinalsKept, BusTypes
    <2>2. BusMoves({}, {}, {})
      BY <1>1, <1>2, BusPut
    <2> QED
      BY <2>1, <2>2
  <1>3. /\ \A b \in old.proposals : ProposalOut(b)
        /\ \A t \in old.sigs : SigOut(t)
        /\ \A r \in old.vrfProofs : ProofOut(r)
    BY <1>1 DEF ProposalOut, SigOut, ProofOut
  <1>4. \A c \in Nat : GetProposed(m.to, c) # {} => \E b \in old.proposals : b.index = c
    BY DEF GetProposed
  <1>5. CASE m.proto = "entries" /\ handleEntriesStream(m.to, d)
    <2> DEFINE g == [old EXCEPT !.pending = @ \cup {d}]
    <2>1. d \in Entry
      BY <1>1, <1>5 DEF Payload
    <2>2. /\ g \in Bus /\ g.proposals = old.proposals /\ g.finals = old.finals
          /\ g.sigs = old.sigs /\ g.vrfProofs = old.vrfProofs
      BY <1>1, <2>1 DEF Bus
    <2>3. gossip' = [gossip EXCEPT ![m.to] = g]
      BY <1>5 DEF handleEntriesStream
    <2> HIDE DEF g, old, d
    <2> QED
      BY <1>2, <1>3, <1>4, <2>2, <2>3
  <1>6. CASE m.proto = "proposals" /\ handleProposalsStream(m.to, d)
    <2> DEFINE P == {b \in old.proposals : b.index # d.index} \cup {d}
               g == [old EXCEPT !.proposals = P]
    <2>1. d \in Proposal /\ ProposalOut(d)
      BY <1>1, <1>6 DEF Payload, ProposalOut, Sent
    <2>2. P \in SUBSET Proposal
      BY <1>1, <2>1 DEF Bus
    <2>3. gossip' = [gossip EXCEPT ![m.to] = g]
      BY <1>6 DEF handleProposalsStream
    <2>4. /\ \A b \in P : ProposalOut(b)
          /\ \A c \in Nat : GetProposed(m.to, c) # {} => \E b \in P : b.index = c
      BY <1>3, <1>4, <2>1
    <2> HIDE DEF P
    <2>5. /\ g \in Bus /\ g.proposals = P /\ g.finals = old.finals
          /\ g.sigs = old.sigs /\ g.vrfProofs = old.vrfProofs
      BY <1>1, <2>2 DEF Bus
    <2> HIDE DEF g, old, d
    <2> QED
      BY <1>2, <1>3, <2>3, <2>4, <2>5
  <1>7. CASE m.proto = "sigs" /\ handleSigsStream(m.to, d)
    <2> DEFINE g == [old EXCEPT !.sigs = @ \cup {d}]
    <2>1. d \in SigMessage /\ SigOut(d)
      BY <1>1, <1>7 DEF Payload, SigOut, Sent
    <2>2. /\ g \in Bus /\ g.proposals = old.proposals /\ g.finals = old.finals
          /\ g.sigs = old.sigs \cup {d} /\ g.vrfProofs = old.vrfProofs
      BY <1>1, <2>1 DEF Bus
    <2>3. gossip' = [gossip EXCEPT ![m.to] = g]
      BY <1>7 DEF handleSigsStream
    <2> HIDE DEF g, old, d
    <2> QED
      BY <1>2, <1>3, <1>4, <2>1, <2>2, <2>3
  <1>8. CASE m.proto = "vrfproofs" /\ handleVRFProofsStream(m.to, d)
    <2> DEFINE g == IF HeldProof(m.to, d) THEN old ELSE [old EXCEPT !.vrfProofs = @ \cup {d}]
    <2>1. d \in ProofMessage /\ ProofOut(d)
      BY <1>1, <1>8 DEF Payload, ProofOut, Sent
    <2>2. /\ g \in Bus /\ g.proposals = old.proposals /\ g.finals = old.finals
          /\ g.sigs = old.sigs /\ g.vrfProofs \subseteq old.vrfProofs \cup {d}
      BY <1>1, <2>1 DEF Bus
    <2>3. gossip' = [gossip EXCEPT ![m.to] = g]
      BY <1>8 DEF handleVRFProofsStream, BusTypes
    <2> HIDE DEF g, old, d
    <2> QED
      BY <1>2, <1>3, <1>4, <2>1, <2>2, <2>3
  <1> QED
    BY <1>5, <1>6, <1>7, <1>8 DEF Deliver

\* A lost frame is out of circulation.
LEMMA LoseMoves ==
    ASSUME BusTypes, NEW m \in net, Lose(m)
    PROVE  BusMoves({}, {}, {}) /\ FinalsKept
  <1>1. net' \subseteq net /\ UNCHANGED gossip
    BY DEF Lose
  <1>2. BusTypes'
    BY <1>1 DEF BusTypes, IsFrame
  <1> QED
    BY <1>1, <1>2 DEF BusMoves, FinalsKept, GetProposed, ProposalOut, SigOut, ProofOut, Sent

-----------------------------------------------------------------------------
\* The root a node uses for its cycle: that of the tree it starts from.
Root(n) == IF pc[n] = "idle" THEN st[n] ELSE snap[n]

Same(m) ==
    /\ pc'[m] = pc[m] /\ blocks'[m] = blocks[m] /\ st'[m] = st[m] /\ snap'[m] = snap[m]
    /\ prepareSigs'[m] = prepareSigs[m] /\ inDegraded'[m] = inDegraded[m]

OneMoves(n) == UNCHANGED leader /\ \A m \in Node \ {n} : Same(m)

\* A step of n that neither counts a quorum nor publishes or commits a final block.
Plain(n) ==
    /\ OneMoves(n)
    /\ blocks'[n] = blocks[n]
    /\ Root(n)' = Root(n)
    /\ pc'[n] # "idle" => pc[n] # "idle" \/ cycle(n) < MaxBlocks
    /\ pc'[n] \in {"build", "propose"} => pc[n] = "build" \/ leader[cycle(n)] = n
    /\ pc'[n] \notin {"commit", "append"}

\* The error returns of RunCycle.
LEMMA AbortPlain ==
    ASSUME EngineTypes, Signed, NEW n \in Node, pc[n] # "idle", Rollback(n),
           inDegraded' \in [Node -> BOOLEAN], \A m \in Node \ {n} : inDegraded'[m] = inDegraded[m]
    PROVE  EngineTypes' /\ Signed' /\ Plain(n)
  <1>a. snap[n] \in SUBSET Entry /\ {} \in SUBSET Entry /\ {} \in SUBSET Node /\ "idle" \in Places
    BY DEF EngineTypes, Places
  <1>1. EngineTypes'
    BY <1>a DEF Rollback, EngineTypes
  <1>2. /\ pc'[n] = "idle" /\ st'[n] = snap[n] /\ UNCHANGED <<blocks, leader>>
        /\ \A m \in Node \ {n} : Same(m)
    BY DEF Rollback, EngineTypes, Same
  <1>3. Signed'
    BY <1>2 DEF Signed, Same
  <1> QED
    BY <1>1, <1>2, <1>3 DEF Plain, OneMoves, Root

\* ... that leave the degraded flag alone.
LEMMA AbortCyclePlain ==
    ASSUME EngineTypes, Signed, NEW n \in Node, pc[n] # "idle", AbortCycle(n)
    PROVE  EngineTypes' /\ Signed' /\ Plain(n)
  <1>1. Rollback(n) /\ inDegraded' = inDegraded
    BY DEF AbortCycle
  <1>2. inDegraded' \in [Node -> BOOLEAN] /\ \A m \in Node \ {n} : inDegraded'[m] = inDegraded[m]
    BY <1>1 DEF EngineTypes
  <1> QED
    BY <1>1, <1>2, AbortPlain

\* A client's entry is accepted between two cycles.
LEMMA AcceptPlain ==
    ASSUME EngineTypes, Signed, NEW n \in Node, NEW e, AcceptEntry(n, e)
    PROVE  EngineTypes' /\ Signed' /\ Plain(n)
  <1>1. UNCHANGED <<pc, blocks, st, snap, batch, prepareSigs, inDegraded, leader>> /\ pc[n] = "idle"
    BY DEF AcceptEntry
  <1>2. EngineTypes' /\ Signed'
    BY <1>1 DEF EngineTypes, Signed
  <1> QED
    BY <1>1, <1>2 DEF Plain, OneMoves, Same, Root

\* A cycle starts from the tree as it is.
LEMMA StartPlain ==
    ASSUME EngineTypes, Signed, NEW n \in Node, NEW pool, StartCycle(n, pool)
    PROVE  EngineTypes' /\ Signed' /\ Plain(n)
  <1>1. /\ pc[n] = "idle" /\ cycle(n) < MaxBlocks
        /\ pc' = [pc EXCEPT ![n] = "vrf"] /\ snap' = [snap EXCEPT ![n] = st[n]]
        /\ UNCHANGED <<blocks, st, batch, prepareSigs, inDegraded, leader>>
    BY DEF StartCycle
  <1>a. st[n] \in SUBSET Entry /\ "vrf" \in Places
    BY DEF EngineTypes, Places
  <1>2. EngineTypes'
    BY <1>a, <1>1 DEF EngineTypes
  <1>3. pc'[n] = "vrf" /\ snap'[n] = st[n] /\ \A m \in Node \ {n} : Same(m)
    BY <1>1 DEF EngineTypes, Same
  <1>4. Signed'
    BY <1>3 DEF Signed, Same
  <1> QED
    BY <1>1, <1>2, <1>3, <1>4 DEF Plain, OneMoves, Root

\* A step along RunCycle that may insert entries into the tree and take a batch.
LEMMA AlongPlain ==
    ASSUME EngineTypes, Signed, NEW n \in Node, NEW to \in Places,
           to \notin {"idle", "commit", "append"}, pc[n] # "idle",
           to \in {"build", "propose"} => pc[n] = "build" \/ leader[cycle(n)] = n,
           pc' = [pc EXCEPT ![n] = to],
           st' \in [Node -> SUBSET Entry], \A m \in Node \ {n} : st'[m] = st[m],
           batch' \in [Node -> SUBSET Entry],
           UNCHANGED <<blocks, snap, prepareSigs, inDegraded, leader>>
    PROVE  EngineTypes' /\ Signed' /\ Plain(n)
  <1>1. EngineTypes'
    BY DEF EngineTypes
  <1>2. pc'[n] = to /\ \A m \in Node \ {n} : Same(m)
    BY DEF EngineTypes, Same
  <1>3. Signed'
    BY <1>2 DEF Signed, Same
  <1> QED
    BY <1>1, <1>2, <1>3 DEF Plain, OneMoves, Root

-----------------------------------------------------------------------------
\* The kinds of steps.  A plain one publishes at most a signature of the node's own.
QuietBus(n) ==
    /\ FinalsKept
    /\ \/ BusMoves({}, {}, {})
       \/ \E s \in SigMessage : s.signer = n /\ s \in gossip'[n].sigs /\ BusMoves({}, {s}, {})

ProvesAlpha(n) ==
    Plain(n) /\ FinalsKept /\ pc[n] = "vrf" /\ BusMoves({}, {}, {VRFProof(n)})

Proposes(n) ==
    /\ Plain(n) /\ FinalsKept /\ pc[n] = "propose"
    /\ BusMoves(IF GetProposed(n, cycle(n)) = {} THEN {Candidate(n)} ELSE {}, {}, {})
    /\ \E b \in gossip'[n].proposals : b.index = cycle(n)

\* The variables of n that a step between the quorum and the commit leaves alone.
Holds(n) ==
    /\ OneMoves(n)
    /\ blocks'[n] = blocks[n] /\ st'[n] = st[n] /\ snap'[n] = snap[n]
    /\ inDegraded'[n] = inDegraded[n]

CountsQuorum(n, b) ==
    /\ Holds(n) /\ BusMoves({}, {}, {}) /\ FinalsKept
    /\ pc[n] = "quorum" /\ pc'[n] = "commit"
    /\ b \in GetProposed(n, cycle(n))
    /\ prepareSigs'[n] = validPrepareSigs(b, gossip[n].sigs)
    /\ Cardinality(prepareSigs'[n]) >= requiredQuorum(n)

PublishesFinal(n, b) ==
    /\ Holds(n) /\ BusMoves({AsProposal(FinalBlock(n, b))}, {}, {})
    /\ pc[n] = "commit" /\ pc'[n] = "append" /\ leader[cycle(n)] = n
    /\ b \in GetProposed(n, cycle(n))
    /\ prepareSigs'[n] = prepareSigs[n]
    /\ \A m \in Node \ {n} : gossip'[m].finals = gossip[m].finals
    /\ gossip'[n].finals = {h \in gossip[n].finals : h.index # FinalBlock(n, b).index}
                              \cup {FinalBlock(n, b)}

\* leader[cycle(n)] = n: the block n published itself.  Otherwise it verified a copy.
SealsBlock(n, f) ==
    /\ OneMoves(n) /\ BusMoves({}, {}, {}) /\ FinalsKept
    /\ f \in GetFinal(n, cycle(n))
    /\ leader[cycle(n)] = n => pc[n] = "append"
    /\ pc'[n] = "idle"
    /\ ~CommitFails(n, f)
    /\ blocks'[n] = Append(blocks[n], IF DegradedAfter(n) THEN TrimToOne(f, Peers[n]) ELSE f)

NetworkOnly ==
    UNCHANGED leader /\ BusMoves({}, {}, {}) /\ FinalsKept /\ \A m \in Node : Same(m)

KnownStep ==
    \/ \E n \in Node : Plain(n) /\ QuietBus(n)
    \/ \E n \in Node : ProvesAlpha(n)
    \/ \E n \in Node : Proposes(n)
    \/ \E n \in Node : \E b \in GetProposed(n, cycle(n)) : CountsQuorum(n, b)
    \/ \E n \in Node : \E b \in GetProposed(n, cycle(n)) : PublishesFinal(n, b)
    \/ \E n \in Node : \E f \in Final : SealsBlock(n, f)
    \/ NetworkOnly
    \/ \E n \in Node : Restart(n)

RestTypes == rechecked \in [Node -> BOOLEAN] /\ accepted \in SUBSET Entry /\ restarts \in Nat

\* Enqueue.
LEMMA EnqueueDoes ==
    ASSUME P2PAssumption, P2PTypes, NEW n \in Node, NEW e \in Entry, Enqueue(n, e)
    PROVE  P2PTypes' /\ Plain(n) /\ QuietBus(n)
  <1>1. AcceptEntry(n, e) /\ GossipPublish(n, e) /\ RestTypes'
    BY DEF Enqueue, P2PTypes, RestTypes
  <1>2. EngineTypes' /\ Signed' /\ Plain(n)
    BY <1>1, AcceptPlain DEF P2PTypes
  <1>3. BusMoves({}, {}, {}) /\ FinalsKept
    BY <1>1, PublishMoves DEF P2PTypes
  <1> QED
    BY <1>1, <1>2, <1>3 DEF P2PTypes, RestTypes, QuietBus, BusMoves

\* Start.
LEMMA StartDoes ==
    ASSUME P2PTypes, NEW n \in Node, Start(n)
    PROVE  P2PTypes' /\ Plain(n) /\ QuietBus(n)
  <1>1. StartCycle(n, gossip[n].pending) /\ UNCHANGED p2pVars /\ RestTypes'
    BY DEF Start, P2PTypes, RestTypes, rest
  <1>2. EngineTypes' /\ Signed' /\ Plain(n)
    BY <1>1, StartPlain DEF P2PTypes
  <1>3. BusMoves({}, {}, {}) /\ FinalsKept
    BY <1>1, BusStill DEF P2PTypes
  <1> QED
    BY <1>1, <1>2, <1>3 DEF P2PTypes, RestTypes, QuietBus, BusMoves

\* PublishVRFProof.
LEMMA VRFProofDoes ==
    ASSUME P2PAssumption, P2PTypes, NEW n \in Node, PublishVRFProof(n)
    PROVE  P2PTypes' /\ ProvesAlpha(n)
  <1>1. AfterVRFProof(n) /\ GossipPublishVRFProof(n, VRFProof(n)) /\ RestTypes'
    BY DEF PublishVRFProof, P2PTypes, RestTypes, rest
  <1>2. EngineTypes /\ Signed /\ BusTypes /\ "elect" \in Places
    BY DEF P2PTypes, Places
  <1>3. EngineTypes' /\ Signed' /\ Plain(n) /\ pc[n] = "vrf"
    <2>1. /\ pc[n] = "vrf" /\ pc' = [pc EXCEPT ![n] = "elect"]
          /\ UNCHANGED <<blocks, st, snap, batch, prepareSigs, inDegraded, leader>>
      BY <1>1 DEF AfterVRFProof, Goto
    <2>2. /\ st' \in [Node -> SUBSET Entry] /\ \A m \in Node \ {n} : st'[m] = st[m]
          /\ batch' \in [Node -> SUBSET Entry]
      BY <1>2, <2>1 DEF EngineTypes
    <2> QED
      BY <1>2, <2>1, <2>2, AlongPlain
  <1>4. VRFProof(n) \in ProofMessage
    <2>1. cycle(n) \in Nat /\ snap[n] \in SUBSET Entry
      BY <1>2, HeightTyped DEF EngineTypes
    <2> QED
      BY <2>1 DEF VRFProof, ProofMessage
  <1>5. BusMoves({}, {}, {VRFProof(n)}) /\ FinalsKept
    BY <1>1, <1>2, <1>4, ProofMoves
  <1> QED
    BY <1>1, <1>3, <1>5 DEF P2PTypes, RestTypes, ProvesAlpha, BusMoves

\* Elect: a proposer is selected, or the proof set is refused.
LEMMA ElectDoes ==
    ASSUME P2PTypes, NEW n \in Node, Elect(n)
    PROVE  P2PTypes' /\ Plain(n) /\ QuietBus(n)
  <1>1. /\ SelectProposer(n, gossip[n].vrfProofs) \/ RejectElection(n, gossip[n].vrfProofs)
        /\ UNCHANGED p2pVars /\ RestTypes'
    BY DEF Elect, P2PTypes, RestTypes, rest
  <1>2. EngineTypes /\ Signed /\ BusTypes
    BY DEF P2PTypes
  <1>3. BusMoves({}, {}, {}) /\ FinalsKept
    BY <1>1, <1>2, BusStill
  <1>4. EngineTypes' /\ Signed' /\ Plain(n)
    <2>1. CASE SelectProposer(n, gossip[n].vrfProofs)
      <3> DEFINE to == IF leader[cycle(n)] = n THEN "build" ELSE "await"
      <3>1. /\ pc[n] = "elect" /\ pc' = [pc EXCEPT ![n] = to]
            /\ UNCHANGED <<blocks, st, snap, batch, prepareSigs, inDegraded, leader>>
        BY <2>1 DEF SelectProposer, Goto
      <3>2. /\ st' \in [Node -> SUBSET Entry] /\ \A m \in Node \ {n} : st'[m] = st[m]
            /\ batch' \in [Node -> SUBSET Entry]
        BY <1>2, <3>1 DEF EngineTypes
      <3>3. /\ to \in Places /\ to \notin {"idle", "commit", "append"}
            /\ to \in {"build", "propose"} => leader[cycle(n)] = n
        BY DEF Places
      <3> HIDE DEF to
      <3> QED
        BY <1>2, <3>1, <3>2, <3>3, AlongPlain
    <2>2. CASE RejectElection(n, gossip[n].vrfProofs)
      BY <1>2, <2>2, AbortCyclePlain DEF RejectElection
    <2> QED
      BY <1>1, <2>1, <2>2
  <1> QED
    BY <1>1, <1>3, <1>4 DEF P2PTypes, RestTypes, QuietBus, BusMoves

\* Build: the proposer takes the pool, or has nothing to propose.
LEMMA BuildDoes ==
    ASSUME P2PTypes, NEW n \in Node, Build(n)
    PROVE  P2PTypes' /\ Plain(n) /\ QuietBus(n)
  <1> DEFINE pool == gossip[n].pending
  <1>1. /\ BuildCandidate(n, pool) \/ NothingToPropose(n, pool)
        /\ UNCHANGED p2pVars /\ RestTypes'
    BY DEF Build, P2PTypes, RestTypes, rest
  <1>2. EngineTypes /\ Signed /\ BusTypes /\ "propose" \in Places
    BY DEF P2PTypes, Places
  <1>3. BusMoves({}, {}, {}) /\ FinalsKept
    BY <1>1, <1>2, BusStill
  <1>4. EngineTypes' /\ Signed' /\ Plain(n)
    <2>1. CASE BuildCandidate(n, pool)
      <3>1. /\ pc[n] = "build" /\ pc' = [pc EXCEPT ![n] = "propose"]
            /\ batch' = [batch EXCEPT ![n] = pool]
            /\ st' = [st EXCEPT ![n] = @ \cup pool]
            /\ UNCHANGED <<blocks, snap, prepareSigs, inDegraded, leader>>
        BY <2>1 DEF BuildCandidate, Goto
      <3>2. pool \in SUBSET Entry
        BY <1>2 DEF BusTypes, Bus
      <3> HIDE DEF pool
      <3>3. /\ st' \in [Node -> SUBSET Entry] /\ \A m \in Node \ {n} : st'[m] = st[m]
            /\ batch' \in [Node -> SUBSET Entry]
        BY <1>2, <3>1, <3>2 DEF EngineTypes
      <3> QED
        BY <1>2, <3>1, <3>3, AlongPlain
    <2>2. CASE NothingToPropose(n, pool)
      BY <1>2, <2>2, AbortCyclePlain DEF NothingToPropose
    <2> QED
      BY <1>1, <2>1, <2>2
  <1> QED
    BY <1>1, <1>3, <1>4 DEF P2PTypes, RestTypes, QuietBus, BusMoves

\* Propose.
LEMMA ProposeDoes ==
    ASSUME P2PAssumption, P2PTypes, NEW n \in Node, Propose(n)
    PROVE  P2PTypes' /\ Proposes(n)
  <1> DEFINE c == Candidate(n)
  <1>1. AfterPropose(n) /\ GossipPropose(n, c) /\ RestTypes'
    BY DEF Propose, P2PTypes, RestTypes, rest
  <1>2. EngineTypes /\ Signed /\ BusTypes /\ "sign" \in Places
    BY DEF P2PTypes, Places
  <1>3. c \in Proposal /\ c.index = cycle(n)
    BY <1>2, CandidateMade
  <1>4. EngineTypes' /\ Signed' /\ Plain(n) /\ pc[n] = "propose" /\ UNCHANGED blocks
    <2>1. /\ pc[n] = "propose" /\ pc' = [pc EXCEPT ![n] = "sign"]
          /\ UNCHANGED <<blocks, st, snap, batch, prepareSigs, inDegraded, leader>>
      BY <1>1 DEF AfterPropose, Goto
    <2>2. /\ st' \in [Node -> SUBSET Entry] /\ \A m \in Node \ {n} : st'[m] = st[m]
          /\ batch' \in [Node -> SUBSET Entry]
      BY <1>2, <2>1 DEF EngineTypes
    <2>3. EngineTypes' /\ Signed' /\ Plain(n)
      BY <1>2, <2>1, <2>2, AlongPlain
    <2> QED
      BY <2>1, <2>3
  <1> HIDE DEF c
  <1>5. /\ BusMoves(IF GetProposed(n, cycle(n)) = {} THEN {c} ELSE {}, {}, {})
        /\ FinalsKept
        /\ \E b \in gossip'[n].proposals : b.index = cycle(n)
    <2>1. /\ BusMoves(IF GetProposed(n, c.index) = {} THEN {c} ELSE {}, {}, {})
          /\ FinalsKept /\ \E b \in gossip'[n].proposals : b.index = c.index
      BY <1>1, <1>2, <1>3, ProposeMoves
    <2>2. c.index = cycle(n)
      BY <1>3
    <2> QED
      BY <2>1, <2>2
  <1> QED
    BY <1>1, <1>4, <1>5 DEF P2PTypes, RestTypes, Proposes, BusMoves, c

\* SignOwn.
LEMMA SignOwnDoes ==
    ASSUME P2PAssumption, P2PTypes, NEW n \in Node, SignOwn(n)
    PROVE  P2PTypes' /\ Plain(n) /\ QuietBus(n)
  <1> DEFINE s == BlockSig(n, Candidate(n))
  <1>1. AfterSign(n) /\ GossipPublishSig(n, s) /\ RestTypes'
    BY DEF SignOwn, P2PTypes, RestTypes, rest
  <1>2. EngineTypes /\ Signed /\ BusTypes /\ "quorum" \in Places
    BY DEF P2PTypes, Places
  <1>3. s \in SigMessage /\ s.signer = n
    BY <1>2, CandidateMade, SigMade DEF BlockSig
  <1>4. EngineTypes' /\ Signed' /\ Plain(n)
    <2>1. /\ pc[n] = "sign" /\ pc' = [pc EXCEPT ![n] = "quorum"]
          /\ UNCHANGED <<blocks, st, snap, batch, prepareSigs, inDegraded, leader>>
      BY <1>1 DEF AfterSign, Goto
    <2>2. /\ st' \in [Node -> SUBSET Entry] /\ \A m \in Node \ {n} : st'[m] = st[m]
          /\ batch' \in [Node -> SUBSET Entry]
      BY <1>2, <2>1 DEF EngineTypes
    <2> QED
      BY <1>2, <2>1, <2>2, AlongPlain
  <1> HIDE DEF s
  <1>5. BusMoves({}, {s}, {}) /\ FinalsKept /\ s \in gossip'[n].sigs
    BY <1>1, <1>2, <1>3, SigMoves
  <1> QED
    BY <1>1, <1>3, <1>4, <1>5 DEF P2PTypes, RestTypes, QuietBus, BusMoves

\* A validator inserts the entries of a proposal that verifies and signs it, in its
\* first pass or in its second.
LEMMA InsertPlain ==
    ASSUME P2PAssumption, P2PTypes, NEW n \in Node, NEW b \in GetProposed(n, cycle(n)),
           pc[n] \in {"await", "quorum"}, pc' = [pc EXCEPT ![n] = "quorum"],
           st' = [st EXCEPT ![n] = @ \cup b.anchored], GossipPublishSig(n, BlockSig(n, b)),
           UNCHANGED <<blocks, snap, batch, prepareSigs, inDegraded, leader>>
    PROVE  EngineTypes' /\ Signed' /\ Plain(n) /\ BusTypes' /\ QuietBus(n)
  <1> DEFINE s == BlockSig(n, b)
  <1>1. EngineTypes /\ Signed /\ BusTypes /\ "quorum" \in Places
    BY DEF P2PTypes, Places
  <1>2. b \in Proposal /\ b.anchored \in SUBSET Entry
    <2>1. b \in Proposal
      BY <1>1 DEF GetProposed, BusTypes, Bus
    <2> QED
      BY <2>1, ProposalTyped
  <1>3. s \in SigMessage /\ s.signer = n
    BY <1>2, SigMade DEF BlockSig
  <1>4. /\ st' \in [Node -> SUBSET Entry] /\ \A m \in Node \ {n} : st'[m] = st[m]
        /\ batch' \in [Node -> SUBSET Entry]
    BY <1>1, <1>2 DEF EngineTypes
  <1>5. EngineTypes' /\ Signed' /\ Plain(n)
    BY <1>1, <1>4, AlongPlain
  <1> HIDE DEF s
  <1>6. BusMoves({}, {s}, {}) /\ FinalsKept /\ s \in gossip'[n].sigs
    BY <1>1, <1>3, SigMoves DEF s
  <1> QED
    BY <1>3, <1>5, <1>6 DEF QuietBus, BusMoves

\* SignProposal: the first pass.
LEMMA SignProposalDoes ==
    ASSUME P2PAssumption, P2PTypes, NEW n \in Node, SignProposal(n)
    PROVE  P2PTypes' /\ Plain(n) /\ QuietBus(n)
  <1>1. PICK b \in GetProposed(n, cycle(n)) :
            /\ HandleProposal(n, b)
            /\ IF ProposalVerifies(n, b) THEN GossipPublishSig(n, BlockSig(n, b))
               ELSE UNCHANGED p2pVars
            /\ UNCHANGED <<rechecked, rest>>
    BY DEF SignProposal
  <1>2. EngineTypes /\ Signed /\ BusTypes /\ RestTypes'
    BY <1>1 DEF P2PTypes, RestTypes, rest
  <1>3. EngineTypes' /\ Signed' /\ Plain(n) /\ BusTypes' /\ QuietBus(n)
    <2>1. CASE ProposalVerifies(n, b)
      <3>1. /\ pc[n] \in {"await", "quorum"} /\ pc' = [pc EXCEPT ![n] = "quorum"]
            /\ st' = [st EXCEPT ![n] = @ \cup b.anchored] /\ GossipPublishSig(n, BlockSig(n, b))
            /\ UNCHANGED <<blocks, snap, batch, prepareSigs, inDegraded, leader>>
        BY <1>1, <2>1 DEF HandleProposal
      <3> QED
        BY <3>1, InsertPlain
    <2>2. CASE ~ProposalVerifies(n, b)
      <3>1. pc[n] # "idle" /\ AbortCycle(n) /\ UNCHANGED p2pVars
        BY <1>1, <2>2 DEF HandleProposal
      <3>2. EngineTypes' /\ Signed' /\ Plain(n)
        BY <1>2, <3>1, AbortCyclePlain
      <3>3. BusMoves({}, {}, {}) /\ FinalsKept
        BY <1>2, <3>1, BusStill
      <3> QED
        BY <3>2, <3>3 DEF QuietBus, BusMoves
    <2> QED
      BY <2>1, <2>2
  <1> QED
    BY <1>2, <1>3 DEF P2PTypes, RestTypes

\* Recheck: the second pass, on what the slot holds by then.
LEMMA RecheckDoes ==
    ASSUME P2PAssumption, P2PTypes, NEW n \in Node, Recheck(n)
    PROVE  P2PTypes' /\ Plain(n) /\ QuietBus(n)
  <1>1. PICK b \in GetProposed(n, cycle(n)) :
            /\ pc[n] = "quorum"
            /\ IF ProposalVerifies(n, b)
               THEN /\ GossipPublishSig(n, BlockSig(n, b))
                    /\ rechecked' = [rechecked EXCEPT ![n] = TRUE]
                    /\ st' = [st EXCEPT ![n] = @ \cup b.anchored]
                    /\ UNCHANGED <<pc, blocks, snap, batch, prepareSigs, inDegraded, leader>>
               ELSE AbortCycle(n) /\ UNCHANGED <<p2pVars, rechecked>>
            /\ UNCHANGED rest
    BY DEF Recheck
  <1>2. EngineTypes /\ Signed /\ BusTypes /\ RestTypes'
    BY <1>1 DEF P2PTypes, RestTypes, rest
  <1>3. EngineTypes' /\ Signed' /\ Plain(n) /\ BusTypes' /\ QuietBus(n)
    <2>1. CASE ProposalVerifies(n, b)
      <3>1. pc[n] \in {"await", "quorum"} /\ pc' = [pc EXCEPT ![n] = "quorum"]
        BY <1>1, <1>2, <2>1 DEF EngineTypes
      <3> QED
        BY <1>1, <2>1, <3>1, InsertPlain
    <2>2. CASE ~ProposalVerifies(n, b)
      <3>1. pc[n] # "idle" /\ AbortCycle(n) /\ UNCHANGED p2pVars
        BY <1>1, <2>2
      <3>2. EngineTypes' /\ Signed' /\ Plain(n)
        BY <1>2, <3>1, AbortCyclePlain
      <3>3. BusMoves({}, {}, {}) /\ FinalsKept
        BY <1>2, <3>1, BusStill
      <3> QED
        BY <3>2, <3>3 DEF QuietBus, BusMoves
    <2> QED
      BY <2>1, <2>2
  <1> QED
    BY <1>2, <1>3 DEF P2PTypes, RestTypes

\* Timeout.
LEMMA TimeoutDoes ==
    ASSUME P2PTypes, NEW n \in Node, Timeout(n)
    PROVE  P2PTypes' /\ Plain(n) /\ QuietBus(n)
  <1>1. pc[n] # "idle" /\ AbortCycle(n) /\ UNCHANGED p2pVars /\ RestTypes'
    BY DEF Timeout, Waiting, P2PTypes, RestTypes, rest
  <1>2. EngineTypes' /\ Signed' /\ Plain(n)
    BY <1>1, AbortCyclePlain DEF P2PTypes
  <1>3. BusMoves({}, {}, {}) /\ FinalsKept
    BY <1>1, BusStill DEF P2PTypes
  <1> QED
    BY <1>1, <1>2, <1>3 DEF P2PTypes, RestTypes, QuietBus, BusMoves

\* Quorum.
LEMMA QuorumDoes ==
    ASSUME P2PTypes, NEW n \in Node, Quorum(n)
    PROVE  P2PTypes' /\ \E b \in GetProposed(n, cycle(n)) : CountsQuorum(n, b)
  <1>1. PICK b \in GetProposed(n, cycle(n)) :
            /\ CheckQuorum(n, b, gossip[n].sigs)
            /\ UNCHANGED <<p2pVars, rechecked, rest>>
    BY DEF Quorum
  <1>2. EngineTypes /\ Signed /\ BusTypes /\ RestTypes' /\ "commit" \in Places /\ UNCHANGED p2pVars
    BY <1>1 DEF P2PTypes, RestTypes, rest, Places
  <1> DEFINE V == validPrepareSigs(b, gossip[n].sigs)
  <1>3. /\ pc[n] = "quorum" /\ pc' = [pc EXCEPT ![n] = "commit"]
        /\ Cardinality(V) >= requiredQuorum(n)
        /\ prepareSigs' = [prepareSigs EXCEPT ![n] = V]
        /\ UNCHANGED <<blocks, st, snap, batch, inDegraded, leader>>
    BY <1>1 DEF CheckQuorum, Goto
  <1>4. V \in SUBSET Node
    BY DEF validPrepareSigs
  <1> HIDE DEF V
  <1>5. V # {}
    <2>1. requiredQuorum(n) \in Nat /\ requiredQuorum(n) >= 1
      BY <1>2, QuorumAtLeastOne
    <2>2. Cardinality({}) = 0
      BY FS_EmptySet
    <2> QED
      BY <1>3, <2>1, <2>2, SMTT(30)
  <1>6. EngineTypes'
    BY <1>2, <1>3, <1>4 DEF EngineTypes
  <1>7. /\ pc'[n] = "commit" /\ prepareSigs'[n] = V /\ \A m \in Node \ {n} : Same(m)
    BY <1>2, <1>3 DEF EngineTypes, Same
  <1>8. Signed'
    BY <1>2, <1>5, <1>7 DEF Signed, Same
  <1>9. BusMoves({}, {}, {}) /\ FinalsKept
    BY <1>2, BusStill
  <1>10. CountsQuorum(n, b)
    BY <1>3, <1>7, <1>9 DEF CountsQuorum, Holds, OneMoves, V
  <1> QED
    BY <1>2, <1>6, <1>8, <1>9, <1>10 DEF P2PTypes, RestTypes, BusMoves

\* PublishFinal.
LEMMA PublishFinalDoes ==
    ASSUME P2PAssumption, P2PTypes, NEW n \in Node, PublishFinal(n)
    PROVE  P2PTypes' /\ \E b \in GetProposed(n, cycle(n)) : PublishesFinal(n, b)
  <1>1. PICK b \in GetProposed(n, cycle(n)) :
            /\ AfterPublishFinal(n)
            /\ GossipPublishFinal(n, FinalBlock(n, b))
            /\ UNCHANGED <<rechecked, rest>>
    BY DEF PublishFinal
  <1>2. EngineTypes /\ Signed /\ BusTypes /\ RestTypes' /\ "append" \in Places
    BY <1>1 DEF P2PTypes, RestTypes, rest, Places
  <1>3. /\ leader[cycle(n)] = n /\ pc[n] = "commit" /\ pc' = [pc EXCEPT ![n] = "append"]
        /\ UNCHANGED <<blocks, st, snap, batch, prepareSigs, inDegraded, leader>>
    BY <1>1 DEF AfterPublishFinal, Goto
  <1>4. b \in Proposal /\ prepareSigs[n] # {}
    BY <1>2, <1>3 DEF GetProposed, BusTypes, Bus, Signed
  <1> DEFINE f == FinalBlock(n, b)
  <1>5. f \in Final /\ AsProposal(f) \in Proposal
    BY <1>2, <1>4, FinalMade
  <1> HIDE DEF f
  <1>6. /\ BusMoves({AsProposal(f)}, {}, {})
        /\ \A m \in Node \ {n} : gossip'[m].finals = gossip[m].finals
        /\ gossip'[n].finals = {h \in gossip[n].finals : h.index # f.index} \cup {f}
    BY <1>1, <1>2, <1>5, FinalMoves DEF f
  <1>7. EngineTypes'
    BY <1>2, <1>3 DEF EngineTypes
  <1>8. pc'[n] = "append" /\ \A m \in Node \ {n} : Same(m)
    BY <1>2, <1>3 DEF EngineTypes, Same
  <1>9. Signed'
    BY <1>2, <1>8 DEF Signed, Same
  <1>10. PublishesFinal(n, b)
    BY <1>3, <1>6, <1>8 DEF PublishesFinal, Holds, OneMoves, f
  <1> QED
    BY <1>2, <1>6, <1>7, <1>9, <1>10 DEF P2PTypes, RestTypes, BusMoves

\* The end of RunCycle: an error, or the block of the cycle is appended.
LEMMA CommitBlockDoes ==
    ASSUME P2PTypes, NEW n \in Node, NEW f \in Final, pc[n] \in {"commit", "append"},
           CommitBlock(n, f)
    PROVE  /\ EngineTypes' /\ Signed'
           /\ \/ Plain(n)
              \/ /\ OneMoves(n) /\ pc'[n] = "idle" /\ ~CommitFails(n, f)
                 /\ blocks'[n] = Append(blocks[n],
                                        IF DegradedAfter(n) THEN TrimToOne(f, Peers[n]) ELSE f)
  <1> DEFINE sealed == IF DegradedAfter(n) THEN TrimToOne(f, Peers[n]) ELSE f
  <1>1. EngineTypes /\ Signed
    BY DEF P2PTypes
  <1>2. /\ inDegraded' \in [Node -> BOOLEAN] /\ \A m \in Node \ {n} : inDegraded'[m] = inDegraded[m]
    BY <1>1 DEF CommitBlock, DegradedAfter, EngineTypes
  <1>3. CASE CommitFails(n, f)
    <2>1. Rollback(n) /\ pc[n] # "idle"
      BY <1>3 DEF CommitBlock
    <2> QED
      BY <1>1, <1>2, <2>1, AbortPlain
  <1>4. CASE ~CommitFails(n, f)
    <2>1. /\ blocks' = [blocks EXCEPT ![n] = Append(@, sealed)]
          /\ pc' = [pc EXCEPT ![n] = "idle"]
          /\ batch' = [batch EXCEPT ![n] = {}]
          /\ prepareSigs' = [prepareSigs EXCEPT ![n] = {}]
          /\ UNCHANGED <<st, snap, leader>>
      BY <1>4 DEF CommitBlock, AppendBlock
    <2>2. sealed \in Final
      <3>1. CASE DegradedAfter(n)
        BY <1>4, <3>1, TrimMade DEF CommitFails
      <3>2. CASE ~DegradedAfter(n)
        BY <3>2
      <3> QED
        BY <3>1, <3>2
    <2> HIDE DEF sealed
    <2>3. /\ blocks[n] \in Seq(Final) /\ Append(blocks[n], sealed) \in Seq(Final)
          /\ {} \in SUBSET Entry /\ {} \in SUBSET Node /\ "idle" \in Places
      BY <1>1, <2>2, SMTT(30) DEF EngineTypes, Places
    <2>4. EngineTypes'
      BY <1>1, <1>2, <2>1, <2>3 DEF EngineTypes
    <2>5. /\ pc'[n] = "idle" /\ blocks'[n] = Append(blocks[n], sealed)
          /\ \A m \in Node \ {n} : Same(m)
      BY <1>1, <1>2, <2>1 DEF EngineTypes, Same
    <2>6. Signed'
      BY <1>1, <2>5 DEF Signed, Same
    <2> QED
      BY <1>4, <2>1, <2>4, <2>5, <2>6 DEF OneMoves, sealed
  <1> QED
    BY <1>3, <1>4

\* Commit.
LEMMA CommitDoes ==
    ASSUME P2PTypes, NEW n \in Node, Commit(n)
    PROVE  /\ P2PTypes'
           /\ \/ Plain(n) /\ QuietBus(n)
              \/ \E f \in Final : SealsBlock(n, f)
  <1>1. PICK f \in GetFinal(n, cycle(n)) :
            /\ IF leader[cycle(n)] = n THEN CommitAsLeader(n, f) ELSE HandleFinal(n, f)
            /\ IF Len(blocks'[n]) > cycle(n) THEN GossipRemoveEntries(n, f.anchored)
               ELSE UNCHANGED p2pVars
            /\ UNCHANGED <<rechecked, rest>>
    BY DEF Commit
  <1>2. EngineTypes /\ Signed /\ BusTypes /\ RestTypes'
    BY <1>1 DEF P2PTypes, RestTypes, rest
  <1>3. f \in Final
    BY <1>2 DEF GetFinal, BusTypes, Bus
  <1>4. BusMoves({}, {}, {}) /\ FinalsKept
    BY <1>1, <1>2, BusStill, RemoveMoves
  <1>5. CASE CommitBlock(n, f) /\ pc[n] \in {"commit", "append"}
    <2>1. leader[cycle(n)] = n => pc[n] = "append"
      BY <1>1 DEF CommitAsLeader
    <2>2. /\ EngineTypes' /\ Signed'
          /\ \/ Plain(n)
             \/ /\ OneMoves(n) /\ pc'[n] = "idle" /\ ~CommitFails(n, f)
                /\ blocks'[n] = Append(blocks[n],
                                       IF DegradedAfter(n) THEN TrimToOne(f, Peers[n]) ELSE f)
      BY <1>3, <1>5, CommitBlockDoes
    <2> QED
      BY <1>1, <1>2, <1>3, <1>4, <2>1, <2>2
         DEF P2PTypes, RestTypes, QuietBus, BusMoves, SealsBlock
  <1>6. CASE AbortCycle(n) /\ pc[n] = "commit"
    <2>1. EngineTypes' /\ Signed' /\ Plain(n)
      BY <1>2, <1>6, AbortCyclePlain
    <2> QED
      BY <1>2, <1>4, <2>1 DEF P2PTypes, RestTypes, QuietBus, BusMoves
  <1> QED
    BY <1>1, <1>5, <1>6 DEF CommitAsLeader, HandleFinal

\* A frame arrives, or is lost: no engine moves.
LEMMA NetworkDoes ==
    ASSUME P2PTypes, NEW m \in net, Deliver(m) \/ Lose(m), UNCHANGED engineVars, RestTypes'
    PROVE  P2PTypes' /\ NetworkOnly
  <1>1. EngineTypes /\ Signed /\ BusTypes
    BY DEF P2PTypes
  <1>2. BusMoves({}, {}, {}) /\ FinalsKept
    BY <1>1, DeliverMoves, LoseMoves
  <1>3. /\ EngineTypes' /\ Signed' /\ UNCHANGED leader
        /\ \A n \in Node : Same(n)
    BY <1>1 DEF EngineTypes, Signed, Same, engineVars
  <1> QED
    BY <1>2, <1>3 DEF P2PTypes, RestTypes, NetworkOnly, BusMoves

\* A restarted node has an empty engine and an empty bus; no frame is added.
LEMMA RestartDoes ==
    ASSUME P2PTypes, NEW n \in Node, Restart(n)
    PROVE  /\ P2PTypes'
           /\ restarts < MaxRestarts
           /\ OneMoves(n) /\ pc'[n] = "idle" /\ blocks'[n] = <<>> /\ st'[n] = {}
           /\ \A q : ProofOut(q)' => ProofOut(q)
  <1>1. EngineTypes /\ Signed /\ BusTypes /\ RestTypes'
    BY SMTT(30) DEF P2PTypes, RestTypes, Restart
  <1>2. /\ {} \in SUBSET Entry /\ {} \in SUBSET Node /\ "idle" \in Places /\ FALSE \in BOOLEAN
        /\ <<>> \in Seq(Final) /\ EmptyBus \in Bus /\ EmptyBus.vrfProofs = {}
    BY SMTT(30) DEF Places, EmptyBus, Bus
  <1>3. EngineTypes'
    BY <1>1, <1>2 DEF Restart, EngineTypes
  <1>4. gossip' = [gossip EXCEPT ![n] = EmptyBus] /\ net' \subseteq net
    BY DEF Restart
  <1> HIDE DEF EmptyBus
  <1>5. BusTypes'
    BY <1>1, <1>2, <1>4 DEF BusTypes, IsFrame
  <1>6. /\ pc'[n] = "idle" /\ blocks'[n] = <<>> /\ st'[n] = {} /\ UNCHANGED leader
        /\ restarts < MaxRestarts /\ \A m \in Node \ {n} : Same(m)
    BY <1>1 DEF Restart, EngineTypes, Same
  <1>7. Signed'
    BY <1>1, <1>6 DEF Signed, Same
  <1>8. \A q : ProofOut(q)' => ProofOut(q)
    BY <1>1, <1>2, <1>4 DEF ProofOut, Sent, BusTypes
  <1> QED
    BY <1>1, <1>3, <1>5, <1>6, <1>7, <1>8 DEF P2PTypes, RestTypes, OneMoves

\* Every step is of one of the kinds, and keeps the types.
LEMMA StepKinds ==
    ASSUME P2PAssumption, P2PTypes, [P2PNext]_p2pConsensusVars
    PROVE  P2PTypes' /\ KnownStep
  <1>1. ASSUME NEW n \in Node, NEW e \in Entry, Enqueue(n, e) PROVE P2PTypes' /\ KnownStep
    BY <1>1, EnqueueDoes DEF KnownStep
  <1>2. ASSUME NEW n \in Node, Start(n) PROVE P2PTypes' /\ KnownStep
    BY <1>2, StartDoes DEF KnownStep
  <1>3. ASSUME NEW n \in Node, PublishVRFProof(n) PROVE P2PTypes' /\ KnownStep
    BY <1>3, VRFProofDoes DEF KnownStep
  <1>4. ASSUME NEW n \in Node, Elect(n) PROVE P2PTypes' /\ KnownStep
    BY <1>4, ElectDoes DEF KnownStep
  <1>5. ASSUME NEW n \in Node, Build(n) PROVE P2PTypes' /\ KnownStep
    BY <1>5, BuildDoes DEF KnownStep
  <1>6. ASSUME NEW n \in Node, Propose(n) PROVE P2PTypes' /\ KnownStep
    BY <1>6, ProposeDoes DEF KnownStep
  <1>7. ASSUME NEW n \in Node, SignOwn(n) PROVE P2PTypes' /\ KnownStep
    BY <1>7, SignOwnDoes DEF KnownStep
  <1>8. ASSUME NEW n \in Node, SignProposal(n) PROVE P2PTypes' /\ KnownStep
    BY <1>8, SignProposalDoes DEF KnownStep
  <1>9. ASSUME NEW n \in Node, Recheck(n) PROVE P2PTypes' /\ KnownStep
    BY <1>9, RecheckDoes DEF KnownStep
  <1>10. ASSUME NEW n \in Node, Quorum(n) PROVE P2PTypes' /\ KnownStep
    BY <1>10, QuorumDoes DEF KnownStep
  <1>11. ASSUME NEW n \in Node, PublishFinal(n) PROVE P2PTypes' /\ KnownStep
    BY <1>11, PublishFinalDoes DEF KnownStep
  <1>12. ASSUME NEW n \in Node, Commit(n) PROVE P2PTypes' /\ KnownStep
    BY <1>12, CommitDoes DEF KnownStep
  <1>13. ASSUME NEW n \in Node, Timeout(n) PROVE P2PTypes' /\ KnownStep
    BY <1>13, TimeoutDoes DEF KnownStep
  <1>14. ASSUME NEW n \in Node, NEW p \in Node, NEW proto \in Protocols, Receive(n, p, proto)
         PROVE  P2PTypes' /\ KnownStep
    <2>1. PICK m \in net : Deliver(m) /\ UNCHANGED <<engineVars, rechecked, rest>>
      BY <1>14 DEF Receive
    <2>2. RestTypes' /\ UNCHANGED engineVars
      BY <2>1 DEF P2PTypes, RestTypes, rest
    <2> QED
      BY <2>1, <2>2, NetworkDoes DEF KnownStep
  <1>15. ASSUME LoseFrame PROVE P2PTypes' /\ KnownStep
    <2>1. PICK m \in net : Lose(m)
      BY <1>15 DEF LoseFrame
    <2>2. RestTypes' /\ UNCHANGED engineVars
      BY <1>15 DEF LoseFrame, P2PTypes, RestTypes
    <2> QED
      BY <2>1, <2>2, NetworkDoes DEF KnownStep
  <1>16. ASSUME NEW n \in Node, Restart(n) PROVE P2PTypes' /\ KnownStep
    BY <1>16, RestartDoes DEF KnownStep
  <1>17. CASE UNCHANGED p2pConsensusVars
    <2>1. /\ UNCHANGED <<pc, blocks, st, snap, batch, prepareSigs, inDegraded, leader>>
          /\ UNCHANGED p2pVars /\ UNCHANGED <<rechecked, accepted, restarts>>
      BY <1>17 DEF p2pConsensusVars, engineVars, rest
    <2>2. BusMoves({}, {}, {}) /\ FinalsKept
      BY <2>1, BusStill DEF P2PTypes
    <2>3. EngineTypes' /\ Signed' /\ RestTypes' /\ \A m \in Node : Same(m)
      BY <2>1 DEF P2PTypes, EngineTypes, Signed, RestTypes, Same
    <2>4. P2PTypes' /\ NetworkOnly
      BY <2>1, <2>2, <2>3 DEF P2PTypes, RestTypes, BusMoves, NetworkOnly
    <2> QED
      BY <2>4 DEF KnownStep
  <1>18. ASSUME NEW n \in Node, Step(n) PROVE P2PTypes' /\ KnownStep
    BY <1>2, <1>3, <1>4, <1>5, <1>6, <1>7, <1>8, <1>9, <1>10, <1>11, <1>12, <1>13, <1>18
       DEF Step
  <1> QED
    BY <1>1, <1>14, <1>15, <1>16, <1>17, <1>18 DEF P2PNext

\* The initial state is typed.
LEMMA P2PTypesInit == ASSUME P2PAssumption, P2PInit PROVE P2PTypes
  <1>1. EmptyBus \in Bus
    BY DEF EmptyBus, Bus
  <1>2. Host = Node
    BY DEF P2PAssumption
  <1> HIDE DEF EmptyBus
  <1>3. BusTypes
    BY <1>1, <1>2 DEF P2PInit, GossipInit, BusTypes
  <1>4. EngineTypes /\ Signed
    BY SMTT(30) DEF P2PInit, EngineInit, EngineTypes, Signed, Places
  <1> QED
    BY <1>3, <1>4 DEF P2PInit, P2PTypes

\* P2PTypes says more than P2PTypeOK.
LEMMA P2PTypesSuffice == P2PTypes => P2PTypeOK
  <1> SUFFICES ASSUME P2PTypes PROVE P2PTypeOK
    OBVIOUS
  <1>1. ASSUME NEW n \in Node
        PROVE  /\ gossip[n].pending \subseteq Entry
               /\ gossip[n].vrfProofs \subseteq ProofMessage
               /\ gossip[n].sigs \subseteq SigMessage
               /\ gossip[n].proposals \subseteq Proposal
               /\ gossip[n].finals \subseteq Final
    BY DEF P2PTypes, BusTypes, Bus
  <1>2. ASSUME NEW n \in Node, NEW b \in gossip[n].proposals \cup gossip[n].finals
        PROVE  ComputeBlockHash(b) \in Seq(BodyOf)
    BY <1>1, ProposalTyped, FinalTyped
  <1>3. \A m \in net : m.from \in Node /\ m.to \in Node \ {m.from} /\ m.proto \in Protocols
    BY DEF P2PTypes, BusTypes, IsFrame
  <1> QED
    BY <1>1, <1>2, <1>3 DEF P2PTypes, P2PTypeOK, ProofMessage, SigMessage

-----------------------------------------------------------------------------
\* The proofs in circulation for a node's cycle cover the root it uses.  A restart takes
\* a node back to the first cycle, whose root is that of the empty tree.
AlphaInv ==
    /\ \A n \in Node : pc[n] # "idle" => cycle(n) < MaxBlocks
    /\ \A n \in Node : cycle(n) = 0 => Root(n) = {}
    /\ \A q : ProofOut(q) =>
           /\ q.cycle < MaxBlocks
           /\ q.cycle <= cycle(q.signer)
           /\ q.cycle = cycle(q.signer) => q.root = Root(q.signer)
           /\ q.cycle = 0 => q.root = {}

\* What circulates is typed.
LEMMA ProofOutTyped ==
    ASSUME BusTypes, NEW q, ProofOut(q)
    PROVE  q.cycle \in Nat /\ q.signer \in Node
  <1>1. q \in ProofMessage
    BY DEF ProofOut, Sent, BusTypes, Bus, IsFrame, Payload
  <1> QED
    BY <1>1 DEF ProofMessage

\* A node's cycle and root stay, or it goes on to the next cycle.
Rooted(n) ==
    \/ /\ cycle(n)' = cycle(n) /\ Root(n)' = Root(n)
       /\ pc'[n] # "idle" => pc[n] # "idle" \/ cycle(n) < MaxBlocks
    \/ cycle(n)' = cycle(n) + 1 /\ pc'[n] = "idle"

\* Such steps keep the invariant when only the proof of a node's current cycle is new.
LEMMA AlphaStep ==
    ASSUME P2PTypes, AlphaInv, \A n \in Node : Rooted(n),
           \A q : ProofOut(q)' => ProofOut(q) \/ \E n \in Node : q = VRFProof(n) /\ pc[n] = "vrf"
    PROVE  AlphaInv'
  <1>1. \A n \in Node : cycle(n) \in Nat
    BY HeightTyped DEF P2PTypes
  <1>2. ASSUME NEW n \in Node PROVE pc'[n] # "idle" => cycle(n)' < MaxBlocks
    BY <1>1 DEF AlphaInv, Rooted
  <1>3. ASSUME NEW n \in Node PROVE cycle(n)' = 0 => Root(n)' = {}
    BY <1>1, SMTT(30) DEF AlphaInv, Rooted
  <1>4. ASSUME NEW q, ProofOut(q)'
        PROVE  /\ q.cycle < MaxBlocks
               /\ q.cycle <= cycle(q.signer)'
               /\ q.cycle = cycle(q.signer)' => q.root = Root(q.signer)'
               /\ q.cycle = 0 => q.root = {}
    <2>1. /\ q.signer \in Node /\ q.cycle \in Nat
          /\ q.cycle < MaxBlocks
          /\ q.cycle <= cycle(q.signer)
          /\ q.cycle = cycle(q.signer) => q.root = Root(q.signer)
          /\ q.cycle = 0 => q.root = {}
      <3>1. CASE ProofOut(q)
        BY <3>1, ProofOutTyped DEF AlphaInv, P2PTypes
      <3>2. ASSUME NEW n \in Node, q = VRFProof(n), pc[n] = "vrf"
            PROVE  /\ q.signer = n /\ q.cycle = cycle(n) /\ q.root = Root(n)
                   /\ cycle(n) < MaxBlocks
        BY <3>2 DEF VRFProof, Root, AlphaInv
      <3> QED
        BY <1>1, <1>4, <3>1, <3>2, SMTT(30) DEF AlphaInv
    <2> DEFINE n == q.signer
    <2>2. Rooted(n) /\ cycle(n) \in Nat
      BY <1>1, <2>1
    <2>3. CASE cycle(n)' = cycle(n) /\ Root(n)' = Root(n)
      BY <2>1, <2>3
    <2>4. CASE cycle(n)' = cycle(n) + 1
      BY <2>1, <2>2, <2>4, SMTT(30)
    <2> QED
      BY <2>2, <2>3, <2>4 DEF Rooted
  <1> QED
    BY <1>2, <1>3, <1>4 DEF AlphaInv

\* No step but a restart takes a node's cycle back; and a restart is the only step that a
\* single block or none does not survive.
LEMMA AlphaNext ==
    ASSUME P2PAssumption, MaxRestarts = 0 \/ MaxBlocks <= 1, P2PTypes, AlphaInv,
           [P2PNext]_p2pConsensusVars
    PROVE  AlphaInv'
  <1>1. \A n \in Node : cycle(n) \in Nat /\ blocks[n] \in Seq(Final)
    BY HeightTyped DEF P2PTypes, EngineTypes
  <1>2. ASSUME NEW m \in Node, Same(m) PROVE Rooted(m)
    BY <1>2 DEF Same, Rooted, cycle, Root
  <1>3. ASSUME NEW n \in Node, Plain(n) PROVE \A m \in Node : Rooted(m)
    <2>1. Rooted(n)
      BY <1>3 DEF Plain, Rooted, cycle
    <2> QED
      BY <1>2, <1>3, <2>1 DEF Plain, OneMoves
  <1>4. ASSUME NEW x, NEW s, BusMoves(x, s, {}) PROVE \A q : ProofOut(q)' => ProofOut(q)
    BY <1>4 DEF BusMoves
  <1>5. ASSUME NEW n \in Node, Plain(n), QuietBus(n) PROVE AlphaInv'
    <2>1. \A q : ProofOut(q)' => ProofOut(q)
      BY <1>4, <1>5 DEF QuietBus
    <2> QED
      BY <1>3, <1>5, <2>1, AlphaStep
  <1>6. ASSUME NEW n \in Node, ProvesAlpha(n) PROVE AlphaInv'
    <2>1. Plain(n) /\ pc[n] = "vrf" /\ \A q : ProofOut(q)' => ProofOut(q) \/ q = VRFProof(n)
      BY <1>6 DEF ProvesAlpha, BusMoves
    <2> QED
      BY <1>3, <2>1, AlphaStep
  <1>7. ASSUME NEW n \in Node, Proposes(n) PROVE AlphaInv'
    <2>1. Plain(n) /\ \A q : ProofOut(q)' => ProofOut(q)
      BY <1>7 DEF Proposes, BusMoves
    <2> QED
      BY <1>3, <2>1, AlphaStep
  <1>8. ASSUME NEW n \in Node, Holds(n), pc[n] # "idle", pc'[n] # "idle",
               \A q : ProofOut(q)' => ProofOut(q)
        PROVE  AlphaInv'
    <2>1. Rooted(n)
      BY <1>8 DEF Holds, Rooted, cycle, Root
    <2>2. \A m \in Node : Rooted(m)
      BY <1>2, <1>8, <2>1 DEF Holds, OneMoves
    <2> QED
      BY <1>8, <2>2, AlphaStep
  <1>9. ASSUME NEW n \in Node, NEW b, CountsQuorum(n, b) PROVE AlphaInv'
    BY <1>4, <1>8, <1>9 DEF CountsQuorum
  <1>10. ASSUME NEW n \in Node, NEW b, PublishesFinal(n, b) PROVE AlphaInv'
    BY <1>4, <1>8, <1>10 DEF PublishesFinal
  <1>11. ASSUME NEW n \in Node, NEW f, SealsBlock(n, f) PROVE AlphaInv'
    <2> DEFINE t == IF DegradedAfter(n) THEN TrimToOne(f, Peers[n]) ELSE f
    <2>1. OneMoves(n) /\ pc'[n] = "idle" /\ blocks'[n] = Append(blocks[n], t)
      BY <1>11 DEF SealsBlock
    <2> HIDE DEF t
    <2>2. Rooted(n)
      BY <1>1, <2>1, SMTT(30) DEF Rooted, cycle
    <2>3. \A m \in Node : Rooted(m)
      BY <1>2, <2>1, <2>2 DEF OneMoves
    <2>4. \A q : ProofOut(q)' => ProofOut(q)
      BY <1>4, <1>11 DEF SealsBlock
    <2> QED
      BY <2>3, <2>4, AlphaStep
  <1>12. CASE NetworkOnly
    BY <1>2, <1>4, <1>12, AlphaStep DEF NetworkOnly
  <1>13. ASSUME NEW n \in Node, Restart(n) PROVE AlphaInv'
    <2>1. /\ restarts < MaxRestarts /\ OneMoves(n) /\ pc'[n] = "idle" /\ blocks'[n] = <<>>
          /\ st'[n] = {} /\ \A q : ProofOut(q)' => ProofOut(q)
      BY <1>13, RestartDoes
    <2>2. MaxBlocks <= 1
      BY <2>1, SMTT(30) DEF P2PTypes
    <2>3. cycle(n)' = 0 /\ Root(n)' = {}
      BY <2>1 DEF cycle, Root
    <2>4. \A m \in Node \ {n} : cycle(m)' = cycle(m) /\ Root(m)' = Root(m) /\ pc'[m] = pc[m]
      BY <2>1 DEF OneMoves, Same, cycle, Root
    <2>5. ASSUME NEW q, ProofOut(q)'
          PROVE  /\ q.signer \in Node /\ q.cycle = 0 /\ q.root = {}
                 /\ q.cycle < MaxBlocks /\ q.cycle <= cycle(q.signer)
                 /\ q.cycle = cycle(q.signer) => q.root = Root(q.signer)
      <3>1. ProofOut(q) /\ q.cycle \in Nat /\ q.signer \in Node
        BY <2>1, <2>5, ProofOutTyped DEF P2PTypes
      <3> QED
        BY <2>2, <3>1, BoundAssumption, SMTT(30) DEF AlphaInv
    <2>6. ASSUME NEW q, ProofOut(q)'
          PROVE  /\ q.cycle < MaxBlocks
                 /\ q.cycle <= cycle(q.signer)'
                 /\ q.cycle = cycle(q.signer)' => q.root = Root(q.signer)'
                 /\ q.cycle = 0 => q.root = {}
      <3>1. CASE q.signer = n
        BY <2>3, <2>5, <2>6, <3>1, SMTT(30)
      <3>2. CASE q.signer # n
        BY <2>4, <2>5, <2>6, <3>2
      <3> QED
        BY <3>1, <3>2
    <2>7. \A m \in Node : /\ pc'[m] # "idle" => cycle(m)' < MaxBlocks
                          /\ cycle(m)' = 0 => Root(m)' = {}
      BY <2>1, <2>3, <2>4 DEF AlphaInv
    <2> QED
      BY <2>6, <2>7 DEF AlphaInv
  <1> QED
    BY <1>5, <1>6, <1>7, <1>9, <1>10, <1>11, <1>12, <1>13, StepKinds DEF KnownStep

-----------------------------------------------------------------------------
\* One block circulates per cycle: its leader proposes it, and only into an empty slot.
\* A signature is on its signer's own bus wherever else it is.
SlotInv ==
    /\ \A n \in Node : pc[n] \in {"build", "propose"} => leader[cycle(n)] = n
    /\ \A b, p : ProposalOut(b) /\ ProposalOut(p) /\ b.index = p.index
                     => ComputeBlockHash(b) = ComputeBlockHash(p)
    /\ \A b : ProposalOut(b) =>
           \E n \in Node : leader[b.index] = n /\ GetProposed(n, b.index) # {}
    /\ \A t : SigOut(t) => t \in gossip[t.signer].sigs

\* What circulates next for a cycle has the hash of what circulates now.
Settles ==
    \A b, p : ProposalOut(b) /\ ProposalOut(p)' /\ b.index = p.index
                  => ComputeBlockHash(b) = ComputeBlockHash(p)

\* What circulates is typed.
LEMMA OutTyped ==
    ASSUME BusTypes
    PROVE  /\ \A b : ProposalOut(b) => b \in Proposal /\ b.index \in Nat
           /\ \A t : SigOut(t) => t.signer \in Node
  <1>1. ASSUME NEW b, ProposalOut(b) PROVE b \in Proposal /\ b.index \in Nat
    <2>1. b \in Proposal
      BY <1>1 DEF ProposalOut, Sent, BusTypes, Bus, IsFrame, Payload
    <2> QED
      BY <2>1, ProposalTyped
  <1>2. ASSUME NEW t, SigOut(t) PROVE t.signer \in Node
    <2>1. t \in SigMessage
      BY <1>2 DEF SigOut, Sent, BusTypes, Bus, IsFrame, Payload
    <2> QED
      BY <2>1 DEF SigMessage
  <1> QED
    BY <1>1, <1>2

\* A step that brings at most one proposal, which agrees with those in circulation and
\* leaves the slot of its leader filled, and signatures their signers hold.
LEMMA SlotStep ==
    ASSUME P2PTypes, SlotInv, UNCHANGED leader, NEW x, NEW s, NEW q, BusMoves(x, s, q),
           \A n \in Node : pc'[n] \in {"build", "propose"} => leader[cycle(n)'] = n,
           \A p, r \in x : p = r,
           \A p \in x : /\ p.index \in Nat
                        /\ \E n \in Node : /\ leader[p.index] = n
                                           /\ \E b \in gossip'[n].proposals : b.index = p.index
                        /\ \A b : ProposalOut(b) /\ b.index = p.index
                                      => ComputeBlockHash(b) = ComputeBlockHash(p),
           \A t \in s : t \in gossip'[t.signer].sigs
    PROVE  SlotInv' /\ Settles
  <1>1. \A b : ProposalOut(b)' => ProposalOut(b) \/ b \in x
    BY DEF BusMoves
  <1>2. Settles
    BY <1>1 DEF Settles, SlotInv
  <1>3. ASSUME NEW b, NEW p, ProposalOut(b)', ProposalOut(p)', b.index = p.index
        PROVE  ComputeBlockHash(b) = ComputeBlockHash(p)
    <2>1. CASE ProposalOut(b)
      BY <1>2, <1>3, <2>1 DEF Settles
    <2>2. CASE ProposalOut(p)
      BY <1>2, <1>3, <2>2 DEF Settles
    <2>3. CASE b \in x /\ p \in x
      BY <2>3
    <2> QED
      BY <1>1, <1>3, <2>1, <2>2, <2>3
  <1>4. ASSUME NEW b, ProposalOut(b)'
        PROVE  \E n \in Node : /\ leader[b.index] = n
                               /\ \E p \in gossip'[n].proposals : p.index = b.index
    <2>1. CASE b \in x
      BY <2>1
    <2>2. CASE ProposalOut(b)
      <3>1. PICK n \in Node : leader[b.index] = n /\ GetProposed(n, b.index) # {}
        BY <2>2 DEF SlotInv
      <3>2. b.index \in Nat
        BY <2>2, OutTyped DEF P2PTypes
      <3> DEFINE c == b.index
      <3>3. GetProposed(n, c)' # {}
        BY <3>1, <3>2 DEF BusMoves
      <3>4. \E p \in gossip'[n].proposals : p.index = c
        BY <3>3 DEF GetProposed
      <3> QED
        BY <3>1, <3>4
    <2> QED
      BY <1>1, <1>4, <2>1, <2>2
  <1>5. \A b : ProposalOut(b)' => \E n \in Node : leader'[b.index] = n /\ GetProposed(n, b.index)' # {}
    BY <1>4 DEF GetProposed
  <1>6. ASSUME NEW t, SigOut(t)' PROVE t \in gossip'[t.signer].sigs
    <2>1. CASE t \in s
      BY <2>1
    <2>2. CASE SigOut(t)
      BY <2>2, OutTyped DEF SlotInv, P2PTypes, BusMoves
    <2> QED
      BY <1>6, <2>1, <2>2 DEF BusMoves
  <1>7. \A n \in Node : pc'[n] \in {"build", "propose"} => leader'[cycle(n)'] = n
    OBVIOUS
  <1> QED
    BY <1>2, <1>3, <1>5, <1>6, <1>7 DEF SlotInv

\* Without restarts every step keeps the slots settled.
LEMMA SlotNext ==
    ASSUME P2PAssumption, MaxRestarts = 0, P2PTypes, SlotInv, [P2PNext]_p2pConsensusVars
    PROVE  SlotInv' /\ Settles
  <1> DEFINE Leads == \A n \in Node : pc'[n] \in {"build", "propose"} => leader[cycle(n)'] = n
  <1>1. ASSUME NEW n \in Node, OneMoves(n), pc'[n] \in {"build", "propose"} => leader[cycle(n)'] = n
        PROVE  Leads /\ UNCHANGED leader
    BY <1>1 DEF OneMoves, Same, SlotInv, cycle
  <1>2. ASSUME NEW n \in Node, Plain(n) PROVE Leads /\ UNCHANGED leader
    <2>1. pc'[n] \in {"build", "propose"} => leader[cycle(n)'] = n
      BY <1>2 DEF Plain, SlotInv, cycle
    <2> QED
      BY <1>1, <1>2, <2>1 DEF Plain
  <1> HIDE DEF Leads
  <1>3. ASSUME Leads, UNCHANGED leader, NEW q, BusMoves({}, {}, q) PROVE SlotInv' /\ Settles
    BY <1>3, SlotStep, SMTT(30) DEF Leads
  <1>4. ASSUME NEW n \in Node, Plain(n), QuietBus(n) PROVE SlotInv' /\ Settles
    <2>1. Leads /\ UNCHANGED leader
      BY <1>2, <1>4
    <2>2. CASE BusMoves({}, {}, {})
      BY <1>3, <2>1, <2>2
    <2>3. ASSUME NEW t \in SigMessage, t.signer = n, t \in gossip'[n].sigs, BusMoves({}, {t}, {})
          PROVE  SlotInv' /\ Settles
      BY <2>1, <2>3, SlotStep, SMTT(30) DEF Leads
    <2> QED
      BY <1>4, <2>2, <2>3 DEF QuietBus
  <1>5. ASSUME NEW n \in Node, ProvesAlpha(n) PROVE SlotInv' /\ Settles
    BY <1>2, <1>3, <1>5 DEF ProvesAlpha
  <1>6. ASSUME NEW n \in Node, Proposes(n) PROVE SlotInv' /\ Settles
    <2> DEFINE p == Candidate(n)
               x == IF GetProposed(n, cycle(n)) = {} THEN {p} ELSE {}
    <2>1. Leads /\ UNCHANGED leader
      BY <1>2, <1>6 DEF Proposes
    <2>2. p.index = cycle(n) /\ cycle(n) \in Nat
      BY CandidateMade, HeightTyped DEF P2PTypes
    <2>3. /\ leader[cycle(n)] = n /\ BusMoves(x, {}, {})
          /\ \E b \in gossip'[n].proposals : b.index = cycle(n)
      BY <1>6 DEF Proposes, SlotInv
    <2> HIDE DEF p
    <2>4. x # {} => \A b : ProposalOut(b) => b.index # cycle(n)
      BY <2>3 DEF SlotInv
    <2>5. \A r \in x : r = p
      OBVIOUS
    <2> HIDE DEF x
    <2> QED
      BY <2>1, <2>2, <2>3, <2>4, <2>5, SlotStep, SMTT(30) DEF Leads
  <1>7. ASSUME NEW n \in Node, NEW b, CountsQuorum(n, b) PROVE SlotInv' /\ Settles
    BY <1>1, <1>3, <1>7 DEF CountsQuorum, Holds
  <1>8. ASSUME NEW n \in Node, NEW b \in GetProposed(n, cycle(n)), PublishesFinal(n, b)
        PROVE  SlotInv' /\ Settles
    <2> DEFINE p == AsProposal(FinalBlock(n, b))
    <2>1. Leads /\ UNCHANGED leader
      BY <1>1, <1>8 DEF PublishesFinal, Holds
    <2>2. EngineTypes /\ BusTypes /\ b \in Proposal /\ prepareSigs[n] # {} /\ b.index = cycle(n)
          /\ ProposalOut(b)
      BY <1>8 DEF P2PTypes, PublishesFinal, Signed, GetProposed, BusTypes, Bus, ProposalOut
    <2>3. p.index = cycle(n) /\ ComputeBlockHash(p) = ComputeBlockHash(b)
      BY <2>2, FinalMade
    <2>4. leader[cycle(n)] = n /\ BusMoves({p}, {}, {}) /\ cycle(n) \in Nat
      BY <1>8, <2>2, HeightTyped DEF PublishesFinal
    <2> HIDE DEF p
    <2>5. \E r \in gossip'[n].proposals : r.index = cycle(n)
      <3> DEFINE c == cycle(n)
      <3>1. \A d \in Nat : GetProposed(n, d) # {} => GetProposed(n, d)' # {}
        BY <2>4 DEF BusMoves
      <3>2. \A d \in Nat : GetProposed(n, d) # {} => \E r \in gossip'[n].proposals : r.index = d
        BY <3>1 DEF GetProposed
      <3> QED
        BY <1>8, <2>4, <3>2
    <2>6. \A r : ProposalOut(r) /\ r.index = p.index => ComputeBlockHash(r) = ComputeBlockHash(p)
      BY <2>2, <2>3 DEF SlotInv
    <2> QED
      BY <2>1, <2>3, <2>4, <2>5, <2>6, SlotStep, SMTT(30) DEF Leads
  <1>9. ASSUME NEW n \in Node, NEW f, SealsBlock(n, f) PROVE SlotInv' /\ Settles
    BY <1>1, <1>3, <1>9 DEF SealsBlock
  <1>10. CASE NetworkOnly
    <2>1. Leads
      BY <1>10 DEF NetworkOnly, Same, Leads, SlotInv, cycle
    <2> QED
      BY <1>3, <1>10, <2>1 DEF NetworkOnly
  <1>11. ASSUME NEW n \in Node, Restart(n) PROVE FALSE
    BY <1>11, RestartDoes, SMTT(30) DEF P2PTypes
  <1> QED
    BY <1>4, <1>5, <1>6, <1>7, <1>8, <1>9, <1>10, <1>11, StepKinds DEF KnownStep

-----------------------------------------------------------------------------
\* What PREPARE hands to COMMIT: enough signers of the block of the cycle, each of which
\* holds its signature.
Counted(n) ==
    /\ GetProposed(n, cycle(n)) # {}
    /\ Cardinality(prepareSigs[n]) >= requiredQuorum(n)
    /\ \A s \in prepareSigs[n] : \A b :
           ProposalOut(b) /\ b.index = cycle(n) => BlockSig(s, b) \in gossip[s].sigs

\* A final block on a bus is the leader's own, compacted in its peer order from
\* signatures their signers hold.
Whole(n, f) ==
    /\ leader[f.index] = n
    /\ f.sigs = CompactSigs(Peers[n], f.bitmap, ComputeBlockHash(f))
    /\ \A k \in f.bitmap : BlockSig(Peers[n][k], f) \in gossip[Peers[n][k]].sigs

Enough(n) == \A f \in GetFinal(n, cycle(n)) : Cardinality(f.bitmap) >= requiredQuorum(n)

\* The block a node appends: a quorum, or the one signature degraded mode keeps.
SignedBy(n, b) ==
    /\ \A k \in b.bitmap : BlockSig(Peers[n][k], b) \in gossip[Peers[n][k]].sigs
    /\ Cardinality(b.bitmap) >= RequiredIn(b, Peers[n])

NodeQuorum(n) ==
    /\ pc[n] \in {"commit", "append"} => Counted(n)
    /\ \A f \in gossip[n].finals : Whole(n, f)
    /\ pc[n] = "append" => Enough(n)
    /\ \A i \in DOMAIN blocks[n] : \E b \in Final : blocks[n][i] = b /\ SignedBy(n, b)

QuorumInv == \A n \in Node : NodeQuorum(n)

\* Signatures stay on their signers' buses, so what was counted stays counted.
LEMMA CountedStays ==
    ASSUME P2PTypes, SlotInv, Settles, NEW x, NEW s, NEW q, BusMoves(x, s, q),
           NEW n \in Node, Counted(n), blocks'[n] = blocks[n], prepareSigs'[n] = prepareSigs[n],
           inDegraded'[n] = inDegraded[n]
    PROVE  Counted(n)'
  <1>1. cycle(n)' = cycle(n) /\ cycle(n) \in Nat /\ requiredQuorum(n)' = requiredQuorum(n)
    BY HeightTyped DEF cycle, requiredQuorum, P2PTypes
  <1>2. GetProposed(n, cycle(n))' # {}
    <2>1. \A d \in Nat : GetProposed(n, d) # {} => GetProposed(n, d)' # {}
      BY DEF BusMoves
    <2>2. \A d \in Nat : GetProposed(n, d) # {} => \E r \in gossip'[n].proposals : r.index = d
      BY <2>1 DEF GetProposed
    <2>3. \E r \in gossip'[n].proposals : r.index = cycle(n)
      BY <1>1, <2>2 DEF Counted
    <2> QED
      BY <1>1, <2>3 DEF GetProposed
  <1>3. PICK b \in gossip[n].proposals : b.index = cycle(n)
    BY DEF Counted, GetProposed
  <1>4. ProposalOut(b)
    BY <1>3 DEF ProposalOut
  <1>5. ASSUME NEW t \in prepareSigs[n], NEW p, ProposalOut(p)', p.index = cycle(n)
        PROVE  BlockSig(t, p) \in gossip'[t].sigs
    <2>1. BlockSig(t, b) \in gossip[t].sigs /\ t \in Node
      BY <1>3, <1>4, <1>5 DEF Counted, P2PTypes, EngineTypes
    <2>2. ComputeBlockHash(b) = ComputeBlockHash(p)
      BY <1>3, <1>4, <1>5 DEF Settles
    <2>3. BlockSig(t, p) = BlockSig(t, b)
      BY <1>3, <1>5, <2>2 DEF BlockSig
    <2> QED
      BY <2>1, <2>3 DEF BusMoves
  <1> QED
    BY <1>1, <1>2, <1>5 DEF Counted

\* So does what the blocks of a bus and of a chain carry.
LEMMA SigsStay ==
    ASSUME NEW n \in Node, NEW f \in Final, \A m \in Node : gossip[m].sigs \subseteq gossip'[m].sigs
    PROVE  /\ SignedBy(n, f) => SignedBy(n, f)'
           /\ UNCHANGED leader /\ Whole(n, f) => Whole(n, f)'
  <1>1. \A k \in f.bitmap : Peers[n][k] \in Node
    BY FinalTyped, PeersTyped, SMTT(30)
  <1>2. \A k \in f.bitmap : BlockSig(Peers[n][k], f) \in gossip[Peers[n][k]].sigs
            => BlockSig(Peers[n][k], f) \in gossip'[Peers[n][k]].sigs
    BY <1>1
  <1> QED
    BY <1>2 DEF SignedBy, Whole

\* A node that does not move in a step keeps its part of the invariant.
LEMMA NodeStays ==
    ASSUME P2PTypes, SlotInv, Settles, NEW x, NEW s, NEW q, BusMoves(x, s, q), UNCHANGED leader,
           NEW n \in Node, NodeQuorum(n), blocks'[n] = blocks[n],
           gossip'[n].finals = gossip[n].finals,
           pc'[n] \in {"commit", "append"} =>
               pc'[n] = pc[n] /\ prepareSigs'[n] = prepareSigs[n] /\ inDegraded'[n] = inDegraded[n]
    PROVE  NodeQuorum(n)'
  <1>1. \A m \in Node : gossip[m].sigs \subseteq gossip'[m].sigs
    BY DEF BusMoves
  <1>2. pc'[n] \in {"commit", "append"} => Counted(n)'
    BY CountedStays DEF NodeQuorum
  <1>3. gossip[n].finals \subseteq Final /\ blocks[n] \in Seq(Final)
    BY DEF P2PTypes, EngineTypes, BusTypes, Bus
  <1>4. \A f \in gossip'[n].finals : Whole(n, f)'
    BY <1>1, <1>3, SigsStay DEF NodeQuorum
  <1>5. pc'[n] = "append" => Enough(n)'
    BY DEF NodeQuorum, Enough, GetFinal, cycle, requiredQuorum
  <1>6. ASSUME NEW g \in Final, SignedBy(n, g) PROVE SignedBy(n, g)'
    BY <1>1, <1>6, SigsStay
  <1>7. \A i \in DOMAIN blocks'[n] : \E b \in Final : blocks'[n][i] = b /\ SignedBy(n, b)'
    BY <1>6 DEF NodeQuorum
  <1> QED
    BY <1>2, <1>4, <1>5, <1>7 DEF NodeQuorum

\* The block the leader publishes is whole, and has a bit for every signer counted.
LEMMA FinalIsWhole ==
    ASSUME P2PTypes, NEW n \in Node, NEW b \in GetProposed(n, cycle(n)), pc[n] = "commit",
           Counted(n), leader[cycle(n)] = n
    PROVE  LET f == FinalBlock(n, b)
           IN  /\ f \in Final /\ f.index = cycle(n) /\ Whole(n, f)
               /\ Cardinality(f.bitmap) >= requiredQuorum(n)
  <1> DEFINE f == FinalBlock(n, b)
             S == prepareSigs[n]
  <1>1. /\ EngineTypes /\ b \in Proposal /\ b.index = cycle(n) /\ ProposalOut(b)
        /\ S # {} /\ S \in SUBSET Node
    BY DEF P2PTypes, EngineTypes, Signed, GetProposed, BusTypes, Bus, ProposalOut
  <1>2. /\ f \in Final /\ f.index = b.index /\ ComputeBlockHash(f) = ComputeBlockHash(b)
        /\ f.bitmap = PrepareBitmap(Peers[n], S)
        /\ f.sigs = CompactSigs(Peers[n], f.bitmap, ComputeBlockHash(f))
    BY <1>1, FinalMade
  <1> HIDE DEF f, S
  <1>3. ASSUME NEW k \in f.bitmap
        PROVE  BlockSig(Peers[n][k], f) \in gossip[Peers[n][k]].sigs
    <2>1. Peers[n][k] \in S
      BY <1>2, <1>3 DEF PrepareBitmap
    <2>2. BlockSig(Peers[n][k], b) \in gossip[Peers[n][k]].sigs
      BY <1>1, <2>1 DEF Counted, S
    <2>3. BlockSig(Peers[n][k], f) = BlockSig(Peers[n][k], b)
      BY <1>2 DEF BlockSig
    <2> QED
      BY <2>2, <2>3
  <1>4. /\ Cardinality(f.bitmap) \in Nat /\ Cardinality(S) \in Nat
        /\ Cardinality(f.bitmap) >= Cardinality(S)
    BY <1>1, <1>2, SignersCounted
  <1>5. Cardinality(S) >= requiredQuorum(n) /\ requiredQuorum(n) \in Nat
    BY <1>1, QuorumAtLeastOne DEF Counted, S
  <1>6. Cardinality(f.bitmap) >= requiredQuorum(n)
    BY <1>4, <1>5, SMTT(30)
  <1> QED
    BY <1>1, <1>2, <1>3, <1>6 DEF Whole, f

\* What a leader appends is signed by a quorum, or is trimmed to one valid signature.
LEMMA SealedIsSigned ==
    ASSUME P2PTypes, NEW n \in Node, NEW f \in Final, Whole(n, f),
           Cardinality(f.bitmap) >= requiredQuorum(n), ~CommitFails(n, f)
    PROVE  LET t == IF DegradedAfter(n) THEN TrimToOne(f, Peers[n]) ELSE f
           IN  t \in Final /\ SignedBy(n, t)
  <1>1. CASE DegradedAfter(n)
    <2> DEFINE t == TrimToOne(f, Peers[n])
    <2>1. /\ t \in Final /\ t.index = f.index /\ ComputeBlockHash(t) = ComputeBlockHash(f)
          /\ t.degraded /\ \E i \in f.bitmap : t.bitmap = {i}
      BY <1>1, TrimMade DEF CommitFails
    <2> HIDE DEF t
    <2>2. PICK i \in f.bitmap : t.bitmap = {i}
      BY <2>1
    <2>3. BlockSig(Peers[n][i], t) = BlockSig(Peers[n][i], f)
      BY <2>1 DEF BlockSig
    <2>4. \A k \in t.bitmap : BlockSig(Peers[n][k], t) \in gossip[Peers[n][k]].sigs
      BY <2>2, <2>3 DEF Whole
    <2>5. Cardinality(t.bitmap) >= RequiredIn(t, Peers[n])
      BY <2>1, <2>2, FS_Singleton, SMTT(30) DEF RequiredIn
    <2> QED
      BY <1>1, <2>1, <2>4, <2>5 DEF SignedBy, t
  <1>2. CASE ~DegradedAfter(n)
    <2>1. ~inDegraded[n] /\ Len(Peers[n]) = Cardinality(Node)
      BY <1>2, PeersTyped DEF DegradedAfter
    <2>2. /\ Cardinality(f.bitmap) >= quorumRequired(Cardinality(Node))
          /\ quorumRequired(Cardinality(Node)) \in Nat /\ quorumRequired(Cardinality(Node)) >= 1
      BY <2>1, QuorumAtLeastOne DEF requiredQuorum, P2PTypes
    <2>3. f.bitmap \in SUBSET (1..Cardinality(Node)) /\ Cardinality(Node) \in Nat
      BY FinalTyped, PeersTyped
    <2>4. Cardinality(f.bitmap) \in Nat
      BY <2>3, BitmapFinite
    <2>5. Cardinality(f.bitmap) >= RequiredIn(f, Peers[n])
      BY <2>1, <2>2, <2>4, SMTT(30) DEF RequiredIn
    <2> QED
      BY <1>2, <2>5 DEF SignedBy, Whole
  <1> QED
    BY <1>1, <1>2

\* PREPARE ends with signatures of the candidate that are on their signers' buses.
LEMMA CountingCounts ==
    ASSUME P2PTypes, SlotInv, Settles, NEW n \in Node, NEW b \in GetProposed(n, cycle(n)),
           CountsQuorum(n, b)
    PROVE  Counted(n)'
  <1>1. cycle(n)' = cycle(n) /\ cycle(n) \in Nat /\ requiredQuorum(n)' = requiredQuorum(n)
    BY HeightTyped DEF cycle, requiredQuorum, P2PTypes, CountsQuorum, Holds
  <1>2. b \in gossip[n].proposals /\ b.index = cycle(n) /\ ProposalOut(b) /\ BusMoves({}, {}, {})
    BY DEF GetProposed, ProposalOut, CountsQuorum
  <1>3. GetProposed(n, cycle(n))' # {}
    <2>1. \A d \in Nat : GetProposed(n, d) # {} => GetProposed(n, d)' # {}
      BY <1>2 DEF BusMoves
    <2>2. \A d \in Nat : GetProposed(n, d) # {} => \E r \in gossip'[n].proposals : r.index = d
      BY <2>1 DEF GetProposed
    <2>3. \E r \in gossip'[n].proposals : r.index = cycle(n)
      BY <1>1, <2>2
    <2> QED
      BY <1>1, <2>3 DEF GetProposed
  <1>4. ASSUME NEW t \in prepareSigs'[n], NEW p, ProposalOut(p)', p.index = cycle(n)
        PROVE  BlockSig(t, p) \in gossip'[t].sigs
    <2>1. t \in Node /\ BlockSig(t, b) \in gossip[n].sigs
      BY <1>4 DEF CountsQuorum, validPrepareSigs
    <2>2. SigOut(BlockSig(t, b)) /\ BlockSig(t, b).signer = t
      BY <2>1 DEF SigOut, BlockSig
    <2>3. BlockSig(t, b) \in gossip[t].sigs
      BY <2>2 DEF SlotInv
    <2>4. ComputeBlockHash(b) = ComputeBlockHash(p)
      BY <1>2, <1>4 DEF Settles
    <2>5. BlockSig(t, p) = BlockSig(t, b)
      BY <1>2, <1>4, <2>4 DEF BlockSig
    <2> QED
      BY <1>2, <2>1, <2>3, <2>5 DEF BusMoves
  <1> QED
    BY <1>1, <1>3, <1>4 DEF Counted, CountsQuorum

\* Every step keeps the invariant while no node restarts.
LEMMA QuorumNext ==
    ASSUME P2PAssumption, MaxRestarts = 0, P2PTypes, SlotInv, QuorumInv,
           [P2PNext]_p2pConsensusVars
    PROVE  QuorumInv'
  <1>1. Settles
    BY SlotNext
  <1>2. \A n \in Node : NodeQuorum(n)
    BY DEF QuorumInv
  <1>3. ASSUME NEW n \in Node, OneMoves(n), NEW x, NEW s, NEW q, BusMoves(x, s, q),
               \A m \in Node \ {n} : gossip'[m].finals = gossip[m].finals,
               NodeQuorum(n)'
        PROVE  QuorumInv'
    <2>1. ASSUME NEW m \in Node, m # n PROVE NodeQuorum(m)'
      <3>1. UNCHANGED leader /\ Same(m)
        BY <1>3, <2>1 DEF OneMoves
      <3>2. NodeQuorum(m) /\ gossip'[m].finals = gossip[m].finals
        BY <1>2, <1>3, <2>1
      <3> QED
        BY <1>1, <1>3, <3>1, <3>2, NodeStays DEF Same
    <2> QED
      BY <1>3, <2>1 DEF QuorumInv
  <1>4. ASSUME NEW n \in Node, Plain(n), FinalsKept, NEW x, NEW s, NEW q, BusMoves(x, s, q)
        PROVE  QuorumInv'
    <2>1. UNCHANGED leader /\ blocks'[n] = blocks[n] /\ pc'[n] \notin {"commit", "append"}
          /\ OneMoves(n)
      BY <1>4 DEF Plain, OneMoves
    <2>2. NodeQuorum(n)'
      BY <1>1, <1>2, <1>4, <2>1, NodeStays DEF FinalsKept
    <2> QED
      BY <1>3, <1>4, <2>1, <2>2 DEF FinalsKept
  <1>5. ASSUME NEW n \in Node, Plain(n), QuietBus(n) PROVE QuorumInv'
    BY <1>4, <1>5 DEF QuietBus
  <1>6. ASSUME NEW n \in Node, ProvesAlpha(n) PROVE QuorumInv'
    BY <1>4, <1>6 DEF ProvesAlpha
  <1>7. ASSUME NEW n \in Node, Proposes(n) PROVE QuorumInv'
    BY <1>4, <1>7 DEF Proposes
  <1>8. ASSUME NEW n \in Node, NEW b \in GetProposed(n, cycle(n)), CountsQuorum(n, b)
        PROVE  QuorumInv'
    <2>1. /\ OneMoves(n) /\ BusMoves({}, {}, {}) /\ blocks'[n] = blocks[n]
          /\ pc'[n] = "commit" /\ gossip'[n].finals = gossip[n].finals /\ UNCHANGED leader
          /\ \A m \in Node \ {n} : gossip'[m].finals = gossip[m].finals
      BY <1>8 DEF CountsQuorum, Holds, FinalsKept, OneMoves
    <2>2. Counted(n)'
      BY <1>1, <1>8, CountingCounts
    <2>3. gossip[n].finals \subseteq Final /\ \A m \in Node : gossip[m].sigs \subseteq gossip'[m].sigs
      BY <2>1 DEF P2PTypes, BusTypes, Bus, BusMoves
    <2>4. \A f \in gossip'[n].finals : Whole(n, f)'
      BY <1>2, <2>1, <2>3, SigsStay DEF NodeQuorum
    <2>5. \A f \in Final : SignedBy(n, f) => SignedBy(n, f)'
      BY <2>3, SigsStay
    <2>6. \A i \in DOMAIN blocks'[n] : \E f \in Final : blocks'[n][i] = f /\ SignedBy(n, f)'
      BY <1>2, <2>1, <2>5 DEF NodeQuorum
    <2>7. NodeQuorum(n)'
      BY <2>1, <2>2, <2>4, <2>6 DEF NodeQuorum
    <2> QED
      BY <1>3, <2>1, <2>7
  <1>9. ASSUME NEW n \in Node, NEW b \in GetProposed(n, cycle(n)), PublishesFinal(n, b)
        PROVE  QuorumInv'
    <2> DEFINE f == FinalBlock(n, b)
               p == AsProposal(f)
    <2>1. /\ OneMoves(n) /\ BusMoves({p}, {}, {}) /\ blocks'[n] = blocks[n]
          /\ prepareSigs'[n] = prepareSigs[n] /\ inDegraded'[n] = inDegraded[n]
          /\ pc'[n] = "append" /\ UNCHANGED leader
          /\ \A m \in Node \ {n} : gossip'[m].finals = gossip[m].finals
      BY <1>9 DEF PublishesFinal, Holds, OneMoves
    <2>2. /\ pc[n] = "commit" /\ leader[cycle(n)] = n
          /\ gossip'[n].finals = {h \in gossip[n].finals : h.index # f.index} \cup {f}
      BY <1>9 DEF PublishesFinal
    <2>3. Counted(n)
      BY <1>2, <2>2 DEF NodeQuorum
    <2>4. /\ f \in Final /\ f.index = cycle(n) /\ Whole(n, f)
          /\ Cardinality(f.bitmap) >= requiredQuorum(n)
      BY <2>2, <2>3, FinalIsWhole
    <2> HIDE DEF f, p
    <2>5. Counted(n)'
      BY <1>1, <2>1, <2>3, CountedStays
    <2>6. gossip[n].finals \subseteq Final /\ \A m \in Node : gossip[m].sigs \subseteq gossip'[m].sigs
      BY <2>1 DEF P2PTypes, BusTypes, Bus, BusMoves
    <2>7. \A h \in gossip[n].finals \cup {f} : Whole(n, h)'
      BY <1>2, <2>1, <2>4, <2>6, SigsStay DEF NodeQuorum
    <2>8. \A h \in gossip'[n].finals : Whole(n, h)'
      BY <2>2, <2>7
    <2>9. Enough(n)'
      <3>1. cycle(n)' = cycle(n) /\ requiredQuorum(n)' = requiredQuorum(n)
        BY <2>1 DEF cycle, requiredQuorum
      <3>2. \A h \in gossip'[n].finals : h.index = cycle(n) => h = f
        BY <2>2, <2>4
      <3> QED
        BY <2>4, <3>1, <3>2 DEF Enough, GetFinal
    <2>10. \A h \in Final : SignedBy(n, h) => SignedBy(n, h)'
      BY <2>6, SigsStay
    <2>11. \A i \in DOMAIN blocks'[n] : \E h \in Final : blocks'[n][i] = h /\ SignedBy(n, h)'
      BY <1>2, <2>1, <2>10 DEF NodeQuorum
    <2>12. NodeQuorum(n)'
      BY <2>5, <2>8, <2>9, <2>11 DEF NodeQuorum
    <2> QED
      BY <1>3, <2>1, <2>12
  <1>10. ASSUME NEW n \in Node, NEW f \in Final, SealsBlock(n, f) PROVE QuorumInv'
    <2> DEFINE t == IF DegradedAfter(n) THEN TrimToOne(f, Peers[n]) ELSE f
    <2>1. /\ OneMoves(n) /\ BusMoves({}, {}, {}) /\ pc'[n] = "idle" /\ UNCHANGED leader
          /\ gossip'[n].finals = gossip[n].finals /\ ~CommitFails(n, f)
          /\ \A m \in Node \ {n} : gossip'[m].finals = gossip[m].finals
      BY <1>10 DEF SealsBlock, OneMoves, FinalsKept
    <2>2. blocks'[n] = Append(blocks[n], t)
      BY <1>10 DEF SealsBlock
    <2>3. f \in gossip[n].finals /\ f.index = cycle(n)
      BY <1>10 DEF SealsBlock, GetFinal
    <2>4. Whole(n, f) /\ leader[cycle(n)] = n
      BY <1>2, <2>3 DEF NodeQuorum, Whole
    <2>5. pc[n] = "append"
      BY <1>10, <2>4 DEF SealsBlock
    <2>6. Cardinality(f.bitmap) >= requiredQuorum(n)
      BY <1>2, <2>3, <2>5 DEF NodeQuorum, Enough, GetFinal
    <2>7. t \in Final /\ SignedBy(n, t)
      BY <2>1, <2>4, <2>6, SealedIsSigned
    <2> HIDE DEF t
    <2>8. /\ gossip[n].finals \subseteq Final /\ blocks[n] \in Seq(Final)
          /\ \A m \in Node : gossip[m].sigs \subseteq gossip'[m].sigs
      BY <2>1 DEF P2PTypes, EngineTypes, BusTypes, Bus, BusMoves
    <2>9. \A h \in gossip'[n].finals : Whole(n, h)'
      BY <1>2, <2>1, <2>8, SigsStay DEF NodeQuorum
    <2>10. \A h \in Final : SignedBy(n, h) => SignedBy(n, h)'
      BY <2>8, SigsStay
    <2>11. \A i \in DOMAIN blocks[n] : \E h \in Final : blocks[n][i] = h /\ SignedBy(n, h)
      BY <1>2 DEF NodeQuorum
    <2>12. \A i \in DOMAIN blocks'[n] : \E h \in Final : blocks'[n][i] = h /\ SignedBy(n, h)
      BY <2>2, <2>7, <2>8, <2>11, SMTT(30)
    <2>13. \A i \in DOMAIN blocks'[n] : \E h \in Final : blocks'[n][i] = h /\ SignedBy(n, h)'
      BY <2>10, <2>12
    <2>14. NodeQuorum(n)'
      BY <2>1, <2>9, <2>13 DEF NodeQuorum
    <2> QED
      BY <1>3, <2>1, <2>14
  <1>11. CASE NetworkOnly
    <2>1. ASSUME NEW m \in Node PROVE NodeQuorum(m)'
      <3>1. /\ UNCHANGED leader /\ Same(m) /\ BusMoves({}, {}, {})
            /\ gossip'[m].finals = gossip[m].finals
        BY <1>11, <2>1 DEF NetworkOnly, FinalsKept
      <3>2. NodeQuorum(m)
        BY <1>2, <2>1
      <3> QED
        BY <1>1, <3>1, <3>2, NodeStays DEF Same
    <2> QED
      BY <2>1 DEF QuorumInv
  <1>12. ASSUME NEW n \in Node, Restart(n) PROVE FALSE
    BY <1>12, RestartDoes, SMTT(30) DEF P2PTypes
  <1> QED
    BY <1>5, <1>6, <1>7, <1>8, <1>9, <1>10, <1>11, <1>12, StepKinds DEF KnownStep

-----------------------------------------------------------------------------
\* At the start nothing circulates and every chain is empty.
LEMMA NothingOut ==
    ASSUME P2PAssumption, P2PInit
    PROVE  /\ \A b : ~ProposalOut(b) /\ ~SigOut(b) /\ ~ProofOut(b)
           /\ \A n \in Node : gossip[n].finals = {}
  <1>1. /\ EmptyBus.proposals = {} /\ EmptyBus.sigs = {} /\ EmptyBus.vrfProofs = {}
        /\ EmptyBus.finals = {}
    BY DEF EmptyBus
  <1> HIDE DEF EmptyBus
  <1>2. net = {} /\ \A n \in Node : gossip[n] = EmptyBus
    BY DEF P2PInit, GossipInit, P2PAssumption
  <1> QED
    BY <1>1, <1>2 DEF ProposalOut, SigOut, ProofOut, Sent

\* The three invariants hold at the start.
LEMMA P2PInvInit ==
    ASSUME P2PAssumption, P2PInit
    PROVE  AlphaInv /\ SlotInv /\ QuorumInv
  <1>1. \A n \in Node : /\ pc[n] = "idle" /\ blocks[n] = <<>> /\ st[n] = {}
    BY DEF P2PInit, EngineInit
  <1>2. AlphaInv
    BY <1>1, NothingOut DEF AlphaInv, Root
  <1>3. SlotInv
    BY <1>1, NothingOut DEF SlotInv
  <1>4. ASSUME NEW n \in Node PROVE NodeQuorum(n)
    BY <1>1, <1>4, NothingOut, SMTT(30) DEF NodeQuorum
  <1> QED
    BY <1>2, <1>3, <1>4 DEF QuorumInv

\* What circulates includes what a bus holds.
LEMMA AlphaSuffices == AlphaInv => P2PStableAlpha
  <1> SUFFICES ASSUME AlphaInv, NEW n \in Node, NEW q \in gossip[n].vrfProofs,
                      q.cycle = cycle(q.signer)
               PROVE  q.root = IF pc[q.signer] = "idle" THEN st[q.signer] ELSE snap[q.signer]
    BY DEF P2PStableAlpha
  <1>1. ProofOut(q)
    BY DEF ProofOut
  <1> QED
    BY <1>1 DEF AlphaInv, Root

\* The chain's part of the invariant, block by block.
LEMMA QuorumSuffices == QuorumInv => CertifiedBySigners
  BY DEF QuorumInv, NodeQuorum, SignedBy, CertifiedBySigners

\* Two blocks that one bus holds before and after a step circulate.
LEMMA SettlesSuffices == Settles => SlotKept
  <1> SUFFICES ASSUME Settles, NEW n \in Node, NEW b \in gossip[n].proposals,
                      NEW q \in gossip'[n].proposals, b.index = q.index
               PROVE  ComputeBlockHash(b) = ComputeBlockHash(q)
    BY DEF SlotKept
  <1>1. ProposalOut(b) /\ ProposalOut(q)'
    BY DEF ProposalOut
  <1> QED
    BY <1>1 DEF Settles

\* Buses, network and engines keep their types in every behaviour, restarts and lost frames
\* included (GossipBus, Engine).
THEOREM P2PTypesHold == ASSUME P2PAssumption PROVE P2PSpec => []P2PTypes
  <1>1. P2PInit => P2PTypes
    BY P2PTypesInit
  <1>2. P2PTypes /\ [P2PNext]_p2pConsensusVars => P2PTypes'
    BY StepKinds
  <1> QED
    BY <1>1, <1>2, PTL DEF P2PSpec

\* The VRF proof on any bus for a node's current cycle covers the root the node would use
\* now (PublishVRFProof, handleVRFProofsStream).
THEOREM P2PStableAlphaHolds ==
    ASSUME P2PAssumption, MaxRestarts = 0 \/ MaxBlocks <= 1
    PROVE  P2PSpec => []P2PStableAlpha
  <1>1. P2PInit => AlphaInv
    BY P2PInvInit
  <1>2. P2PTypes /\ AlphaInv /\ [P2PNext]_p2pConsensusVars => AlphaInv'
    BY AlphaNext
  <1> QED
    BY <1>1, <1>2, AlphaSuffices, P2PTypesHold, PTL DEF P2PSpec

\* One hash per cycle in circulation, and every signature also on its signer's own bus.
THEOREM SlotInvHolds ==
    ASSUME P2PAssumption, MaxRestarts = 0
    PROVE  P2PSpec => []SlotInv /\ [][SlotKept]_p2pConsensusVars
  <1>1. P2PInit => SlotInv
    BY P2PInvInit
  <1>2. P2PTypes /\ SlotInv /\ [P2PNext]_p2pConsensusVars => SlotInv' /\ [SlotKept]_p2pConsensusVars
    BY SlotNext, SettlesSuffices
  <1> QED
    BY <1>1, <1>2, P2PTypesHold, PTL DEF P2PSpec

\* A committed block carries a quorum of signatures that their signers made and still hold
\* (collectValidSigs, RunPreparePhase, RunCommitPhase).
THEOREM CertifiedBySignersHolds ==
    ASSUME P2PAssumption, MaxRestarts = 0
    PROVE  P2PSpec => []CertifiedBySigners
  <1>1. P2PInit => QuorumInv
    BY P2PInvInit
  <1>2. P2PTypes /\ SlotInv /\ QuorumInv /\ [P2PNext]_p2pConsensusVars => QuorumInv'
    BY QuorumNext
  <1> QED
    BY <1>1, <1>2, QuorumSuffices, SlotInvHolds, P2PTypesHold, PTL DEF P2PSpec

\* What a bus holds for a cycle is settled, for every number of validators, every loss,
\* repetition and reordering of frames and every number of retries: the proof of a node
\* covers its root, the block of a cycle keeps its hash, and what a node commits is
\* certified by signatures their signers hold.
THEOREM SlotsSettledHolds == ASSUME P2PAssumption PROVE P2PSpec => SlotsSettled
  <1> DEFINE Alpha == MaxRestarts = 0 \/ MaxBlocks <= 1 => P2PStableAlpha
             Cert == MaxRestarts = 0 => CertifiedBySigners
             Kept == MaxRestarts = 0 => SlotKept
  <1>1. P2PSpec => []P2PTypeOK
    BY P2PTypesHold, P2PTypesSuffice, PTL
  <1>2. P2PSpec => []Alpha
    <2>1. CASE MaxRestarts = 0 \/ MaxBlocks <= 1
      <3>1. P2PStableAlpha => Alpha
        OBVIOUS
      <3>2. P2PSpec => []P2PStableAlpha
        BY <2>1, P2PStableAlphaHolds
      <3> QED
        BY <3>1, <3>2, PTL
    <2>2. CASE ~(MaxRestarts = 0 \/ MaxBlocks <= 1)
      <3>1. Alpha
        BY <2>2
      <3> QED
        BY <3>1, PTL
    <2> QED
      BY <2>1, <2>2
  <1>3. P2PSpec => []Cert
    <2>1. CASE MaxRestarts = 0
      <3>1. CertifiedBySigners => Cert
        OBVIOUS
      <3>2. P2PSpec => []CertifiedBySigners
        BY <2>1, CertifiedBySignersHolds
      <3> QED
        BY <3>1, <3>2, PTL
    <2>2. CASE MaxRestarts # 0
      <3>1. Cert
        BY <2>2
      <3> QED
        BY <3>1, PTL
    <2> QED
      BY <2>1, <2>2
  <1>4. P2PSpec => [][Kept]_p2pConsensusVars
    <2>1. CASE MaxRestarts = 0
      <3>1. [SlotKept]_p2pConsensusVars => [Kept]_p2pConsensusVars
        OBVIOUS
      <3>2. P2PSpec => [][SlotKept]_p2pConsensusVars
        BY <2>1, SlotInvHolds
      <3> QED
        BY <3>1, <3>2, PTL
    <2>2. CASE MaxRestarts # 0
      <3>1. [Kept]_p2pConsensusVars
        BY <2>2
      <3> QED
        BY <3>1, PTL
    <2> QED
      BY <2>1, <2>2
  <1>5. P2PTypeOK /\ Alpha /\ Cert => SlotsHold
    BY DEF SlotsHold
  <1> QED
    BY <1>1, <1>2, <1>3, <1>4, <1>5, PTL DEF SlotsSettled

=============================================================================
