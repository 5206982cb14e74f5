-------------------------- MODULE ConsensusProofs --------------------------
(***************************************************************************)
(* Type correctness and safety of Consensus for every set of validators,   *)
(* every peer order and every bound.  The lemmas about records say once    *)
(* what a candidate, a final block and a trimmed block are made of.  Then  *)
(* four inductive invariants, each proved with the help of the ones before *)
(* it:                                                                     *)
(*   ChainInv     every block of every chain is a proposal that reached    *)
(*                the bus, and an index has one proposal;                  *)
(*   ProofInv     the VRF proofs on the bus, and who needed them;          *)
(*   ProposalInv  what a proposal on the bus says about its proposer;      *)
(*   PoolInv      where an entry is between a client and a final block.    *)
(***************************************************************************)
EXTENDS Consensus, PrepareQuorumProofs

\* A leaf that names no prover is left to Zenon; the ones that need SMT name it.
USE ZenonT(30)

\* What a block's hash covers (ComputeBlockHash): signatures and labels are left out.
SameBody(x, y) ==
    /\ x.index = y.index
    /\ x.prev = y.prev
    /\ x.proposer = y.proposer
    /\ x.anchored = y.anchored
    /\ x.root = y.root

\* Blocks with one body have one hash.
LEMMA SameBodySameHash ==
    ASSUME NEW x, NEW y, SameBody(x, y)
    PROVE  ComputeBlockHash(x) = ComputeBlockHash(y)
  BY DEF SameBody, ComputeBlockHash

\* The hash of a typed block is a sequence of bodies.
LEMMA HashType ==
    ASSUME NEW b, b.index \in Nat, b.prev \in Seq(BodyType), b.proposer \in Node,
           b.anchored \in SUBSET Entry, b.root \in SUBSET Entry
    PROVE  ComputeBlockHash(b) \in Seq(BodyType)
  <1>1. [index |-> b.index, proposer |-> b.proposer, anchored |-> b.anchored, root |-> b.root]
            \in BodyType
    BY DEF BodyType
  <1> HIDE DEF BodyType
  <1> QED
    BY <1>1, SMTT(30) DEF ComputeBlockHash

\* The same for the two record types of blocks.
LEMMA CandidateHashType ==
    ASSUME NEW b \in CandidateType
    PROVE  ComputeBlockHash(b) \in Seq(BodyType)
  BY HashType DEF CandidateType

\* The hash of a final block is a sequence of bodies.
LEMMA FinalHashType ==
    ASSUME NEW f \in FinalType
    PROVE  ComputeBlockHash(f) \in Seq(BodyType)
  BY HashType DEF FinalType

\* A signature of a node over a typed hash.
LEMMA SignType ==
    ASSUME NEW n \in Node, NEW h \in Seq(BodyType)
    PROVE  SignDilithium(n, h) \in SigType
  BY DEF SignDilithium, SigType

\* The link to the chain so far is typed.
LEMMA PrevHashType ==
    ASSUME TypeOK, NEW n \in Node
    PROVE  prevHash(n) \in Seq(BodyType) /\ cycle(n) \in Nat
  <1>1. blocks[n] \in Seq(FinalType) /\ Len(blocks[n]) \in Nat
    BY SMTT(30) DEF TypeOK
  <1>2. CASE Len(blocks[n]) = 0
    BY <1>1, <1>2, SMTT(30) DEF prevHash, cycle
  <1>3. CASE Len(blocks[n]) > 0
    <2>1. blocks[n][Len(blocks[n])] \in FinalType
      BY <1>1, <1>3, SMTT(30)
    <2> QED
      BY <1>1, <1>3, <2>1, FinalHashType DEF prevHash, cycle
  <1> QED
    BY <1>1, <1>2, <1>3, SMTT(30)

\* The candidate a proposer builds, and what its fields are.
LEMMA CandidateTyped ==
    ASSUME TypeOK, NEW n \in Node
    PROVE  /\ Candidate(n) \in CandidateType
           /\ Candidate(n).index = cycle(n)
           /\ Candidate(n).prev = prevHash(n)
           /\ Candidate(n).proposer = n
           /\ Candidate(n).anchored = batch[n]
           /\ Candidate(n).root = st[n]
           /\ Candidate(n).sig = SignDilithium(n, ComputeBlockHash(Candidate(n)))
  <1> DEFINE b == [index |-> cycle(n), prev |-> prevHash(n), proposer |-> n,
                   anchored |-> batch[n], root |-> st[n]]
             h == ComputeBlockHash(b)
             c == [index |-> b.index, prev |-> b.prev, proposer |-> n, anchored |-> b.anchored,
                   root |-> b.root, degraded |-> requiredQuorum(n) = 1,
                   sig |-> SignDilithium(n, h)]
  <1>1. Candidate(n) = c
    BY DEF Candidate
  <1>2. /\ prevHash(n) \in Seq(BodyType) /\ cycle(n) \in Nat
        /\ batch[n] \in SUBSET Entry /\ st[n] \in SUBSET Entry
    BY PrevHashType DEF TypeOK
  <1>3. h \in Seq(BodyType)
    BY <1>2, HashType
  <1>4. SignDilithium(n, h) \in SigType
    BY <1>3, SignType
  <1>5. ComputeBlockHash(c) = h
    BY DEF ComputeBlockHash
  <1>6. c \in CandidateType
    <2> HIDE DEF h
    <2> QED
      BY <1>2, <1>4 DEF CandidateType
  <1> QED
    BY <1>1, <1>5, <1>6, SMTT(30)

\* The peer list of a node: its positions are 1..Cardinality(Node).
LEMMA PeersType ==
    ASSUME NEW n \in Node
    PROVE  /\ Peers[n] \in Seq(Node)
           /\ DOMAIN Peers[n] = 1..Cardinality(Node)
           /\ Cardinality(Node) \in Nat
  BY PeersAssumption, FS_CardinalityType, SMTT(30)

\* The block RunCommitPhase makes of the proposal on the bus has its body.
LEMMA FinalBlockTyped ==
    ASSUME TypeOK, NEW n \in Node, NEW b \in proposals
    PROVE  /\ FinalBlock(n, b) \in FinalType
           /\ SameBody(FinalBlock(n, b), b)
  <1> DEFINE bitmap == PrepareBitmap(Peers[n], prepareSigs[n])
             h == ComputeBlockHash(b)
             payload == CompactSigs(Peers[n], bitmap, h)
  <1>1. b \in CandidateType
    BY DEF TypeOK
  <1>2. h \in Seq(BodyType)
    BY <1>1, CandidateHashType
  <1>3. bitmap \in SUBSET (1..Cardinality(Node))
    BY PeersType DEF PrepareBitmap
  <1>4. bitmap \subseteq Nat /\ IsFiniteSet(bitmap)
    BY <1>3, PeersType, BitmapFinite
  <1>5. payload \in Seq({SignDilithium(Peers[n][i], h) : i \in bitmap})
    BY <1>4, CompactLength, SMTT(30)
  <1>6. {SignDilithium(Peers[n][i], h) : i \in bitmap} \subseteq SigType
    <2> HIDE DEF h
    <2>1. \A i \in bitmap : Peers[n][i] \in Node
      BY <1>3, PeersType, SMTT(30)
    <2> QED
      BY <1>2, <2>1, SignType
  <1>7. payload \in Seq(SigType)
    <2> HIDE DEF payload
    <2> DEFINE T == {SignDilithium(Peers[n][i], h) : i \in bitmap}
    <2>1. payload \in Seq(T) /\ T \subseteq SigType
      BY <1>5, <1>6
    <2> HIDE DEF T
    <2> QED
      BY <2>1, SeqWidens
  <1>8. SignDilithium(n, h) \in SigType
    BY <1>2, SignType
  <1>9. FinalBlock(n, b)
          = [index |-> b.index, prev |-> b.prev, proposer |-> b.proposer,
             anchored |-> b.anchored, root |-> b.root, degraded |-> b.degraded,
             bitmap |-> bitmap, sigs |-> payload, commitSig |-> SignDilithium(n, h)]
    BY DEF FinalBlock
  <1> HIDE DEF bitmap, h, payload
  <1>10. FinalBlock(n, b) \in FinalType
    BY <1>1, <1>3, <1>7, <1>8, <1>9, SMTT(30) DEF FinalType, CandidateType
  <1>11. SameBody(FinalBlock(n, b), b)
    BY <1>9, SMTT(30) DEF SameBody
  <1> QED
    BY <1>10, <1>11

\* ApplyDegradedBlock keeps the body, and the type when some signature is valid.
LEMMA TrimTyped ==
    ASSUME NEW f \in FinalType, NEW n \in Node, ValidPositions(f, Peers[n]) # {}
    PROVE  /\ TrimToOne(f, Peers[n]) \in FinalType
           /\ SameBody(TrimToOne(f, Peers[n]), f)
  <1> DEFINE V == ValidPositions(f, Peers[n])
             i == CHOOSE i \in V : \A j \in V : i <= j
             s == f.sigs[countBitsBefore(f.bitmap, i) + 1]
  <1>1. /\ f.bitmap \in SUBSET (1..Cardinality(Node))
        /\ f.sigs \in Seq(SigType)
    BY DEF FinalType
  <1>2. V \subseteq 1..Cardinality(Node)
    BY <1>1 DEF ValidPositions
  <1>3. i \in V
    BY <1>2, PeersType, LeastPosition
  <1>4. i \in 1..Cardinality(Node) /\ i \in f.bitmap /\ SigVerifies(f, Peers[n], i)
    BY <1>2, <1>3 DEF ValidPositions
  <1>5. s \in SigType
    <2>1. countBitsBefore(f.bitmap, i) \in Nat
      <3>1. f.bitmap \subseteq Nat /\ IsFiniteSet(f.bitmap)
        BY <1>1, PeersType, BitmapFinite
      <3>2. countBitsBefore(f.bitmap, i) \in 0..(Cardinality(f.bitmap) - 1)
        BY <1>4, <3>1, CountBelow
      <3> QED
        BY <3>2, SMTT(30)
    <2>2. countBitsBefore(f.bitmap, i) < Len(f.sigs)
      BY <1>4 DEF SigVerifies
    <2> QED
      BY <1>1, <2>1, <2>2, SMTT(30)
  <1>6. TrimToOne(f, Peers[n]) = [f EXCEPT !.bitmap = {i}, !.sigs = <<s>>, !.degraded = TRUE]
    BY DEF TrimToOne
  <1> HIDE DEF i, s, V
  <1>7. <<s>> \in Seq(SigType) /\ {i} \in SUBSET (1..Cardinality(Node))
    BY <1>4, <1>5, SMTT(30)
  <1> QED
    BY <1>6, <1>7 DEF FinalType, SameBody

-----------------------------------------------------------------------------
\* The initial state is typed.
LEMMA TypeInit == Init => TypeOK
  BY BoundAssumption, ConsensusAssumption, SMTT(30) DEF Init, EngineInit, BusInit, TypeOK

\* A rolled-back cycle leaves a typed state.
LEMMA RollbackType ==
    ASSUME TypeOK, NEW n \in Node, Rollback(n), UNCHANGED <<busVars, accepted>>,
           inDegraded' \in [Node -> BOOLEAN], timeouts' \in 0..MaxTimeouts
    PROVE  TypeOK'
  BY DEF TypeOK, Rollback, busVars

\* So does the end of a cycle on a typed final block.
LEMMA CommitType ==
    ASSUME TypeOK, NEW n \in Node, NEW f \in finals, CommitBlock(n, f),
           pool' \in SUBSET Entry, UNCHANGED <<proofs, proposals, sigs, finals, accepted, timeouts>>
    PROVE  TypeOK'
  <1>1. inDegraded' \in [Node -> BOOLEAN]
    BY DEF CommitBlock, TypeOK, DegradedAfter
  <1>2. CASE CommitFails(n, f)
    <2>1. Rollback(n)
      BY <1>2 DEF CommitBlock
    <2> QED
      BY <1>1, <2>1 DEF Rollback, TypeOK
  <1>3. CASE ~CommitFails(n, f)
    <2> DEFINE sealed == IF DegradedAfter(n) THEN TrimToOne(f, Peers[n]) ELSE f
    <2>1. AppendBlock(n, f)
      BY <1>3 DEF CommitBlock
    <2>2. sealed \in FinalType
      BY <1>3, TrimTyped DEF CommitFails, TypeOK
    <2>3. f.anchored \in SUBSET Entry
      BY DEF TypeOK, FinalType
    <2>4. AnchorsAfter(n, f) \in SUBSET [entry : Entry, index : Nat, root : SUBSET Entry]
      BY <2>3, PrevHashType, SMTT(30) DEF AnchorsAfter, TypeOK
    <2>5. StatusAfter(n) \in [Node -> 0..StatusSteps]
      BY BoundAssumption, SMTT(30) DEF StatusAfter, TypeOK
    <2>6. blocks' = [blocks EXCEPT ![n] = Append(@, sealed)]
      BY <2>1 DEF AppendBlock
    <2> HIDE DEF sealed
    <2>7. blocks' \in [Node -> Seq(FinalType)]
      BY <2>2, <2>6, SMTT(30) DEF TypeOK
    <2> QED
      BY <1>1, <2>1, <2>4, <2>5, <2>7 DEF AppendBlock, TypeOK
  <1> QED
    BY <1>2, <1>3

\* Every step keeps the types.
LEMMA TypeNext == TypeOK /\ [Next]_vars => TypeOK'
  <1> SUFFICES ASSUME TypeOK, [Next]_vars
               PROVE  TypeOK'
    OBVIOUS
  <1>1. ASSUME NEW n \in Node, NEW e \in Entry, Enqueue(n, e)
        PROVE  TypeOK'
    BY <1>1 DEF Enqueue, AcceptEntry, Publish, TypeOK
  <1>2. ASSUME NEW n \in Node, NEW e \in Entry, Submit(n, e)
        PROVE  TypeOK'
    BY <1>2 DEF Submit, AcceptEntry, busVars, TypeOK
  <1>3. ASSUME NEW n \in Node, Start(n)
        PROVE  TypeOK'
    BY <1>3 DEF Start, StartCycle, busVars, TypeOK
  <1>4. ASSUME NEW n \in Node, PublishVRFProof(n)
        PROVE  TypeOK'
    <2>1. VRFProof(n) \in [cycle : Nat, signer : Node, root : SUBSET Entry]
      BY PrevHashType DEF VRFProof, TypeOK
    <2> QED
      BY <1>4, <2>1 DEF PublishVRFProof, AfterVRFProof, Goto, BusPublishVRFProof, TypeOK
  <1>5. ASSUME NEW n \in Node, Select(n)
        PROVE  TypeOK'
    BY <1>5 DEF Select, SelectProposer, Goto, busVars, TypeOK
  <1>6. ASSUME NEW n \in Node, Reject(n)
        PROVE  TypeOK'
    BY <1>6, RollbackType DEF Reject, RejectElection, AbortCycle, TypeOK
  <1>7. ASSUME NEW n \in Node, Build(n)
        PROVE  TypeOK'
    BY <1>7 DEF Build, BuildCandidate, Goto, busVars, TypeOK
  <1>8. ASSUME NEW n \in Node, NoEntries(n)
        PROVE  TypeOK'
    BY <1>8, RollbackType DEF NoEntries, NothingToPropose, AbortCycle, TypeOK
  <1>9. ASSUME NEW n \in Node, Propose(n)
        PROVE  TypeOK'
    <2>1. Candidate(n) \in CandidateType
      BY CandidateTyped
    <2> QED
      BY <1>9, <2>1 DEF Propose, AfterPropose, Goto, BusPropose, TypeOK
  <1>10. ASSUME NEW n \in Node, SignOwn(n)
         PROVE  TypeOK'
    <2>1. BlockSig(n, Candidate(n)) \in [cycle : Nat, signer : Node, hash : Seq(BodyType)]
      BY CandidateTyped, CandidateHashType, PrevHashType DEF BlockSig
    <2> QED
      BY <1>10, <2>1, ZenonT(60) DEF SignOwn, AfterSign, Goto, BusPublishSig, TypeOK
  <1>11. ASSUME NEW n \in Node, SignProposal(n)
         PROVE  TypeOK'
    <2>1. PICK b \in proposals :
              /\ HandleProposal(n, b)
              /\ IF ProposalVerifies(n, b) THEN BusPublishSig(BlockSig(n, b))
                 ELSE UNCHANGED busVars
              /\ UNCHANGED <<accepted, timeouts>>
      BY <1>11 DEF SignProposal, Proposed
    <2>2. b \in CandidateType /\ b.index \in Nat /\ b.anchored \in SUBSET Entry
      BY DEF TypeOK, CandidateType
    <2>3. BlockSig(n, b) \in [cycle : Nat, signer : Node, hash : Seq(BodyType)]
      BY <2>2, CandidateHashType DEF BlockSig
    <2>4. CASE ProposalVerifies(n, b)
      <3>1. /\ pc' = [pc EXCEPT ![n] = "quorum"]
            /\ st' = [st EXCEPT ![n] = @ \cup b.anchored]
            /\ UNCHANGED <<blocks, snap, pending, pendingEntries, batch,
                           prepareSigs, anchored, inDegraded, status, leader>>
            /\ BusPublishSig(BlockSig(n, b))
        BY <2>1, <2>4 DEF HandleProposal
      <3> QED
        BY <2>1, <2>2, <2>3, <3>1, ZenonT(60) DEF BusPublishSig, TypeOK
    <2>5. CASE ~ProposalVerifies(n, b)
      BY <2>1, <2>5, RollbackType, ZenonT(60) DEF HandleProposal, AbortCycle, TypeOK
    <2> QED
      BY <2>4, <2>5
  <1>12. ASSUME NEW n \in Node, Quorum(n)
         PROVE  TypeOK'
    <2>1. PICK b \in Proposed(cycle(n)) : CheckQuorum(n, b, sigs)
                                          /\ UNCHANGED <<busVars, accepted, timeouts>>
      BY <1>12 DEF Quorum
    <2>2. validPrepareSigs(b, sigs) \in SUBSET Node
      BY DEF validPrepareSigs
    <2> QED
      BY <2>1, <2>2 DEF CheckQuorum, Goto, busVars, TypeOK
  <1>13. ASSUME NEW n \in Node, PublishFinal(n)
         PROVE  TypeOK'
    <2>1. PICK b \in proposals : AfterPublishFinal(n) /\ BusPublishFinal(FinalBlock(n, b))
                                 /\ UNCHANGED <<accepted, timeouts>>
      BY <1>13 DEF PublishFinal, Proposed
    <2>2. FinalBlock(n, b) \in FinalType
      BY FinalBlockTyped
    <2> QED
      BY <2>1, <2>2 DEF AfterPublishFinal, Goto, BusPublishFinal, TypeOK
  <1>14. ASSUME NEW n \in Node, LeaderCommit(n)
         PROVE  TypeOK'
    <2>1. PICK f \in finals :
              /\ CommitAsLeader(n, f)
              /\ IF CommitFails(n, f) THEN UNCHANGED busVars ELSE RemoveEntries(f.anchored)
              /\ UNCHANGED <<accepted, timeouts>>
      BY <1>14 DEF LeaderCommit, Final
    <2>2. pool' \in SUBSET Entry /\ UNCHANGED <<proofs, proposals, sigs, finals>>
      BY <2>1 DEF RemoveEntries, busVars, TypeOK
    <2> QED
      BY <2>1, <2>2, CommitType DEF CommitAsLeader
  <1>15. ASSUME NEW n \in Node, ValidatorCommit(n)
         PROVE  TypeOK'
    <2>1. PICK f \in finals :
              /\ HandleFinal(n, f)
              /\ IF FinalVerifies(n, f) /\ ~CommitFails(n, f) THEN RemoveEntries(f.anchored)
                 ELSE UNCHANGED busVars
              /\ UNCHANGED <<accepted, timeouts>>
      BY <1>15 DEF ValidatorCommit, Final
    <2>2. pool' \in SUBSET Entry /\ UNCHANGED <<proofs, proposals, sigs, finals>>
      BY <2>1 DEF RemoveEntries, busVars, TypeOK
    <2>3. CASE FinalVerifies(n, f)
      BY <2>1, <2>2, <2>3, CommitType DEF HandleFinal
    <2>4. CASE ~FinalVerifies(n, f)
      BY <2>1, <2>4, RollbackType, ZenonT(60) DEF HandleFinal, AbortCycle, TypeOK
    <2> QED
      BY <2>3, <2>4
  <1>16. ASSUME NEW n \in Node, Timeout(n)
         PROVE  TypeOK'
    <2>1. timeouts' \in 0..MaxTimeouts
      BY <1>16, ConsensusAssumption, SMTT(30) DEF Timeout, TypeOK
    <2>2. Rollback(n) /\ UNCHANGED <<busVars, accepted, inDegraded>>
      BY <1>16 DEF Timeout, AbortCycle
    <2> QED
      BY <2>1, <2>2, RollbackType DEF TypeOK
  <1>17. CASE UNCHANGED vars
    BY <1>17 DEF vars, engineVars, busVars, TypeOK
  <1> QED
    BY <1>1, <1>2, <1>3, <1>4, <1>5, <1>6, <1>7, <1>8, <1>9, <1>10, <1>11, <1>12,
       <1>13, <1>14, <1>15, <1>16, <1>17 DEF Next, Step

\* The engine and bus state keep their types in every run of any number of
\* validators, through aborts, timeouts and degraded mode.
THEOREM TypeCorrect == Spec => []TypeOK
  BY TypeInit, TypeNext, PTL DEF Spec

-----------------------------------------------------------------------------
\* RunCycle returns early: every abort, whatever the reason, is this step.
Aborts(n) ==
    /\ pc[n] # "idle"
    /\ Rollback(n)
    /\ UNCHANGED <<busVars, accepted>>

\* RunCycle appends a block: s is the final block f, trimmed or as it was.
AppendsBlock(n, f, s) ==
    /\ f \in finals
    /\ f.index = cycle(n)
    /\ s \in FinalType
    /\ SameBody(s, f)
    /\ pc[n] \in {"commit", "append"}
    /\ pc' = [pc EXCEPT ![n] = "idle"]
    /\ blocks' = [blocks EXCEPT ![n] = Append(@, s)]
    /\ batch' = [batch EXCEPT ![n] = {}]
    /\ pool' = pool \ f.anchored
    /\ UNCHANGED <<st, snap, leader, proofs, proposals, sigs, finals, accepted>>

Appends(n) == \E f, s : AppendsBlock(n, f, s)

\* A validator accepts the proposal it waited for.
Accepts(n) ==
    \E b \in Proposed(cycle(n)) :
        /\ ProposalVerifies(n, b)
        /\ Goto(n, "await", "quorum")
        /\ st' = [st EXCEPT ![n] = @ \cup b.anchored]
        /\ BusPublishSig(BlockSig(n, b))
        /\ UNCHANGED <<blocks, snap, batch, leader, accepted>>

Client(n) == \E e \in Entry : Enqueue(n, e) \/ Submit(n, e)

\* What EXCEPT needs to know of a typed state.
LEMMA Domains ==
    ASSUME TypeOK
    PROVE  /\ DOMAIN pc = Node /\ DOMAIN blocks = Node /\ DOMAIN st = Node
           /\ DOMAIN snap = Node /\ DOMAIN batch = Node
  BY DEF TypeOK

\* A commit phase that does not abort appends.
LEMMA CommitAppends ==
    ASSUME TypeOK, NEW n \in Node, NEW f \in Final(cycle(n)), CommitBlock(n, f),
           pc[n] \in {"commit", "append"}, ~CommitFails(n, f),
           RemoveEntries(f.anchored), UNCHANGED <<accepted, timeouts>>
    PROVE  Appends(n)
  <1> DEFINE s == IF DegradedAfter(n) THEN TrimToOne(f, Peers[n]) ELSE f
  <1>1. AppendBlock(n, f)
    BY DEF CommitBlock
  <1>2. f \in finals /\ f.index = cycle(n) /\ f \in FinalType
    BY DEF Final, TypeOK
  <1>3. s \in FinalType /\ SameBody(s, f)
    <2>1. CASE DegradedAfter(n)
      BY <1>2, <2>1, TrimTyped DEF CommitFails
    <2>2. CASE ~DegradedAfter(n)
      BY <1>2, <2>2 DEF SameBody
    <2> QED
      BY <2>1, <2>2
  <1>4. blocks' = [blocks EXCEPT ![n] = Append(@, s)]
    BY <1>1 DEF AppendBlock
  <1> HIDE DEF s
  <1>5. AppendsBlock(n, f, s)
    BY <1>1, <1>2, <1>3, <1>4 DEF AppendsBlock, AppendBlock, RemoveEntries
  <1> QED
    BY <1>5 DEF Appends

\* What a step of the system can be, with the abort paths and the two ways of
\* committing brought together.
LEMMA StepCases ==
    ASSUME TypeOK, Next
    PROVE  \E n \in Node :
              \/ Client(n) \/ Start(n) \/ PublishVRFProof(n) \/ Select(n) \/ Build(n)
              \/ Propose(n) \/ SignOwn(n) \/ Accepts(n) \/ Quorum(n) \/ PublishFinal(n)
              \/ Appends(n) \/ Aborts(n)
  <1>1. PICK n \in Node : Client(n) \/ Step(n) \/ Timeout(n)
    BY DEF Next, Client
  <1>2. ASSUME Reject(n) PROVE Aborts(n)
    BY <1>2 DEF Reject, RejectElection, AbortCycle, Aborts
  <1>3. ASSUME NoEntries(n) PROVE Aborts(n)
    BY <1>3 DEF NoEntries, NothingToPropose, AbortCycle, Aborts
  <1>4. ASSUME Timeout(n) PROVE Aborts(n)
    BY <1>4 DEF Timeout, Waiting, AbortCycle, Aborts
  <1>5. ASSUME SignProposal(n) PROVE Accepts(n) \/ Aborts(n)
    <2>1. PICK b \in Proposed(cycle(n)) :
              /\ HandleProposal(n, b)
              /\ IF ProposalVerifies(n, b) THEN BusPublishSig(BlockSig(n, b))
                 ELSE UNCHANGED busVars
              /\ UNCHANGED <<accepted, timeouts>>
      BY <1>5 DEF SignProposal
    <2>2. CASE ProposalVerifies(n, b)
      BY <2>1, <2>2 DEF HandleProposal, Accepts, Goto
    <2>3. CASE ~ProposalVerifies(n, b)
      BY <2>1, <2>3 DEF HandleProposal, AbortCycle, Aborts
    <2> QED
      BY <2>2, <2>3
  <1>6. ASSUME LeaderCommit(n) PROVE Appends(n) \/ Aborts(n)
    <2>1. PICK f \in Final(cycle(n)) :
              /\ CommitAsLeader(n, f)
              /\ IF CommitFails(n, f) THEN UNCHANGED busVars ELSE RemoveEntries(f.anchored)
              /\ UNCHANGED <<accepted, timeouts>>
      BY <1>6 DEF LeaderCommit
    <2>2. CASE CommitFails(n, f)
      BY <2>1, <2>2 DEF CommitAsLeader, CommitBlock, Aborts
    <2>3. CASE ~CommitFails(n, f)
      BY <2>1, <2>3, CommitAppends DEF CommitAsLeader
    <2> QED
      BY <2>2, <2>3
  <1>7. ASSUME ValidatorCommit(n) PROVE Appends(n) \/ Aborts(n)
    <2>1. PICK f \in Final(cycle(n)) :
              /\ HandleFinal(n, f)
              /\ IF FinalVerifies(n, f) /\ ~CommitFails(n, f) THEN RemoveEntries(f.anchored)
                 ELSE UNCHANGED busVars
              /\ UNCHANGED <<accepted, timeouts>>
      BY <1>7 DEF ValidatorCommit
    <2>2. CASE ~FinalVerifies(n, f)
      BY <2>1, <2>2 DEF HandleFinal, AbortCycle, Aborts
    <2>3. CASE FinalVerifies(n, f) /\ CommitFails(n, f)
      BY <2>1, <2>3 DEF HandleFinal, CommitBlock, Aborts
    <2>4. CASE FinalVerifies(n, f) /\ ~CommitFails(n, f)
      BY <2>1, <2>4, CommitAppends DEF HandleFinal
    <2> QED
      BY <2>2, <2>3, <2>4
  <1> QED
    BY <1>1, <1>2, <1>3, <1>4, <1>5, <1>6, <1>7 DEF Step

-----------------------------------------------------------------------------
\* An index has one proposal on the bus (MemoryBus.Propose).
OneProposal == \A b, c \in proposals : b.index = c.index => b = c

\* A final block has the body of a proposal.
FinalsProposed == \A f \in finals : \E b \in proposals : SameBody(f, b)

\* So does a block of a chain, and its index is its place.
ChainProposed ==
    \A n \in Node : \A i \in DOMAIN blocks[n] :
        /\ blocks[n][i].index = i - 1
        /\ \E b \in proposals : SameBody(blocks[n][i], b)

ChainInv == OneProposal /\ FinalsProposed /\ ChainProposed

\* A body compared with a third one.
LEMMA SameBodyTransitive ==
    ASSUME NEW x, NEW y, NEW z, SameBody(x, y), SameBody(y, z)
    PROVE  SameBody(x, z)
  BY DEF SameBody

\* How an append changes the chains.
LEMMA AppendFacts ==
    ASSUME TypeOK, NEW n \in Node, NEW f, NEW s, AppendsBlock(n, f, s)
    PROVE  /\ \A m \in Node : m # n => blocks'[m] = blocks[m]
           /\ Len(blocks'[n]) = Len(blocks[n]) + 1
           /\ \A i \in DOMAIN blocks[n] : blocks'[n][i] = blocks[n][i]
           /\ blocks'[n][Len(blocks[n]) + 1] = s
           /\ DOMAIN blocks'[n] = 1..(Len(blocks[n]) + 1)
           /\ Len(blocks[n]) \in Nat
           /\ DOMAIN blocks[n] = 1..Len(blocks[n])
  <1>1. blocks[n] \in Seq(FinalType) /\ s \in FinalType /\ blocks \in [Node -> Seq(FinalType)]
    BY DEF TypeOK, AppendsBlock
  <1>2. blocks' = [blocks EXCEPT ![n] = Append(@, s)]
    BY DEF AppendsBlock
  <1>3. blocks'[n] = Append(blocks[n], s)
    BY <1>1, <1>2
  <1> QED
    BY <1>1, <1>2, <1>3, SMTT(30)

\* The chains start empty.
LEMMA ChainInit == Init => ChainInv
  BY SMTT(30) DEF Init, EngineInit, BusInit, ChainInv, OneProposal, FinalsProposed, ChainProposed

\* Every step keeps the agreement of chains with the bus: only a commit of the
\* final block on the bus extends a chain.
LEMMA ChainNext ==
    ASSUME TypeOK, ChainInv, [Next]_vars
    PROVE  ChainInv'
  <1>1. CASE UNCHANGED <<blocks, proposals, finals>>
    BY <1>1 DEF ChainInv, OneProposal, FinalsProposed, ChainProposed
  <1>2. ASSUME NEW n \in Node, Propose(n)
        PROVE  ChainInv'
    <2>1. /\ proposals' = IF \E q \in proposals : q.index = Candidate(n).index
                          THEN proposals ELSE proposals \cup {Candidate(n)}
          /\ UNCHANGED <<blocks, finals>>
      BY <1>2 DEF Propose, AfterPropose, BusPropose
    <2>2. OneProposal'
      BY <2>1 DEF ChainInv, OneProposal
    <2>3. proposals \subseteq proposals'
      BY <2>1
    <2>4. FinalsProposed' /\ ChainProposed'
      BY <2>1, <2>3 DEF ChainInv, FinalsProposed, ChainProposed
    <2> QED
      BY <2>2, <2>4 DEF ChainInv
  <1>3. ASSUME NEW n \in Node, PublishFinal(n)
        PROVE  ChainInv'
    <2>1. PICK b \in proposals : /\ BusPublishFinal(FinalBlock(n, b))
                                 /\ UNCHANGED blocks
      BY <1>3 DEF PublishFinal, Proposed, AfterPublishFinal
    <2>2. SameBody(FinalBlock(n, b), b)
      BY FinalBlockTyped
    <2>3. UNCHANGED <<proposals, blocks>> /\ finals' \subseteq finals \cup {FinalBlock(n, b)}
      BY <2>1 DEF BusPublishFinal
    <2>4. FinalsProposed'
      BY <2>2, <2>3 DEF ChainInv, FinalsProposed
    <2> QED
      BY <2>3, <2>4 DEF ChainInv, OneProposal, ChainProposed
  <1>4. ASSUME NEW n \in Node, Appends(n)
        PROVE  ChainInv'
    <2>1. PICK f, s : AppendsBlock(n, f, s)
      BY <1>4 DEF Appends
    <2>2. /\ UNCHANGED <<proposals, finals>>
          /\ f \in finals /\ f.index = Len(blocks[n]) /\ SameBody(s, f)
      BY <2>1 DEF AppendsBlock, cycle
    <2>3. PICK b \in proposals : SameBody(f, b)
      BY <2>2 DEF ChainInv, FinalsProposed
    <2>4. SameBody(s, b) /\ s.index = Len(blocks[n])
      BY <2>2, <2>3 DEF SameBody
    <2>5. ASSUME NEW m \in Node, NEW i \in DOMAIN blocks'[m]
          PROVE  blocks'[m][i].index = i - 1 /\ \E c \in proposals : SameBody(blocks'[m][i], c)
      <3>1. CASE m = n /\ i = Len(blocks[n]) + 1
        BY <2>1, <2>4, <3>1, AppendFacts, SMTT(30)
      <3>2. CASE ~(m = n /\ i = Len(blocks[n]) + 1)
        <4>1. i \in DOMAIN blocks[m] /\ blocks'[m][i] = blocks[m][i]
          BY <2>1, <3>2, AppendFacts, SMTT(30)
        <4> QED
          BY <4>1 DEF ChainInv, ChainProposed
      <3> QED
        BY <3>1, <3>2
    <2>6. ChainProposed'
      BY <2>2, <2>5 DEF ChainProposed
    <2> QED
      BY <2>2, <2>6 DEF ChainInv, OneProposal, FinalsProposed
  <1>5. CASE UNCHANGED vars
    BY <1>1, <1>5, ZenonT(60) DEF vars, engineVars, busVars
  <1>6. ASSUME NEW n \in Node,
               \/ Client(n) \/ Start(n) \/ PublishVRFProof(n) \/ Select(n) \/ Build(n)
               \/ SignOwn(n) \/ Accepts(n) \/ Quorum(n) \/ Aborts(n)
        PROVE  UNCHANGED <<blocks, proposals, finals>>
    BY <1>6 DEF Client, Enqueue, Submit, AcceptEntry, Publish, Start, StartCycle,
       PublishVRFProof, AfterVRFProof, BusPublishVRFProof, Select, SelectProposer, Build,
       BuildCandidate, SignOwn, AfterSign, BusPublishSig, Accepts, Quorum, CheckQuorum,
       Aborts, Rollback, busVars
  <1> QED
    BY <1>1, <1>2, <1>3, <1>4, <1>5, <1>6, StepCases

\* Every chain is a prefix of what the bus holds as proposals and final blocks.
THEOREM ChainCorrect == Spec => []ChainInv
  <1>1. TypeOK /\ ChainInv /\ [Next]_vars => ChainInv'
    BY ChainNext
  <1> QED
    BY ChainInit, TypeCorrect, <1>1, PTL DEF Spec

\* No two validators hold different blocks at one height: a height has one
\* proposal on the bus and nobody appends anything else.
THEOREM AgreementHolds == Spec => []Agreement
  <1>1. TypeOK /\ ChainInv => Agreement
    <2> SUFFICES ASSUME TypeOK, ChainInv, NEW m \in Node, NEW n \in Node,
                        NEW i \in DOMAIN blocks[m] \cap DOMAIN blocks[n]
                 PROVE  ComputeBlockHash(blocks[m][i]) = ComputeBlockHash(blocks[n][i])
      BY DEF Agreement
    <2>1. PICK b \in proposals : SameBody(blocks[m][i], b)
      BY DEF ChainInv, ChainProposed
    <2>2. PICK c \in proposals : SameBody(blocks[n][i], c)
      BY DEF ChainInv, ChainProposed
    <2>3. blocks[m][i].index = blocks[n][i].index
      BY DEF ChainInv, ChainProposed
    <2>4. b = c
      BY <2>1, <2>2, <2>3 DEF ChainInv, OneProposal, SameBody
    <2> QED
      BY <2>1, <2>2, <2>4, SameBodySameHash
  <1> QED
    BY TypeCorrect, ChainCorrect, <1>1, PTL

-----------------------------------------------------------------------------
\* A proof on the bus is for a cycle its signer has reached.
ProofsBehind == \A q \in proofs : q.cycle <= cycle(q.signer)

\* A signer has one proof per cycle (MemoryBus.PublishVRFProof).
OneProof ==
    \A q, r \in proofs : q.cycle = r.cycle /\ q.signer = r.signer => q = r

\* A node past the start of PREPARE has its current alpha on the bus.
OwnProof == \A n \in Node : pc[n] \notin {"idle", "vrf"} => VRFProof(n) \in proofs

\* A node that has elected a proposer holds every peer's proof for its alpha.
Elected ==
    \A n \in Node : pc[n] \notin {"idle", "vrf", "elect"} => ProofSetValid(n, proofs)

\* A committed height was proved by everyone.
PeersProved ==
    \A n, p \in Node : \A c \in 0..(Len(blocks[n]) - 1) :
        \E q \in proofs : q.cycle = c /\ q.signer = p

ProofInv ==
    ProofsBehind /\ OneProof /\ OwnProof /\ StableAlpha /\ Elected /\ PeersProved

\* No proof is published at the start.
LEMMA ProofInit == Init => ProofInv
  BY SMTT(30) DEF Init, EngineInit, BusInit, ProofInv, ProofsBehind, OneProof, OwnProof, StableAlpha,
     Elected, PeersProved

\* Steps that leave the proofs and the chains alone, and do not start or end a
\* cycle, only have to respect the guards of the election.
LEMMA ProofStep ==
    ASSUME TypeOK, ProofInv, NEW n \in Node, NEW to,
           UNCHANGED <<blocks, proofs, snap>>, pc[n] # "idle", to # "idle",
           pc' = [pc EXCEPT ![n] = to], \A m \in Node : m # n => st'[m] = st[m],
           to \notin {"idle", "vrf"} => pc[n] # "vrf",
           to \notin {"idle", "vrf", "elect"} => ProofSetValid(n, proofs)
    PROVE  ProofInv'
  <1>1. ProofsBehind' /\ OneProof' /\ PeersProved'
    BY SMTT(30) DEF ProofInv, ProofsBehind, OneProof, PeersProved, cycle
  <1>2. OwnProof'
    BY ZenonT(60) DEF ProofInv, OwnProof, VRFProof, cycle, TypeOK
  <1>3. Elected'
    BY DEF ProofInv, Elected, ProofSetValid, cycle, TypeOK
  <1>4. StableAlpha'
    BY DEF ProofInv, StableAlpha, AlphaRoot, cycle, TypeOK
  <1> QED
    BY <1>1, <1>2, <1>3, <1>4 DEF ProofInv

\* Every step keeps the proof set and the roots behind it consistent.
LEMMA ProofNext ==
    ASSUME TypeOK, ProofInv, [Next]_vars
    PROVE  ProofInv'
  <1>1. CASE UNCHANGED <<pc, blocks, proofs, snap, st>>
    <2>1. ProofsBehind' /\ OneProof' /\ PeersProved'
      BY <1>1, SMTT(30) DEF ProofInv, ProofsBehind, OneProof, PeersProved, cycle
    <2>2. OwnProof'
      BY <1>1 DEF ProofInv, OwnProof, VRFProof, cycle
    <2>3. Elected'
      BY <1>1 DEF ProofInv, Elected, ProofSetValid, cycle
    <2>4. StableAlpha'
      BY <1>1 DEF ProofInv, StableAlpha, AlphaRoot, cycle
    <2> QED
      BY <2>1, <2>2, <2>3, <2>4 DEF ProofInv
  <1>2. ASSUME NEW n \in Node, Start(n)
        PROVE  ProofInv'
    <2>1. /\ pc[n] = "idle" /\ pc' = [pc EXCEPT ![n] = "vrf"]
          /\ snap' = [snap EXCEPT ![n] = st[n]]
          /\ UNCHANGED <<blocks, proofs, st>>
      BY <1>2 DEF Start, StartCycle, busVars
    <2>2. ProofsBehind' /\ OneProof' /\ PeersProved'
      BY <2>1, SMTT(30) DEF ProofInv, ProofsBehind, OneProof, PeersProved, cycle
    <2>3. OwnProof' /\ Elected'
      BY <2>1, ZenonT(60) DEF ProofInv, OwnProof, Elected, VRFProof, ProofSetValid, cycle, TypeOK
    <2>4. StableAlpha'
      BY <2>1 DEF ProofInv, StableAlpha, AlphaRoot, cycle, TypeOK
    <2> QED
      BY <2>2, <2>3, <2>4 DEF ProofInv
  <1>3. ASSUME NEW n \in Node, PublishVRFProof(n)
        PROVE  ProofInv'
    <2> DEFINE p == VRFProof(n)
    <2>1. /\ pc[n] = "vrf" /\ pc' = [pc EXCEPT ![n] = "elect"]
          /\ proofs' = IF \E q \in proofs : q.cycle = p.cycle /\ q.signer = p.signer
                       THEN proofs ELSE proofs \cup {p}
          /\ UNCHANGED <<blocks, snap, st>>
      BY <1>3 DEF PublishVRFProof, AfterVRFProof, Goto, BusPublishVRFProof
    <2>2. p = [cycle |-> cycle(n), signer |-> n, root |-> snap[n]]
      BY ZenonT(60) DEF VRFProof
    <2>3. cycle(n) \in Nat /\ proofs \subseteq [cycle : Nat, signer : Node, root : SUBSET Entry]
      BY PrevHashType, ZenonT(60) DEF TypeOK
    <2>4. p \in proofs'
      <3>1. CASE \E q \in proofs : q.cycle = p.cycle /\ q.signer = p.signer
        <4>1. PICK q \in proofs : q.cycle = cycle(n) /\ q.signer = n
          BY <2>2, <3>1, SMTT(30)
        <4>2. q.root = snap[n]
          BY <2>1, <4>1 DEF ProofInv, StableAlpha, AlphaRoot
        <4>3. q = p
          BY <2>2, <2>3, <4>1, <4>2
        <4> QED
          BY <2>1, <4>1, <4>3
      <3>2. CASE ~\E q \in proofs : q.cycle = p.cycle /\ q.signer = p.signer
        BY <2>1, <3>2
      <3> QED
        BY <3>1, <3>2
    <2>5. proofs \subseteq proofs' /\ \A q \in proofs' : q \in proofs \/ q = p
      BY <2>1
    <2>6. ProofsBehind'
      BY <2>1, <2>2, <2>3, <2>5, SMTT(30) DEF ProofInv, ProofsBehind, cycle
    <2>7. OneProof'
      BY <2>1, <2>5 DEF ProofInv, OneProof
    <2>8. PeersProved'
      BY <2>1, <2>5, SMTT(30) DEF ProofInv, PeersProved
    <2>9. OwnProof'
      BY <2>1, <2>4, <2>5, ZenonT(60) DEF ProofInv, OwnProof, VRFProof, cycle, TypeOK
    <2>10. Elected'
      BY <2>1, <2>5 DEF ProofInv, Elected, ProofSetValid, cycle, TypeOK
    <2>11. StableAlpha'
      BY <2>1, <2>2, <2>5, Domains, SMTT(30) DEF ProofInv, StableAlpha, AlphaRoot, cycle
    <2> QED
      BY <2>6, <2>7, <2>8, <2>9, <2>10, <2>11 DEF ProofInv
  <1>4. ASSUME NEW n \in Node, Select(n)
        PROVE  ProofInv'
    <2> DEFINE to == IF leader[cycle(n)] = n THEN "build" ELSE "await"
    <2>1. /\ pc[n] = "elect" /\ pc' = [pc EXCEPT ![n] = to]
          /\ ProofSetValid(n, proofs) /\ UNCHANGED <<blocks, proofs, snap, st>>
      BY <1>4 DEF Select, SelectProposer, Goto, busVars
    <2> QED
      BY <2>1, ProofStep
  <1>5. ASSUME NEW n \in Node, NEW from, NEW to, Goto(n, from, to),
               from \notin {"idle", "vrf", "elect"}, to # "idle", UNCHANGED <<blocks, proofs, snap>>,
               \A m \in Node : m # n => st'[m] = st[m]
        PROVE  ProofInv'
    <2>1. ProofSetValid(n, proofs)
      BY <1>5 DEF ProofInv, Elected, Goto
    <2> QED
      BY <1>5, <2>1, ProofStep, ZenonT(60) DEF Goto
  <1>6. ASSUME NEW n \in Node, Appends(n)
        PROVE  ProofInv'
    <2>1. PICK f, s : AppendsBlock(n, f, s)
      BY <1>6 DEF Appends
    <2>2. /\ pc[n] \in {"commit", "append"} /\ pc' = [pc EXCEPT ![n] = "idle"]
          /\ UNCHANGED <<st, snap, proofs>>
      BY <2>1 DEF AppendsBlock
    <2>3. /\ \A m \in Node : m # n => cycle(m)' = cycle(m)
          /\ cycle(n)' = cycle(n) + 1 /\ cycle(n) \in Nat
      BY <2>1, AppendFacts DEF cycle
    <2>4. \A q \in proofs : q.signer \in Node /\ q.cycle \in Nat
      BY DEF TypeOK
    <2>5. ProofsBehind' /\ OneProof'
      BY <2>2, <2>3, <2>4, PrevHashType, SMTT(30) DEF ProofInv, ProofsBehind, OneProof
    <2>6. OwnProof'
      BY <2>2, <2>3, ZenonT(60) DEF ProofInv, OwnProof, VRFProof, TypeOK
    <2>7. Elected'
      BY <2>2, <2>3 DEF ProofInv, Elected, ProofSetValid, TypeOK
    <2>8. StableAlpha'
      BY <2>2, <2>3, <2>4, SMTT(30) DEF ProofInv, ProofsBehind, StableAlpha, AlphaRoot, TypeOK
    <2>9. PeersProved'
      <3> SUFFICES ASSUME NEW m \in Node, NEW p \in Node, NEW c \in 0..(cycle(m)' - 1)
                   PROVE  \E q \in proofs : q.cycle = c /\ q.signer = p
        BY <2>2, SMTT(30) DEF PeersProved, cycle
      <3>1. CASE m = n /\ c = cycle(n)
        <4>1. [cycle |-> cycle(n), signer |-> p, root |-> snap[n]] \in proofs
          BY <2>2 DEF ProofInv, Elected, ProofSetValid, OwnProof, VRFProof
        <4> QED
          BY <3>1, <4>1
      <3>2. CASE ~(m = n /\ c = cycle(n))
        <4>1. c \in 0..(Len(blocks[m]) - 1)
          BY <2>3, <3>2, PrevHashType, SMTT(30) DEF cycle
        <4> QED
          BY <4>1, SMTT(30) DEF ProofInv, PeersProved
      <3> QED
        BY <3>1, <3>2
    <2> QED
      BY <2>5, <2>6, <2>7, <2>8, <2>9, ZenonT(60) DEF ProofInv
  <1>7. ASSUME NEW n \in Node, Aborts(n)
        PROVE  ProofInv'
    <2>1. /\ pc[n] # "idle" /\ pc' = [pc EXCEPT ![n] = "idle"]
          /\ st' = [st EXCEPT ![n] = snap[n]]
          /\ UNCHANGED <<blocks, proofs, snap>>
      BY <1>7 DEF Aborts, Rollback, busVars
    <2>2. ProofsBehind' /\ OneProof' /\ PeersProved'
      BY <2>1, SMTT(30) DEF ProofInv, ProofsBehind, OneProof, PeersProved, cycle
    <2>3. OwnProof' /\ Elected'
      BY <2>1, ZenonT(60) DEF ProofInv, OwnProof, Elected, VRFProof, ProofSetValid, cycle, TypeOK
    <2>4. StableAlpha'
      BY <2>1 DEF ProofInv, StableAlpha, AlphaRoot, cycle, TypeOK
    <2> QED
      BY <2>2, <2>3, <2>4 DEF ProofInv
  <1>8. ASSUME NEW n \in Node,
               Build(n) \/ Propose(n) \/ SignOwn(n) \/ Accepts(n) \/ Quorum(n) \/ PublishFinal(n)
        PROVE  \E from, to : /\ Goto(n, from, to)
                             /\ from \notin {"idle", "vrf", "elect"} /\ to # "idle"
                             /\ UNCHANGED <<blocks, proofs, snap>>
                             /\ \A m \in Node : m # n => st'[m] = st[m]
    <2>1. \/ Goto(n, "build", "propose") \/ Goto(n, "propose", "sign") \/ Goto(n, "sign", "quorum")
          \/ Goto(n, "await", "quorum") \/ Goto(n, "quorum", "commit") \/ Goto(n, "commit", "append")
      BY <1>8, ZenonT(60) DEF Build, BuildCandidate, Propose, AfterPropose, SignOwn, AfterSign, Accepts,
         Quorum, CheckQuorum, PublishFinal, AfterPublishFinal
    <2>2. UNCHANGED <<blocks, proofs, snap>>
      BY <1>8, ZenonT(60) DEF Build, BuildCandidate, Propose, AfterPropose, BusPropose, SignOwn, AfterSign,
         BusPublishSig, Accepts, Quorum, CheckQuorum, PublishFinal, AfterPublishFinal,
         BusPublishFinal, busVars
    <2>3. \A m \in Node : m # n => st'[m] = st[m]
      BY <1>8 DEF Build, BuildCandidate, Propose, AfterPropose, SignOwn, AfterSign, Accepts,
         Quorum, CheckQuorum, PublishFinal, AfterPublishFinal, TypeOK
    <2> QED
      BY <2>1, <2>2, <2>3
  <1>9. ASSUME NEW n \in Node, Client(n)
        PROVE  UNCHANGED <<pc, blocks, proofs, snap, st>>
    BY <1>9 DEF Client, Enqueue, Submit, AcceptEntry, Publish, busVars
  <1>10. CASE UNCHANGED vars
    BY <1>1, <1>10 DEF vars, engineVars, busVars
  <1> QED
    BY <1>1, <1>2, <1>3, <1>4, <1>5, <1>6, <1>7, <1>8, <1>9, <1>10, StepCases, ZenonT(60)

\* The proofs on the bus and the positions of the nodes fit in every state.
THEOREM ProofCorrect == Spec => []ProofInv
  <1>1. TypeOK /\ ProofInv /\ [Next]_vars => ProofInv'
    BY ProofNext
  <1> QED
    BY ProofInit, TypeCorrect, <1>1, PTL DEF Spec

\* An aborted attempt leaves a node's alpha as its first proof of the cycle
\* has it, for any number of aborts (stateSnapshot of RunCycle).
THEOREM StableAlphaHolds == Spec => []StableAlpha
  <1>1. ProofInv => StableAlpha
    BY DEF ProofInv
  <1> QED
    BY ProofCorrect, <1>1, PTL

\* No validator is two blocks behind another, for any number of validators:
\* the proof set of a cycle is the whole validator set (SelectProposerVRF).
THEOREM LagHolds == Spec => []LagAtMostOne
  <1>1. TypeOK /\ ProofInv => LagAtMostOne
    <2> SUFFICES ASSUME TypeOK, ProofInv, NEW m \in Node, NEW n \in Node
                 PROVE  Len(blocks[m]) <= Len(blocks[n]) + 1
      BY DEF LagAtMostOne
    <2>1. Len(blocks[m]) \in Nat /\ Len(blocks[n]) \in Nat
      BY SMTT(30) DEF TypeOK
    <2>2. CASE Len(blocks[m]) = 0
      BY <2>1, <2>2, SMTT(30)
    <2>3. CASE Len(blocks[m]) # 0
      <3>1. Len(blocks[m]) - 1 \in 0..(Len(blocks[m]) - 1)
        BY <2>1, <2>3, SMTT(30)
      <3>2. PICK q \in proofs : q.cycle = Len(blocks[m]) - 1 /\ q.signer = n
        BY <3>1, SMTT(30) DEF ProofInv, PeersProved
      <3>3. q.cycle <= Len(blocks[n])
        BY <3>2 DEF ProofInv, ProofsBehind, cycle
      <3> QED
        BY <2>1, <3>2, <3>3, SMTT(30)
    <2> QED
      BY <2>2, <2>3
  <1> QED
    BY TypeCorrect, ProofCorrect, <1>1, PTL

-----------------------------------------------------------------------------
\* Who is where in PREPARE.
Roles ==
    \A n \in Node :
        /\ pc[n] \in {"build", "propose", "sign", "append"} => leader[cycle(n)] = n
        /\ pc[n] = "await" => leader[cycle(n)] # n

\* The tree before and after the proposer inserts its batch.
TreeInPrepare ==
    \A n \in Node :
        /\ pc[n] \in {"vrf", "elect", "build", "await"} => st[n] = snap[n]
        /\ pc[n] \in {"propose", "sign"} => st[n] = snap[n] \cup batch[n]

\* A proposal is signed by the leader of its cycle, on the root of the leader's
\* proof, and nobody is still below its height.
ProposalFacts ==
    \A b \in proposals :
        /\ b.proposer = leader[b.index]
        /\ b.sig = SignDilithium(b.proposer, ComputeBlockHash(b))
        /\ \E q \in proofs : /\ q.cycle = b.index /\ q.signer = b.proposer
                             /\ b.root = q.root \cup b.anchored
        /\ \A p \in Node : b.index <= Len(blocks[p])

\* A proposal is linked to the proposal of the cycle before.
ProposalsLinked ==
    \A b \in proposals :
        IF b.index = 0 THEN b.prev = <<>>
        ELSE \E c \in proposals : c.index = b.index - 1 /\ b.prev = ComputeBlockHash(c)

ProposalInv == Roles /\ TreeInPrepare /\ ProposalFacts /\ ProposalsLinked

\* No proposal is published at the start.
LEMMA ProposalInit == Init => ProposalInv
  BY DEF Init, EngineInit, BusInit, ProposalInv, Roles, TreeInPrepare, ProposalFacts, ProposalsLinked

\* The link of a candidate: the last block of the proposer's chain is the
\* proposal of the cycle before.
LEMMA PrevHashLinks ==
    ASSUME TypeOK, ChainInv, NEW n \in Node
    PROVE  IF cycle(n) = 0 THEN prevHash(n) = <<>>
           ELSE \E c \in proposals : c.index = cycle(n) - 1 /\ prevHash(n) = ComputeBlockHash(c)
  <1>1. blocks[n] \in Seq(FinalType) /\ cycle(n) = Len(blocks[n]) /\ Len(blocks[n]) \in Nat
    BY SMTT(30) DEF TypeOK, cycle
  <1>2. CASE cycle(n) = 0
    BY <1>1, <1>2, SMTT(30) DEF prevHash
  <1>3. CASE cycle(n) # 0
    <2>1. Len(blocks[n]) \in DOMAIN blocks[n] /\ Len(blocks[n]) > 0
      BY <1>1, <1>3, SMTT(30)
    <2>2. PICK c \in proposals : SameBody(blocks[n][Len(blocks[n])], c)
      BY <2>1 DEF ChainInv, ChainProposed
    <2>3. c.index = Len(blocks[n]) - 1
      BY <2>1, <2>2 DEF ChainInv, ChainProposed, SameBody
    <2>4. prevHash(n) = ComputeBlockHash(c)
      BY <2>1, <2>2, SameBodySameHash DEF prevHash
    <2> QED
      BY <1>1, <1>3, <2>3, <2>4
  <1> QED
    BY <1>2, <1>3

\* Chains only grow, so what a proposal says of its height stays true.
LEMMA FactsKept ==
    ASSUME ProposalInv, UNCHANGED <<leader, proposals>>, proofs \subseteq proofs',
           \A p \in Node : Len(blocks[p]) \in Nat /\ Len(blocks'[p]) \in Nat
                           /\ Len(blocks[p]) <= Len(blocks'[p]),
           \A b \in proposals : b.index \in Nat
    PROVE  ProposalFacts' /\ ProposalsLinked'
  <1>1. ProposalsLinked'
    BY DEF ProposalInv, ProposalsLinked
  <1>2. ASSUME NEW b \in proposals
        PROVE  \A p \in Node : b.index <= Len(blocks'[p])
    BY SMTT(30) DEF ProposalInv, ProposalFacts
  <1>3. ProposalFacts'
    BY <1>2 DEF ProposalInv, ProposalFacts
  <1> QED
    BY <1>1, <1>3

\* Every step keeps each proposal linked to the proposal before it.
LEMMA ProposalNext ==
    ASSUME TypeOK, TypeOK', ChainInv, ProofInv, ProposalInv, [Next]_vars
    PROVE  ProposalInv'
  <1>1. /\ \A b \in proposals : b.index \in Nat
        /\ \A p \in Node : Len(blocks[p]) \in Nat /\ Len(blocks'[p]) \in Nat
    BY SMTT(30) DEF TypeOK, CandidateType
  <1>2. CASE UNCHANGED <<pc, blocks, st, snap, batch, leader, proofs, proposals>>
    BY <1>2 DEF ProposalInv, Roles, TreeInPrepare, ProposalFacts, ProposalsLinked, cycle
  <1>3. ASSUME NEW n \in Node, Propose(n)
        PROVE  ProposalInv'
    <2> DEFINE c == Candidate(n)
    <2>1. /\ pc[n] = "propose" /\ pc' = [pc EXCEPT ![n] = "sign"]
          /\ proposals' = IF \E q \in proposals : q.index = c.index
                          THEN proposals ELSE proposals \cup {c}
          /\ UNCHANGED <<blocks, st, snap, batch, leader, proofs>>
      BY <1>3 DEF Propose, AfterPropose, Goto, BusPropose
    <2>2. /\ c.index = cycle(n) /\ c.prev = prevHash(n) /\ c.proposer = n
          /\ c.anchored = batch[n] /\ c.root = st[n]
          /\ c.sig = SignDilithium(n, ComputeBlockHash(c))
      BY CandidateTyped, ZenonT(60)
    <2> HIDE DEF c
    <2>3. Roles'
      BY <2>1, ZenonT(60) DEF ProposalInv, Roles, cycle, TypeOK
    <2>4. TreeInPrepare'
      BY <2>1 DEF ProposalInv, TreeInPrepare, TypeOK
    <2>5. leader[cycle(n)] = n /\ st[n] = snap[n] \cup batch[n]
      BY <2>1 DEF ProposalInv, Roles, TreeInPrepare
    <2>6. VRFProof(n) \in proofs /\ ProofSetValid(n, proofs)
      BY <2>1, ZenonT(60) DEF ProofInv, OwnProof, Elected
    <2>7. \E q \in proofs : /\ q.cycle = c.index /\ q.signer = c.proposer
                            /\ c.root = q.root \cup c.anchored
      BY <2>2, <2>5, <2>6 DEF VRFProof
    <2>8. ASSUME NEW p \in Node
          PROVE  c.index <= Len(blocks[p])
      <3>1. CASE p = n
        BY <1>1, <2>2, <3>1, SMTT(30) DEF cycle
      <3>2. CASE p # n
        <4> DEFINE q == [cycle |-> cycle(n), signer |-> p, root |-> snap[n]]
        <4>1. q \in proofs
          BY <2>6, <3>2 DEF ProofSetValid
        <4>2. q.cycle <= cycle(q.signer)
          BY <4>1, ZenonT(60) DEF ProofInv, ProofsBehind
        <4> QED
          BY <2>2, <4>2 DEF cycle
      <3> QED
        BY <3>1, <3>2
    <2>9. ASSUME NEW b \in proposals'
          PROVE  /\ b.proposer = leader[b.index]
                 /\ b.sig = SignDilithium(b.proposer, ComputeBlockHash(b))
                 /\ \E q \in proofs : /\ q.cycle = b.index /\ q.signer = b.proposer
                                      /\ b.root = q.root \cup b.anchored
                 /\ \A p \in Node : b.index <= Len(blocks[p])
      <3>1. CASE b \in proposals
        BY <3>1 DEF ProposalInv, ProposalFacts
      <3>2. CASE b = c
        BY <2>2, <2>5, <2>7, <2>8, <3>2, ZenonT(60)
      <3> QED
        BY <2>1, <3>1, <3>2, ZenonT(60)
    <2>10. ProposalFacts'
      BY <2>1, <2>9, ZenonT(60) DEF ProposalFacts
    <2>11. ASSUME NEW b \in proposals'
           PROVE  IF b.index = 0 THEN b.prev = <<>>
                  ELSE \E d \in proposals' : d.index = b.index - 1 /\ b.prev = ComputeBlockHash(d)
      <3>1. proposals \subseteq proposals'
        BY <2>1
      <3>2. CASE b \in proposals
        BY <3>1, <3>2 DEF ProposalInv, ProposalsLinked
      <3>3. CASE b = c
        BY <2>2, <3>1, <3>3, PrevHashLinks
      <3> QED
        BY <2>1, <3>2, <3>3
    <2>12. ProposalsLinked'
      BY <2>11 DEF ProposalsLinked
    <2> QED
      BY <2>3, <2>4, <2>10, <2>12, ZenonT(60) DEF ProposalInv
  <1>4. ASSUME NEW n \in Node, Appends(n)
        PROVE  ProposalInv'
    <2>1. PICK f, s : AppendsBlock(n, f, s)
      BY <1>4, ZenonT(60) DEF Appends
    <2>2. /\ pc[n] \in {"commit", "append"} /\ pc' = [pc EXCEPT ![n] = "idle"]
          /\ batch' = [batch EXCEPT ![n] = {}]
          /\ UNCHANGED <<st, snap, leader, proofs, proposals>>
      BY <2>1, ZenonT(60) DEF AppendsBlock
    <2>3. \A m \in Node : m # n => blocks'[m] = blocks[m]
      BY <2>1, AppendFacts, ZenonT(60)
    <2>4. Len(blocks'[n]) = Len(blocks[n]) + 1
      BY <2>1, AppendFacts
    <2>5. \A p \in Node : Len(blocks[p]) <= Len(blocks'[p])
      BY <1>1, <2>3, <2>4, SMTT(30)
    <2>6. ProposalFacts' /\ ProposalsLinked'
      BY <1>1, <2>2, <2>5, FactsKept, ZenonT(60)
    <2>7. Roles'
      BY <2>2, <2>3, Domains, ZenonT(60) DEF ProposalInv, Roles, cycle
    <2>8. TreeInPrepare'
      BY <2>2, Domains DEF ProposalInv, TreeInPrepare
    <2> QED
      BY <2>6, <2>7, <2>8 DEF ProposalInv
  <1>5. ASSUME NEW n \in Node, UNCHANGED <<blocks, leader, proposals>>, proofs \subseteq proofs',
               Roles', TreeInPrepare'
        PROVE  ProposalInv'
    BY <1>1, <1>5, FactsKept, SMTT(30) DEF ProposalInv
  <1>6. ASSUME NEW n \in Node, Start(n)
        PROVE  ProposalInv'
    <2>1. /\ pc[n] = "idle" /\ pc' = [pc EXCEPT ![n] = "vrf"]
          /\ snap' = [snap EXCEPT ![n] = st[n]]
          /\ UNCHANGED <<blocks, st, batch, leader, proofs, proposals>>
      BY <1>6, ZenonT(60) DEF Start, StartCycle, busVars
    <2>2. Roles'
      BY <2>1, Domains DEF ProposalInv, Roles, cycle
    <2>3. TreeInPrepare'
      BY <2>1, Domains DEF ProposalInv, TreeInPrepare
    <2> QED
      BY <1>5, <2>1, <2>2, <2>3, ZenonT(60)
  <1>7. ASSUME NEW n \in Node, PublishVRFProof(n)
        PROVE  ProposalInv'
    <2>1. /\ pc[n] = "vrf" /\ pc' = [pc EXCEPT ![n] = "elect"] /\ proofs \subseteq proofs'
          /\ UNCHANGED <<blocks, st, snap, batch, leader, proposals>>
      BY <1>7 DEF PublishVRFProof, AfterVRFProof, Goto, BusPublishVRFProof
    <2>2. Roles'
      BY <2>1, Domains DEF ProposalInv, Roles, cycle
    <2>3. TreeInPrepare'
      BY <2>1, Domains DEF ProposalInv, TreeInPrepare
    <2> QED
      BY <1>5, <2>1, <2>2, <2>3
  <1>8. ASSUME NEW n \in Node, Select(n)
        PROVE  ProposalInv'
    <2>1. /\ pc[n] = "elect" /\ pc' = [pc EXCEPT ![n] = IF leader[cycle(n)] = n THEN "build" ELSE "await"]
          /\ UNCHANGED <<blocks, st, snap, batch, leader, proofs, proposals>>
      BY <1>8, ZenonT(60) DEF Select, SelectProposer, Goto, busVars
    <2>2. Roles'
      BY <2>1, ZenonT(60) DEF ProposalInv, Roles, cycle, TypeOK
    <2>3. TreeInPrepare'
      BY <2>1 DEF ProposalInv, TreeInPrepare, TypeOK
    <2> QED
      BY <1>5, <2>1, <2>2, <2>3, ZenonT(60)
  <1>9. ASSUME NEW n \in Node, Build(n)
        PROVE  ProposalInv'
    <2>1. /\ pc[n] = "build" /\ pc' = [pc EXCEPT ![n] = "propose"]
          /\ batch' = [batch EXCEPT ![n] = pool] /\ st' = [st EXCEPT ![n] = @ \cup pool]
          /\ UNCHANGED <<blocks, snap, leader, proofs, proposals>>
      BY <1>9, ZenonT(60) DEF Build, BuildCandidate, Goto, busVars
    <2>2. Roles'
      BY <2>1, ZenonT(60) DEF ProposalInv, Roles, cycle, TypeOK
    <2>3. TreeInPrepare'
      BY <2>1, ZenonT(60) DEF ProposalInv, TreeInPrepare, TypeOK
    <2> QED
      BY <1>5, <2>1, <2>2, <2>3
  <1>10. ASSUME NEW n \in Node, Accepts(n)
         PROVE  ProposalInv'
    <2>1. PICK b : /\ pc[n] = "await" /\ pc' = [pc EXCEPT ![n] = "quorum"]
                   /\ st' = [st EXCEPT ![n] = @ \cup b.anchored]
                   /\ UNCHANGED <<blocks, snap, batch, leader, proofs, proposals>>
      BY <1>10, ZenonT(60) DEF Accepts, Goto, BusPublishSig
    <2>2. Roles'
      BY <2>1, Domains, ZenonT(60) DEF ProposalInv, Roles, cycle
    <2>3. TreeInPrepare'
      BY <2>1, Domains, ZenonT(60) DEF ProposalInv, TreeInPrepare
    <2> QED
      BY <1>5, <2>1, <2>2, <2>3, ZenonT(60)
  <1>11. ASSUME NEW n \in Node, SignOwn(n) \/ Quorum(n)
         PROVE  ProposalInv'
    <2>1. PICK to \in {"quorum", "commit"} :
              /\ pc' = [pc EXCEPT ![n] = to]
              /\ UNCHANGED <<blocks, st, snap, batch, leader, proofs, proposals>>
      BY <1>11, ZenonT(60) DEF SignOwn, AfterSign, Goto, BusPublishSig, Quorum, CheckQuorum, busVars
    <2>2. Roles'
      BY <2>1, Domains, ZenonT(60) DEF ProposalInv, Roles, cycle
    <2>3. TreeInPrepare'
      BY <2>1, Domains DEF ProposalInv, TreeInPrepare
    <2> QED
      BY <1>5, <2>1, <2>2, <2>3, ZenonT(60)
  <1>12. ASSUME NEW n \in Node, PublishFinal(n)
         PROVE  ProposalInv'
    <2>1. /\ leader[cycle(n)] = n /\ pc[n] = "commit" /\ pc' = [pc EXCEPT ![n] = "append"]
          /\ UNCHANGED <<blocks, st, snap, batch, leader, proofs, proposals>>
      BY <1>12, ZenonT(60) DEF PublishFinal, AfterPublishFinal, Goto, BusPublishFinal
    <2>2. Roles'
      BY <2>1, Domains, ZenonT(60) DEF ProposalInv, Roles, cycle
    <2>3. TreeInPrepare'
      BY <2>1, Domains DEF ProposalInv, TreeInPrepare
    <2> QED
      BY <1>5, <2>1, <2>2, <2>3, ZenonT(60)
  <1>13. ASSUME NEW n \in Node, Aborts(n)
         PROVE  ProposalInv'
    <2>1. /\ pc' = [pc EXCEPT ![n] = "idle"] /\ st' = [st EXCEPT ![n] = snap[n]]
          /\ batch' = [batch EXCEPT ![n] = {}]
          /\ UNCHANGED <<blocks, snap, leader, proofs, proposals>>
      BY <1>13, ZenonT(60) DEF Aborts, Rollback, busVars
    <2>2. Roles'
      BY <2>1, Domains DEF ProposalInv, Roles, cycle
    <2>3. TreeInPrepare'
      BY <2>1, Domains DEF ProposalInv, TreeInPrepare
    <2> QED
      BY <1>5, <2>1, <2>2, <2>3
  <1>14. ASSUME NEW n \in Node, Client(n)
         PROVE  UNCHANGED <<pc, blocks, st, snap, batch, leader, proofs, proposals>>
    BY <1>14 DEF Client, Enqueue, Submit, AcceptEntry, Publish, busVars
  <1>15. CASE UNCHANGED vars
    BY <1>2, <1>15 DEF vars, engineVars, busVars
  <1> QED
    BY <1>2, <1>3, <1>4, <1>6, <1>7, <1>8, <1>9, <1>10, <1>11, <1>12, <1>13, <1>14, <1>15,
       StepCases, ZenonT(60), ZenonT(60)

\* Every proposal extends the chain of its cycle, in every state.
THEOREM ProposalCorrect == Spec => []ProposalInv
  <1>1. TypeOK /\ TypeOK' /\ ChainInv /\ ProofInv /\ ProposalInv /\ [Next]_vars => ProposalInv'
    BY ProposalNext
  <1> QED
    BY ProposalInit, TypeCorrect, ChainCorrect, ProofCorrect, <1>1, PTL DEF Spec

\* Every chain is linked by hash from its first block, without any validator
\* checking the link (prepare.go 205-248).
THEOREM ChainLinkedHolds == Spec => []ChainLinked
  <1>1. TypeOK /\ ChainInv /\ ProposalInv => ChainLinked
    <2> SUFFICES ASSUME TypeOK, ChainInv, ProposalInv, NEW n \in Node, NEW i \in DOMAIN blocks[n]
                 PROVE  /\ blocks[n][i].index = i - 1
                        /\ blocks[n][i].prev = IF i = 1 THEN <<>>
                                               ELSE ComputeBlockHash(blocks[n][i - 1])
      BY DEF ChainLinked
    <2>1. blocks[n][i].index = i - 1
      BY DEF ChainInv, ChainProposed
    <2>2. PICK b \in proposals : SameBody(blocks[n][i], b)
      BY DEF ChainInv, ChainProposed
    <2>3. b.index = i - 1 /\ blocks[n][i].prev = b.prev
      BY <2>1, <2>2, ZenonT(60) DEF SameBody
    <2>4. i \in Nat \ {0} /\ (i # 1 => i - 1 \in DOMAIN blocks[n])
      BY SMTT(30) DEF TypeOK
    <2>5. CASE i = 1
      BY <2>1, <2>3, <2>5, SMTT(30) DEF ProposalInv, ProposalsLinked
    <2>6. CASE i # 1
      <3>1. PICK c \in proposals : c.index = b.index - 1 /\ b.prev = ComputeBlockHash(c)
        BY <2>3, <2>4, <2>6, SMTT(30) DEF ProposalInv, ProposalsLinked
      <3>2. PICK d \in proposals : SameBody(blocks[n][i - 1], d)
        BY <2>4, <2>6, ZenonT(60) DEF ChainInv, ChainProposed
      <3>3. d.index = i - 1 - 1
        BY <2>4, <2>6, <3>2 DEF ChainInv, ChainProposed, SameBody
      <3>4. c = d
        BY <2>3, <3>1, <3>3 DEF ChainInv, OneProposal
      <3>5. ComputeBlockHash(blocks[n][i - 1]) = ComputeBlockHash(c)
        BY <3>2, <3>4, SameBodySameHash, ZenonT(60)
      <3> QED
        BY <2>1, <2>3, <2>6, <3>1, <3>5, ZenonT(60)
    <2> QED
      BY <2>5, <2>6
  <1> QED
    BY TypeCorrect, ChainCorrect, ProposalCorrect, <1>1, PTL

\* A validator never refuses the proposal it waits for: whoever elected the
\* proposer did so for the root the proposal builds on.
THEOREM ProposalVerifiesHolds == Spec => []ProposalAlwaysVerifies
  <1>1. TypeOK /\ ProofInv /\ ProposalInv => ProposalAlwaysVerifies
    <2> SUFFICES ASSUME TypeOK, ProofInv, ProposalInv, NEW n \in Node,
                        NEW b \in proposals, b.index = cycle(n), pc[n] = "await"
                 PROVE  ProposalVerifies(n, b)
      BY DEF ProposalAlwaysVerifies, Proposed
    <2>1. leader[cycle(n)] # n /\ st[n] = snap[n]
      BY DEF ProposalInv, Roles, TreeInPrepare
    <2>2. /\ b.proposer = leader[cycle(n)]
          /\ b.sig = SignDilithium(b.proposer, ComputeBlockHash(b))
      BY DEF ProposalInv, ProposalFacts
    <2>3. PICK q \in proofs : /\ q.cycle = b.index /\ q.signer = b.proposer
                              /\ b.root = q.root \cup b.anchored
      BY DEF ProposalInv, ProposalFacts
    <2>4. b.proposer \in Node
      BY DEF TypeOK, CandidateType
    <2> DEFINE r == [cycle |-> cycle(n), signer |-> b.proposer, root |-> snap[n]]
    <2>5. r \in proofs
      BY <2>1, <2>2, <2>4, ZenonT(60) DEF ProofInv, Elected, ProofSetValid
    <2>6. q = r
      BY <2>3, <2>5 DEF ProofInv, OneProof
    <2>7. q.root = snap[n]
      BY <2>6, ZenonT(60)
    <2> QED
      BY <2>1, <2>2, <2>3, <2>7 DEF ProposalVerifies, VerifyDilithium
  <1> QED
    BY TypeCorrect, ProofCorrect, ProposalCorrect, <1>1, PTL

-----------------------------------------------------------------------------
\* Entries come from clients: everything in flight has been accepted.
InFlightAccepted ==
    /\ pool \subseteq accepted
    /\ \A n \in Node : batch[n] \subseteq accepted
    /\ \A b \in proposals : b.anchored \subseteq accepted

\* A chain's entries have left the pool, and are not in its owner's next batch.
ChainLeavesPool ==
    \A n \in Node : \A i \in DOMAIN blocks[n] :
        /\ blocks[n][i].anchored \cap pool = {}
        /\ pc[n] \in {"propose", "sign"} => blocks[n][i].anchored \cap batch[n] = {}

\* Proposals of different cycles share no entry.
ProposalsDisjoint ==
    \A b, c \in proposals : b.index # c.index => b.anchored \cap c.anchored = {}

PoolInv == InFlightAccepted /\ ChainLeavesPool /\ ProposalsDisjoint /\ NoEnqueuedEntryLost

\* The pool and the queues start empty.
LEMMA PoolInit == Init => PoolInv
  BY DEF Init, EngineInit, BusInit, PoolInv, InFlightAccepted, ChainLeavesPool, ProposalsDisjoint,
     NoEnqueuedEntryLost

\* Every step keeps an entry in the pool or in a final block.
LEMMA PoolNext ==
    ASSUME TypeOK, ChainInv, ProposalInv, PoolInv, [Next]_vars
    PROVE  PoolInv'
  <1>1. CASE UNCHANGED <<pc, blocks, batch, pool, proposals, finals, accepted>>
    BY <1>1 DEF PoolInv, InFlightAccepted, ChainLeavesPool, ProposalsDisjoint, NoEnqueuedEntryLost
  <1>2. ASSUME NEW n \in Node, NEW e \in Entry, Enqueue(n, e) \/ Submit(n, e)
        PROVE  PoolInv'
    <2>1. /\ accepted' = accepted \cup {e}
          /\ pool \subseteq pool' /\ pool' \subseteq pool \cup {e}
          /\ e \in accepted => pool' = pool
          /\ e \in Gossiped => e \in pool'
          /\ UNCHANGED <<pc, blocks, batch, proposals, finals>>
      BY <1>2 DEF Enqueue, Submit, AcceptEntry, Publish, busVars
    <2>2. InFlightAccepted'
      BY <2>1 DEF PoolInv, InFlightAccepted
    <2>3. NoEnqueuedEntryLost'
      BY <2>1 DEF PoolInv, NoEnqueuedEntryLost
    <2>4. ASSUME NEW m \in Node, NEW i \in DOMAIN blocks[m]
          PROVE  blocks[m][i].anchored \cap pool' = {}
      <3>1. PICK b \in proposals : SameBody(blocks[m][i], b)
        BY DEF ChainInv, ChainProposed
      <3>2. blocks[m][i].anchored \subseteq accepted
        BY <3>1 DEF SameBody, PoolInv, InFlightAccepted
      <3>3. blocks[m][i].anchored \cap pool = {}
        BY ZenonT(60) DEF PoolInv, ChainLeavesPool
      <3> QED
        BY <2>1, <3>2, <3>3, ZenonT(60)
    <2>5. ChainLeavesPool'
      BY <2>1, <2>4 DEF PoolInv, ChainLeavesPool
    <2> QED
      BY <2>1, <2>2, <2>3, <2>5, ZenonT(60) DEF PoolInv, ProposalsDisjoint
  <1>3. ASSUME NEW n \in Node, Build(n)
        PROVE  PoolInv'
    <2>1. /\ pc' = [pc EXCEPT ![n] = "propose"] /\ batch' = [batch EXCEPT ![n] = pool]
          /\ UNCHANGED <<blocks, pool, proposals, finals, accepted>>
      BY <1>3, ZenonT(60) DEF Build, BuildCandidate, Goto, busVars
    <2>2. InFlightAccepted'
      BY <2>1, ZenonT(60) DEF PoolInv, InFlightAccepted, TypeOK
    <2>3. ChainLeavesPool'
      BY <2>1, ZenonT(60) DEF PoolInv, ChainLeavesPool, TypeOK
    <2> QED
      BY <2>1, <2>2, <2>3 DEF PoolInv, ProposalsDisjoint, NoEnqueuedEntryLost
  <1>4. ASSUME NEW n \in Node, Propose(n)
        PROVE  PoolInv'
    <2> DEFINE c == Candidate(n)
    <2>1. /\ pc[n] = "propose" /\ pc' = [pc EXCEPT ![n] = "sign"]
          /\ proposals' = IF \E q \in proposals : q.index = c.index
                          THEN proposals ELSE proposals \cup {c}
          /\ UNCHANGED <<blocks, batch, pool, finals, accepted>>
      BY <1>4, ZenonT(60) DEF Propose, AfterPropose, Goto, BusPropose
    <2>2. c.index = cycle(n) /\ c.anchored = batch[n]
      BY CandidateTyped
    <2> HIDE DEF c
    <2>3. InFlightAccepted'
      BY <2>1, <2>2, ZenonT(60) DEF PoolInv, InFlightAccepted
    <2>4. ChainLeavesPool'
      BY <2>1 DEF PoolInv, ChainLeavesPool, TypeOK
    <2>5. ASSUME NEW b \in proposals, b.index # c.index
          PROVE  b.anchored \cap c.anchored = {}
      <3>1. b.index \in Nat /\ b.index <= Len(blocks[n]) /\ Len(blocks[n]) \in Nat
            /\ DOMAIN blocks[n] = 1..Len(blocks[n])
        BY SMTT(30) DEF TypeOK, CandidateType, ProposalInv, ProposalFacts
      <3>2. PICK i \in DOMAIN blocks[n] : i - 1 = b.index
        <4>1. b.index + 1 \in DOMAIN blocks[n] /\ (b.index + 1) - 1 = b.index
          BY <2>2, <2>5, <3>1, SMTT(30) DEF cycle
        <4> QED
          BY <4>1
      <3>3. PICK d \in proposals : SameBody(blocks[n][i], d)
        BY ZenonT(60) DEF ChainInv, ChainProposed
      <3>4. d.index = b.index
        BY <3>2, <3>3 DEF ChainInv, ChainProposed, SameBody
      <3>5. d = b
        BY <3>4 DEF ChainInv, OneProposal
      <3>6. blocks[n][i].anchored = b.anchored
        BY <3>3, <3>5, ZenonT(60) DEF SameBody
      <3>7. blocks[n][i].anchored \cap batch[n] = {}
        BY <2>1 DEF PoolInv, ChainLeavesPool
      <3> QED
        BY <2>2, <3>6, <3>7, ZenonT(60)
    <2>6. ProposalsDisjoint'
      BY <2>1, <2>5 DEF PoolInv, ProposalsDisjoint
    <2> QED
      BY <2>1, <2>3, <2>4, <2>6, ZenonT(60) DEF PoolInv, NoEnqueuedEntryLost
  <1>5. ASSUME NEW n \in Node, PublishFinal(n)
        PROVE  PoolInv'
    <2>1. PICK b \in proposals :
              /\ finals' = {g \in finals : g.index # FinalBlock(n, b).index} \cup {FinalBlock(n, b)}
              /\ pc' = [pc EXCEPT ![n] = "append"]
              /\ UNCHANGED <<blocks, batch, pool, proposals, accepted>>
      BY <1>5 DEF PublishFinal, Proposed, AfterPublishFinal, Goto, BusPublishFinal
    <2>2. SameBody(FinalBlock(n, b), b)
      BY FinalBlockTyped
    <2>3. ASSUME NEW g \in finals
          PROVE  \E h \in finals' : h.anchored = g.anchored
      <3>1. CASE g.index # FinalBlock(n, b).index
        BY <2>1, <3>1, ZenonT(60)
      <3>2. CASE g.index = FinalBlock(n, b).index
        <4>1. PICK c \in proposals : SameBody(g, c)
          BY DEF ChainInv, FinalsProposed
        <4>2. c = b
          BY <2>2, <3>2, <4>1, ZenonT(60) DEF ChainInv, OneProposal, SameBody
        <4> QED
          BY <2>1, <2>2, <4>1, <4>2 DEF SameBody
      <3> QED
        BY <3>1, <3>2
    <2>4. NoEnqueuedEntryLost'
      BY <2>1, <2>3, SMTT(30) DEF PoolInv, NoEnqueuedEntryLost
    <2>5. ChainLeavesPool'
      BY <2>1 DEF PoolInv, ChainLeavesPool, TypeOK
    <2> QED
      BY <2>1, <2>4, <2>5, ZenonT(60) DEF PoolInv, InFlightAccepted, ProposalsDisjoint
  <1>6. ASSUME NEW n \in Node, Appends(n)
        PROVE  PoolInv'
    <2>1. PICK f, s : AppendsBlock(n, f, s)
      BY <1>6, ZenonT(60) DEF Appends
    <2>2. /\ f \in finals /\ s.anchored = f.anchored
          /\ pc' = [pc EXCEPT ![n] = "idle"] /\ batch' = [batch EXCEPT ![n] = {}]
          /\ pool' = pool \ f.anchored /\ UNCHANGED <<proposals, finals, accepted>>
      BY <2>1, ZenonT(60) DEF AppendsBlock, SameBody
    <2>a. InFlightAccepted'
      BY <2>2, Domains, ZenonT(60) DEF PoolInv, InFlightAccepted
    <2>b. NoEnqueuedEntryLost'
      BY <2>2 DEF PoolInv, NoEnqueuedEntryLost
    <2>3. InFlightAccepted' /\ NoEnqueuedEntryLost' /\ ProposalsDisjoint'
      BY <2>2, <2>a, <2>b, ZenonT(60) DEF PoolInv, ProposalsDisjoint
    <2>4. ASSUME NEW m \in Node, NEW i \in DOMAIN blocks'[m]
          PROVE  /\ blocks'[m][i].anchored \cap pool' = {}
                 /\ pc'[m] \in {"propose", "sign"} => blocks'[m][i].anchored \cap batch'[m] = {}
      <3>1. CASE m = n /\ i = Len(blocks[n]) + 1
        <4>1. blocks'[m][i] = s /\ pc'[m] = "idle"
          BY <2>1, <2>2, <3>1, AppendFacts, ZenonT(60) DEF TypeOK
        <4> QED
          BY <2>2, <4>1
      <3>2. CASE ~(m = n /\ i = Len(blocks[n]) + 1)
        <4>1. i \in DOMAIN blocks[m] /\ blocks'[m][i] = blocks[m][i]
          <5>1. CASE m = n
            <6>1. i \in 1..(Len(blocks[n]) + 1) /\ Len(blocks[n]) \in Nat
              BY <2>1, <5>1, AppendFacts
            <6>2. i \in 1..Len(blocks[n])
              BY <3>2, <5>1, <6>1, SMTT(30)
            <6> QED
              BY <2>1, <5>1, <6>2, AppendFacts, ZenonT(60)
          <5>2. CASE m # n
            BY <2>1, <5>2, AppendFacts, ZenonT(60)
          <5> QED
            BY <5>1, <5>2
        <4>2. /\ blocks[m][i].anchored \cap pool = {}
              /\ pc[m] \in {"propose", "sign"} => blocks[m][i].anchored \cap batch[m] = {}
          BY <4>1, ZenonT(60) DEF PoolInv, ChainLeavesPool
        <4>3. /\ pc'[m] \in {"propose", "sign"} => pc[m] \in {"propose", "sign"}
              /\ pc'[m] \in {"propose", "sign"} => batch'[m] = batch[m]
          BY <2>2, Domains, ZenonT(60)
        <4> QED
          BY <2>2, <4>1, <4>2, <4>3, ZenonT(60)
      <3> QED
        BY <3>1, <3>2, ZenonT(60)
    <2>5. ChainLeavesPool'
      BY <2>4, ZenonT(60) DEF ChainLeavesPool
    <2> QED
      BY <2>3, <2>5 DEF PoolInv
  <1>7. ASSUME NEW n \in Node, NEW to, pc' = [pc EXCEPT ![n] = to], to \notin {"propose", "sign"},
               batch' = batch \/ batch' = [batch EXCEPT ![n] = {}],
               UNCHANGED <<blocks, pool, proposals, finals, accepted>>
        PROVE  PoolInv'
    <2>1. InFlightAccepted'
      BY <1>7, Domains, ZenonT(60) DEF PoolInv, InFlightAccepted
    <2>2. ChainLeavesPool'
      BY <1>7, Domains DEF PoolInv, ChainLeavesPool
    <2> QED
      BY <1>7, <2>1, <2>2, ZenonT(60) DEF PoolInv, ProposalsDisjoint, NoEnqueuedEntryLost
  <1>8. ASSUME NEW n \in Node,
               \/ Start(n) \/ PublishVRFProof(n) \/ Select(n) \/ SignOwn(n) \/ Accepts(n)
               \/ Quorum(n) \/ Aborts(n)
        PROVE  \E to : /\ pc' = [pc EXCEPT ![n] = to] /\ to \notin {"propose", "sign"}
                       /\ batch' = batch \/ batch' = [batch EXCEPT ![n] = {}]
                       /\ UNCHANGED <<blocks, pool, proposals, finals, accepted>>
    <2>1. \E to \in {"idle", "vrf", "elect", "build", "await", "quorum", "commit"} :
              pc' = [pc EXCEPT ![n] = to]
      BY <1>8 DEF Start, StartCycle, PublishVRFProof, AfterVRFProof, Select, SelectProposer,
         SignOwn, AfterSign, Accepts, Quorum, CheckQuorum, Aborts, Rollback, Goto
    <2>2. /\ batch' = batch \/ batch' = [batch EXCEPT ![n] = {}]
          /\ UNCHANGED <<blocks, pool, proposals, finals, accepted>>
      BY <1>8 DEF Start, StartCycle, PublishVRFProof, AfterVRFProof, BusPublishVRFProof, Select,
         SelectProposer, SignOwn, AfterSign, BusPublishSig, Accepts, Quorum, CheckQuorum, Aborts,
         Rollback, busVars
    <2> QED
      BY <2>1, <2>2, ZenonT(60)
  <1>9. CASE UNCHANGED vars
    BY <1>1, <1>9 DEF vars, engineVars, busVars
  <1> QED
    BY <1>2, <1>3, <1>4, <1>5, <1>6, <1>7, <1>8, <1>9, StepCases, ZenonT(60) DEF Client

\* What is pooled and what is anchored stay apart, in every state.
THEOREM PoolCorrect == Spec => []PoolInv
  <1>1. TypeOK /\ ChainInv /\ ProposalInv /\ PoolInv /\ [Next]_vars => PoolInv'
    BY PoolNext
  <1> QED
    BY PoolInit, TypeCorrect, ChainCorrect, ProposalCorrect, <1>1, PTL DEF Spec

\* An entry that Enqueue accepted is in the pool until a final block carries it,
\* through any number of aborts (Enqueue, RemoveEntries).
THEOREM NoEntryLostHolds == Spec => []NoEnqueuedEntryLost
  <1>1. PoolInv => NoEnqueuedEntryLost
    BY ZenonT(60) DEF PoolInv
  <1> QED
    BY PoolCorrect, <1>1, PTL

\* No chain anchors an entry twice, for any number of validators and cycles.
THEOREM AnchoredOnceHolds == Spec => []AnchoredOnce
  <1>1. TypeOK /\ ChainInv /\ PoolInv => AnchoredOnce
    <2> SUFFICES ASSUME TypeOK, ChainInv, PoolInv, NEW n \in Node, NEW i \in DOMAIN blocks[n],
                        NEW j \in DOMAIN blocks[n], i # j
                 PROVE  blocks[n][i].anchored \cap blocks[n][j].anchored = {}
      BY DEF AnchoredOnce
    <2>1. PICK b \in proposals : SameBody(blocks[n][i], b)
      BY DEF ChainInv, ChainProposed
    <2>2. PICK c \in proposals : SameBody(blocks[n][j], c)
      BY DEF ChainInv, ChainProposed
    <2>3. b.index # c.index
      <3>1. blocks[n][i].index = i - 1 /\ blocks[n][j].index = j - 1
        BY DEF ChainInv, ChainProposed
      <3>2. blocks[n] \in Seq(FinalType)
        BY DEF TypeOK
      <3>3. i \in Nat /\ j \in Nat
        BY <3>2, SMTT(30)
      <3> QED
        BY <2>1, <2>2, <3>1, <3>3, SMTT(30) DEF SameBody
    <2> QED
      BY <2>1, <2>2, <2>3 DEF PoolInv, ProposalsDisjoint, SameBody
  <1> QED
    BY TypeCorrect, ChainCorrect, PoolCorrect, <1>1, PTL

=============================================================================
