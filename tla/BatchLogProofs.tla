--------------------------- MODULE BatchLogProofs ---------------------------
(***************************************************************************)
(* Certificates, following and the refinement of BatchLog by Consensus,    *)
(* for every set of validators, every peer order and every bound.  Three   *)
(* more inductive invariants, on top of the four of ConsensusProofs:       *)
(*   CertInv   what a final block carries, when it is settled, and that    *)
(*             every block of a chain is a settled one, trimmed or whole;  *)
(*   TreeInv   the tree of a node in a cycle holds what the cycle anchors; *)
(*   LogInv    the final blocks are the batches of one log.                *)
(***************************************************************************)
EXTENDS ConsensusProofs

\* A leaf that names no prover is left to Zenon; the ones that need SMT name it.
USE ZenonT(30)

\* What a chain keeps of a final block: the degraded flag follows from the size of
\* the validator set (CheckDegradedTransition, ApplyDegradedBlock).
Sealed(f, peers) == IF Cardinality(Node) < MinValidators THEN TrimToOne(f, peers) ELSE f

FlagKnown == \A n \in Node : inDegraded[n] => Cardinality(Node) < MinValidators

\* The quorum the proposer will ask for is the one the label promises, or that many
\* signatures are on the bus already: the flag may change between two attempts.
LabelBacked ==
    \A b \in proposals :
        b.index = cycle(b.proposer) =>
            \/ requiredQuorum(b.proposer) >= RequiredIn(b, Peers[b.proposer])
            \/ Cardinality(validPrepareSigs(b, sigs)) >= RequiredIn(b, Peers[b.proposer])

\* A node past the proposal has one on the bus; what PREPARE hands to COMMIT is on the
\* bus too, and is enough for the leader's label.
Staged(n) ==
    /\ pc[n] \in {"sign", "quorum", "commit", "append"} => Proposed(cycle(n)) # {}
    /\ pc[n] \in {"commit", "append"} =>
            \E b \in Proposed(cycle(n)) :
                /\ prepareSigs[n] \subseteq validPrepareSigs(b, sigs)
                /\ leader[cycle(n)] = n => Cardinality(prepareSigs[n]) >= RequiredIn(b, Peers[n])

Prepared == \A n \in Node : Staged(n)

\* A final block carries a whole certificate in its proposer's peer order.
Whole(f) ==
    /\ f.sigs = CompactSigs(Peers[f.proposer], f.bitmap, ComputeBlockHash(f))
    /\ \A k \in f.bitmap : BlockSig(Peers[f.proposer][k], f) \in sigs
    /\ Cardinality(f.bitmap) >= RequiredIn(f, Peers[f.proposer])
    /\ f.commitSig = SignDilithium(f.proposer, ComputeBlockHash(f))

FinalsWhole == \A f \in finals : Whole(f)

\* A height has one final block (MemoryBus.PublishFinal).
OneFinal == \A f, g \in finals : f.index = g.index => f = g

\* The leader that publishes a final block commits it next, so it never publishes
\* another one for the height.
FinalsSettled ==
    ~Fragmented => \A f \in finals : \/ f.index < cycle(f.proposer)
                                     \/ f.index = cycle(f.proposer) /\ pc[f.proposer] = "append"

\* A block of a chain is the final block of its height, as its owner sealed it.
ChainCertified ==
    \A n \in Node : \A i \in DOMAIN blocks[n] :
        \E f \in finals : /\ f.index = i - 1
                          /\ verifyPrepareQuorum(f, Peers[n])
                          /\ blocks[n][i] = Sealed(f, Peers[n])

\* From 20 validators on nobody ever commits (state.Apply).
FragmentedIsEmpty == Fragmented => \A n \in Node : blocks[n] = <<>>

CertInv ==
    /\ FlagKnown /\ LabelBacked /\ Prepared /\ FinalsWhole
    /\ OneFinal /\ FinalsSettled /\ ChainCertified /\ FragmentedIsEmpty

-----------------------------------------------------------------------------
\* Every quorum is a positive count: there is a validator.
LEMMA QuorumsPositive ==
    ASSUME TypeOK, NEW n \in Node, NEW b
    PROVE  /\ requiredQuorum(n) \in Nat \ {0}
           /\ RequiredIn(b, Peers[n]) \in Nat \ {0}
           /\ RequiredIn(b, Peers[n]) = IF b.degraded THEN 1
                                        ELSE quorumRequired(Cardinality(Node))
           /\ quorumRequired(Cardinality(Node)) \in Nat \ {0}
  <1>1. Cardinality(Node) \in Nat \ {0}
    <2>1. IsFiniteSet(Node) /\ Node # {} /\ Cardinality(Node) \in Nat
      BY PeersAssumption, FS_CardinalityType
    <2> QED
      BY <2>1, FS_EmptySet
  <1>2. quorumRequired(Cardinality(Node)) \in Nat \ {0}
    BY <1>1, QuorumPositive
  <1>3. Len(Peers[n]) = Cardinality(Node)
    BY PeersAssumption
  <1> QED
    BY <1>2, <1>3, SMTT(30) DEF requiredQuorum, RequiredIn

\* The bitmap has a bit for every signer (RunPreparePhase).
LEMMA BitmapCovers ==
    ASSUME NEW n \in Node, NEW S \in SUBSET Node
    PROVE  /\ IsFiniteSet(S) /\ Cardinality(S) \in Nat
           /\ PrepareBitmap(Peers[n], S) \in SUBSET (1..Cardinality(Node))
           /\ Cardinality(PrepareBitmap(Peers[n], S)) \in Nat
           /\ Cardinality(PrepareBitmap(Peers[n], S)) >= Cardinality(S)
  <1> DEFINE bits == PrepareBitmap(Peers[n], S)
             at == [i \in bits |-> Peers[n][i]]
  <1>1. bits \in SUBSET (1..Cardinality(Node))
    BY PeersType DEF PrepareBitmap
  <1>2. IsFiniteSet(bits) /\ Cardinality(bits) \in Nat
    BY <1>1, PeersType, BitmapFinite
  <1>3. at \in Surjection(bits, S)
    <2>1. \A i \in bits : Peers[n][i] \in S
      BY DEF PrepareBitmap
    <2>2. \A p \in S : \E i \in bits : Peers[n][i] = p
      BY PeersAssumption DEF PrepareBitmap
    <2>3. at \in [bits -> S]
      BY <2>1
    <2>4. \A p \in S : \E i \in bits : at[i] = p
      BY <2>2
    <2> HIDE DEF at, bits
    <2> QED
      BY <2>3, <2>4 DEF Surjection
  <1>4. IsFiniteSet(S) /\ Cardinality(S) <= Cardinality(bits)
    <2> HIDE DEF at, bits
    <2> QED
      BY <1>2, <1>3, FS_Surjection
  <1> QED
    BY <1>1, <1>2, <1>4, FS_CardinalityType

\* Signatures are never taken back from the bus, so a count of them only grows.
LEMMA ValidGrows ==
    ASSUME NEW b, NEW old, NEW new, old \subseteq new
    PROVE  /\ validPrepareSigs(b, old) \subseteq validPrepareSigs(b, new)
           /\ Cardinality(validPrepareSigs(b, old)) \in Nat
           /\ Cardinality(validPrepareSigs(b, new)) \in Nat
           /\ Cardinality(validPrepareSigs(b, old)) <= Cardinality(validPrepareSigs(b, new))
  <1>1. /\ validPrepareSigs(b, old) \subseteq validPrepareSigs(b, new)
        /\ validPrepareSigs(b, new) \in SUBSET Node
        /\ validPrepareSigs(b, old) \in SUBSET Node
    BY DEF validPrepareSigs
  <1>2. IsFiniteSet(validPrepareSigs(b, new)) /\ IsFiniteSet(validPrepareSigs(b, old))
    BY <1>1, PeersAssumption, FS_Subset
  <1> QED
    BY <1>1, <1>2, FS_Subset, FS_CardinalityType

\* A block whose set bits all verify, and that has a set bit, is trimmed to its first
\* one and still verifies (ApplyDegradedBlock, verifyPrepareQuorum).
LEMMA TrimVerifies ==
    ASSUME NEW f \in FinalType, NEW n \in Node, f.bitmap # {},
           \A i \in f.bitmap : SigVerifies(f, Peers[n], i)
    PROVE  LET i == CHOOSE i \in f.bitmap : \A j \in f.bitmap : i <= j
               t == TrimToOne(f, Peers[n])
           IN  /\ i \in f.bitmap
               /\ t = [f EXCEPT !.bitmap = {i},
                                !.sigs = <<f.sigs[countBitsBefore(f.bitmap, i) + 1]>>,
                                !.degraded = TRUE]
               /\ t \in FinalType /\ SameBody(t, f) /\ t.bitmap = {i} /\ t.degraded
               /\ verifyPrepareQuorum(t, Peers[n])
  <1> DEFINE i == CHOOSE i \in f.bitmap : \A j \in f.bitmap : i <= j
             t == TrimToOne(f, Peers[n])
             s == f.sigs[countBitsBefore(f.bitmap, i) + 1]
  <1>1. /\ f.bitmap \subseteq 1..Cardinality(Node) /\ DOMAIN Peers[n] = 1..Cardinality(Node)
        /\ Cardinality(Node) \in Nat
    BY PeersType DEF FinalType
  <1>2. ValidPositions(f, Peers[n]) = f.bitmap
    BY <1>1 DEF ValidPositions
  <1>3. i \in f.bitmap
    BY <1>1, LeastPosition
  <1>4. t = [f EXCEPT !.bitmap = {i}, !.sigs = <<s>>, !.degraded = TRUE]
    BY <1>2, SMTT(30) DEF TrimToOne
  <1>5. t \in FinalType /\ SameBody(t, f)
    BY <1>2, TrimTyped
  <1>6. t.bitmap = {i} /\ t.sigs = <<s>> /\ t.degraded
    <2> HIDE DEF t, i, s
    <2> QED
      BY <1>4 DEF FinalType
  <1>7. s = SignDilithium(Peers[n][i], ComputeBlockHash(f))
    BY <1>3 DEF SigVerifies, VerifyDilithium
  <1>8. ComputeBlockHash(t) = ComputeBlockHash(f)
    BY <1>5, SameBodySameHash
  <1> HIDE DEF t, i, s
  <1>9. countBitsBefore({i}, i) = 0
    <2>1. {j \in {i} : j < i} = {}
      BY <1>1, <1>3, SMTT(30)
    <2> QED
      BY <2>1, FS_EmptySet DEF countBitsBefore
  <1>10. SigVerifies(t, Peers[n], i)
    BY <1>6, <1>7, <1>8, <1>9, SMTT(30) DEF SigVerifies, VerifyDilithium
  <1>11. verifyPrepareQuorum(t, Peers[n])
    <2>1. t.bitmap \cap DOMAIN Peers[n] = {i}
      BY <1>1, <1>3, <1>6
    <2>2. Cardinality({i}) = 1
      BY FS_Singleton
    <2> QED
      BY <1>6, <1>10, <2>1, <2>2, SMTT(30) DEF verifyPrepareQuorum, RequiredIn
  <1> QED
    BY <1>3, <1>4, <1>5, <1>6, <1>11 DEF i, t, s

\* A whole final block verifies for its proposer, and for whomever it verifies it
\* names the same signers, of which there is one at least: peer orders that differ
\* at a set bit make verifyPrepareQuorum fail.
LEMMA WholeFacts ==
    ASSUME TypeOK, NEW f \in FinalType, Whole(f), NEW n \in Node
    PROVE  /\ verifyPrepareQuorum(f, Peers[f.proposer])
           /\ f.bitmap # {}
           /\ verifyPrepareQuorum(f, Peers[n]) =>
                  /\ \A k \in f.bitmap : SigVerifies(f, Peers[n], k)
                  /\ \A k \in f.bitmap : Peers[n][k] = Peers[f.proposer][k]
                  /\ Cardinality(f.bitmap) >= RequiredIn(f, Peers[n])
  <1>1. f.proposer \in Node /\ f.bitmap \in SUBSET (1..Cardinality(Node))
    BY DEF FinalType
  <1>2. /\ DOMAIN Peers[n] = 1..Cardinality(Node)
        /\ DOMAIN Peers[f.proposer] = 1..Cardinality(Node)
        /\ Peers[f.proposer] \in Seq(Node) /\ Cardinality(Node) \in Nat
    BY <1>1, PeersType
  <1>3. verifyPrepareQuorum(f, Peers[f.proposer])
    BY <1>1, <1>2, SameOrderVerifies DEF Whole
  <1>4. f.bitmap # {}
    <2>1. RequiredIn(f, Peers[f.proposer]) \in Nat \ {0}
      BY <1>1, QuorumsPositive
    <2>2. Cardinality(f.bitmap) # 0
      BY <2>1, SMTT(30) DEF Whole
    <2> QED
      BY <2>2, FS_EmptySet
  <1>5. ASSUME verifyPrepareQuorum(f, Peers[n])
        PROVE  /\ \A k \in f.bitmap : SigVerifies(f, Peers[n], k)
               /\ Cardinality(f.bitmap) >= RequiredIn(f, Peers[n])
    <2>1. f.bitmap \cap DOMAIN Peers[n] = f.bitmap
      BY <1>1, <1>2
    <2> QED
      BY <1>5, <2>1 DEF verifyPrepareQuorum
  <1>6. ASSUME NEW k \in f.bitmap, SigVerifies(f, Peers[n], k)
        PROVE  Peers[n][k] = Peers[f.proposer][k]
    <2>1. f.sigs[countBitsBefore(f.bitmap, k) + 1] = SignDilithium(Peers[n][k], ComputeBlockHash(f))
      BY <1>6 DEF SigVerifies, VerifyDilithium
    <2>2. f.sigs[countBitsBefore(f.bitmap, k) + 1]
            = SignDilithium(Peers[f.proposer][k], ComputeBlockHash(f))
      <3>1. f.bitmap \subseteq Nat /\ IsFiniteSet(f.bitmap)
        BY <1>1, <1>2, BitmapFinite
      <3> QED
        BY <3>1, CompactThenRead, SMTT(30) DEF Whole
    <2> QED
      BY <2>1, <2>2, SMTT(30) DEF SignDilithium
  <1> QED
    BY <1>3, <1>4, <1>5, <1>6

-----------------------------------------------------------------------------
\* A node seals the final block of its cycle: the append of ConsensusProofs, with
\* what it says of the certificate.
Seals(n, f) ==
    /\ AppendsBlock(n, f, Sealed(f, Peers[n]))
    /\ verifyPrepareQuorum(f, Peers[n])
    /\ ~Fragmented
    /\ inDegraded' = [inDegraded EXCEPT ![n] = Cardinality(Node) < MinValidators]
    /\ prepareSigs' = [prepareSigs EXCEPT ![n] = {}]

\* A cycle ends without a block.  Below the size at which state.Apply refuses every
\* block, a leader that has published its final block does not get here.
RollsBack(n) ==
    /\ Aborts(n)
    /\ \/ pc[n] # "append" /\ UNCHANGED inDegraded
       \/ /\ Fragmented
          /\ pc[n] = "append" \/ leader[cycle(n)] # n
          /\ inDegraded' = [inDegraded EXCEPT ![n] = Cardinality(Node) < MinValidators]

\* The flag after a commit is the size of the validator set against the minimum.
LEMMA DegradedIsSize ==
    ASSUME FlagKnown, NEW n \in Node
    PROVE  DegradedAfter(n) <=> Cardinality(Node) < MinValidators
  BY DEF FlagKnown, DegradedAfter

\* A final block that verifies is committed, unless state.Apply refuses all blocks.
LEMMA CommitOutcome ==
    ASSUME TypeOK, FlagKnown, NEW n \in Node, NEW f \in Final(cycle(n)), Whole(f),
           verifyPrepareQuorum(f, Peers[n]), CommitBlock(n, f),
           pc[n] = "append" \/ (pc[n] = "commit" /\ leader[cycle(n)] # n),
           IF CommitFails(n, f) THEN UNCHANGED busVars ELSE RemoveEntries(f.anchored),
           UNCHANGED <<accepted, timeouts>>
    PROVE  Seals(n, f) \/ RollsBack(n)
  <1>1. f \in finals /\ f.index = cycle(n) /\ f \in FinalType
    BY DEF Final, TypeOK
  <1>2. f.bitmap # {} /\ \A k \in f.bitmap : SigVerifies(f, Peers[n], k)
    BY <1>1, WholeFacts
  <1>3. ValidPositions(f, Peers[n]) # {}
    <2>1. f.bitmap \subseteq DOMAIN Peers[n]
      BY <1>1, PeersType DEF FinalType
    <2> QED
      BY <1>2, <2>1 DEF ValidPositions
  <1>4. inDegraded' = [inDegraded EXCEPT ![n] = Cardinality(Node) < MinValidators]
    <2>1. inDegraded' = [inDegraded EXCEPT ![n] = DegradedAfter(n)]
      BY DEF CommitBlock
    <2>2. DegradedAfter(n) = (Cardinality(Node) < MinValidators)
      BY SMTT(30) DEF DegradedAfter, FlagKnown, TypeOK
    <2> QED
      BY <2>1, <2>2
  <1>5. CASE CommitFails(n, f)
    <2>1. Fragmented
      BY <1>3, <1>5 DEF CommitFails
    <2> QED
      BY <1>4, <1>5, <2>1 DEF CommitBlock, RollsBack, Aborts
  <1>6. CASE ~CommitFails(n, f)
    <2>1. AppendBlock(n, f) /\ RemoveEntries(f.anchored) /\ ~Fragmented
      BY <1>6 DEF CommitBlock, CommitFails
    <2>2. Sealed(f, Peers[n]) \in FinalType /\ SameBody(Sealed(f, Peers[n]), f)
      BY <1>1, <1>3, TrimTyped DEF Sealed, SameBody
    <2>3. blocks' = [blocks EXCEPT ![n] = Append(@, Sealed(f, Peers[n]))]
      BY <2>1, DegradedIsSize DEF AppendBlock, Sealed
    <2>4. AppendsBlock(n, f, Sealed(f, Peers[n]))
      BY <1>1, <2>1, <2>2, <2>3 DEF AppendsBlock, AppendBlock, RemoveEntries
    <2> QED
      BY <1>4, <2>1, <2>4 DEF Seals, AppendBlock
  <1> QED
    BY <1>5, <1>6

\* What a step of the system can be, with the certificate in view.
LEMMA CertCases ==
    ASSUME TypeOK, ChainInv, ProposalInv, CertInv, Next
    PROVE  \E n \in Node :
              \/ Client(n) \/ Start(n) \/ PublishVRFProof(n) \/ Select(n) \/ Build(n)
              \/ Propose(n) \/ SignOwn(n) \/ (Accepts(n) /\ UNCHANGED <<inDegraded, prepareSigs>>)
              \/ Quorum(n) \/ PublishFinal(n) \/ (\E f \in finals : Seals(n, f)) \/ RollsBack(n)
  <1>1. PICK n \in Node : Client(n) \/ Step(n) \/ Timeout(n)
    BY DEF Next, Client
  <1>2. ASSUME Reject(n) PROVE RollsBack(n)
    BY <1>2 DEF Reject, RejectElection, AbortCycle, Aborts, RollsBack
  <1>3. ASSUME NoEntries(n) PROVE RollsBack(n)
    BY <1>3 DEF NoEntries, NothingToPropose, AbortCycle, Aborts, RollsBack
  <1>4. ASSUME Timeout(n) PROVE RollsBack(n)
    BY <1>4 DEF Timeout, Waiting, AbortCycle, Aborts, RollsBack
  <1>5. ASSUME SignProposal(n)
        PROVE  (Accepts(n) /\ UNCHANGED <<inDegraded, prepareSigs>>) \/ RollsBack(n)
    <2>1. PICK b \in Proposed(cycle(n)) :
              /\ HandleProposal(n, b)
              /\ IF ProposalVerifies(n, b) THEN BusPublishSig(BlockSig(n, b))
                 ELSE UNCHANGED busVars
              /\ UNCHANGED <<accepted, timeouts>>
      BY <1>5 DEF SignProposal
    <2>2. CASE ProposalVerifies(n, b)
      BY <2>1, <2>2 DEF HandleProposal, Accepts, Goto
    <2>3. CASE ~ProposalVerifies(n, b)
      BY <2>1, <2>3 DEF HandleProposal, AbortCycle, Aborts, RollsBack
    <2> QED
      BY <2>2, <2>3
  <1>6. ASSUME LeaderCommit(n) PROVE (\E f \in finals : Seals(n, f)) \/ RollsBack(n)
    <2>1. PICK f \in Final(cycle(n)) :
              /\ CommitAsLeader(n, f)
              /\ IF CommitFails(n, f) THEN UNCHANGED busVars ELSE RemoveEntries(f.anchored)
              /\ UNCHANGED <<accepted, timeouts>>
      BY <1>6 DEF LeaderCommit
    <2>2. f \in finals /\ f \in FinalType /\ f.index = cycle(n) /\ Whole(f)
      BY DEF Final, TypeOK, CertInv, FinalsWhole
    <2>3. pc[n] = "append" /\ CommitBlock(n, f) /\ leader[cycle(n)] = n
      BY <2>1 DEF CommitAsLeader, ProposalInv, Roles
    <2>4. f.proposer = n
      <3>1. PICK b \in proposals : SameBody(f, b)
        BY <2>2 DEF ChainInv, FinalsProposed
      <3> QED
        BY <2>2, <2>3, <3>1 DEF ProposalInv, ProposalFacts, SameBody
    <2>5. verifyPrepareQuorum(f, Peers[n])
      BY <2>2, <2>4, WholeFacts
    <2> QED
      BY <2>1, <2>2, <2>3, <2>5, CommitOutcome DEF CertInv
  <1>7. ASSUME ValidatorCommit(n) PROVE (\E f \in finals : Seals(n, f)) \/ RollsBack(n)
    <2>1. PICK f \in Final(cycle(n)) :
              /\ HandleFinal(n, f)
              /\ IF FinalVerifies(n, f) /\ ~CommitFails(n, f) THEN RemoveEntries(f.anchored)
                 ELSE UNCHANGED busVars
              /\ UNCHANGED <<accepted, timeouts>>
      BY <1>7 DEF ValidatorCommit
    <2>2. f \in finals /\ Whole(f)
      BY DEF Final, CertInv, FinalsWhole
    <2>3. CASE ~FinalVerifies(n, f)
      BY <2>1, <2>3, ZenonT(60) DEF HandleFinal, AbortCycle, Aborts, RollsBack
    <2>4. CASE FinalVerifies(n, f)
      <3>1. /\ verifyPrepareQuorum(f, Peers[n]) /\ CommitBlock(n, f)
            /\ pc[n] = "commit" /\ leader[cycle(n)] # n
            /\ IF CommitFails(n, f) THEN UNCHANGED busVars ELSE RemoveEntries(f.anchored)
        BY <2>1, <2>4, ZenonT(60) DEF HandleFinal, FinalVerifies
      <3> QED
        BY <2>1, <2>2, <3>1, CommitOutcome, ZenonT(60) DEF CertInv
    <2> QED
      BY <2>3, <2>4
  <1> QED
    BY <1>1, <1>2, <1>3, <1>4, <1>5, <1>6, <1>7 DEF Step

\* No block is proposed, signed or final at the start.
LEMMA CertInit == Init => CertInv
  BY SMTT(30) DEF Init, EngineInit, BusInit, CertInv, FlagKnown, LabelBacked, Prepared, Staged,
     FinalsWhole, OneFinal, FinalsSettled, ChainCertified, FragmentedIsEmpty

\* What final blocks and chains carry stays true in a step that makes neither, as long
\* as a leader that has published goes on to commit.
LEMMA FinalsKept ==
    ASSUME TypeOK, CertInv, NEW n \in Node, UNCHANGED <<blocks, finals>>, sigs \subseteq sigs',
           \A m \in Node : m # n => pc'[m] = pc[m],
           Fragmented \/ pc[n] # "append"
    PROVE  FinalsWhole' /\ OneFinal' /\ FinalsSettled' /\ ChainCertified' /\ FragmentedIsEmpty'
  <1>1. FinalsWhole' /\ OneFinal'
    BY DEF CertInv, FinalsWhole, Whole, OneFinal
  <1>2. FinalsSettled'
    <2>1. \A f \in finals : f.proposer \in Node
      BY DEF TypeOK, FinalType
    <2>2. CASE Fragmented
      BY <2>2 DEF FinalsSettled, Fragmented
    <2>3. CASE ~Fragmented
      BY <2>1, <2>3 DEF CertInv, FinalsSettled, cycle
    <2> QED
      BY <2>2, <2>3
  <1>3. ChainCertified' /\ FragmentedIsEmpty'
    BY DEF CertInv, ChainCertified, FragmentedIsEmpty
  <1> QED
    BY <1>1, <1>2, <1>3, ZenonT(60)

\* A step that leaves chains, proposals and flags alone keeps every label backed.
LEMMA LabelsKept ==
    ASSUME TypeOK, CertInv, UNCHANGED <<blocks, proposals, inDegraded>>, sigs \subseteq sigs'
    PROVE  FlagKnown' /\ LabelBacked'
  <1>1. FlagKnown'
    BY DEF CertInv, FlagKnown
  <1>2. ASSUME NEW b \in proposals, b.index = cycle(b.proposer)'
        PROVE  \/ requiredQuorum(b.proposer)' >= RequiredIn(b, Peers[b.proposer])
               \/ Cardinality(validPrepareSigs(b, sigs')) >= RequiredIn(b, Peers[b.proposer])
    <2>1. b.proposer \in Node /\ b.index = cycle(b.proposer)
      BY <1>2 DEF TypeOK, CandidateType, cycle
    <2>2. requiredQuorum(b.proposer)' = requiredQuorum(b.proposer)
      BY DEF requiredQuorum
    <2>3. /\ Cardinality(validPrepareSigs(b, sigs)) \in Nat
          /\ Cardinality(validPrepareSigs(b, sigs')) \in Nat
          /\ Cardinality(validPrepareSigs(b, sigs)) <= Cardinality(validPrepareSigs(b, sigs'))
      BY ValidGrows
    <2>4. RequiredIn(b, Peers[b.proposer]) \in Nat
      BY <2>1, QuorumsPositive
    <2>5. \/ requiredQuorum(b.proposer) >= RequiredIn(b, Peers[b.proposer])
          \/ Cardinality(validPrepareSigs(b, sigs)) >= RequiredIn(b, Peers[b.proposer])
      BY <2>1 DEF CertInv, LabelBacked
    <2> QED
      BY <2>2, <2>3, <2>4, <2>5, SMTT(30)
  <1>3. LabelBacked'
    BY <1>2 DEF LabelBacked
  <1> QED
    BY <1>1, <1>3

\* The other nodes keep what PREPARE handed them.
LEMMA PreparedKept ==
    ASSUME TypeOK, CertInv, NEW m \in Node, pc'[m] = pc[m], prepareSigs'[m] = prepareSigs[m],
           blocks'[m] = blocks[m], UNCHANGED leader, proposals \subseteq proposals',
           sigs \subseteq sigs'
    PROVE  Staged(m)'
  <1>1. Proposed(cycle(m)) \subseteq Proposed(cycle(m))' /\ cycle(m)' = cycle(m)
    BY DEF Proposed, cycle
  <1>2. \A b : validPrepareSigs(b, sigs) \subseteq validPrepareSigs(b, sigs')
    BY ValidGrows, ZenonT(60)
  <1>3. pc'[m] \in {"sign", "quorum", "commit", "append"} => Proposed(cycle(m))' # {}
    BY <1>1 DEF CertInv, Prepared, Staged
  <1>4. ASSUME pc'[m] \in {"commit", "append"}
        PROVE  \E b \in Proposed(cycle(m))' :
                      /\ prepareSigs'[m] \subseteq validPrepareSigs(b, sigs')
                      /\ leader'[cycle(m)'] = m =>
                             Cardinality(prepareSigs'[m]) >= RequiredIn(b, Peers[m])
    <2>1. PICK b \in Proposed(cycle(m)) :
              /\ prepareSigs[m] \subseteq validPrepareSigs(b, sigs)
              /\ leader[cycle(m)] = m => Cardinality(prepareSigs[m]) >= RequiredIn(b, Peers[m])
      BY <1>4 DEF CertInv, Prepared, Staged
    <2> QED
      BY <1>1, <1>2, <2>1, ZenonT(60)
  <1> QED
    BY <1>3, <1>4 DEF Staged

\* The steps before the proposal, and every abort that leaves the flag alone.
LEMMA QuietStep ==
    ASSUME TypeOK, CertInv, NEW n \in Node,
           UNCHANGED <<blocks, finals, proposals, inDegraded, leader>>, sigs \subseteq sigs',
           \A m \in Node : m # n => pc'[m] = pc[m] /\ prepareSigs'[m] = prepareSigs[m],
           pc'[n] \notin {"sign", "quorum", "commit", "append"}, pc[n] # "append"
    PROVE  CertInv'
  <1>1. FinalsWhole' /\ OneFinal' /\ FinalsSettled' /\ ChainCertified' /\ FragmentedIsEmpty'
    BY FinalsKept
  <1>2. FlagKnown' /\ LabelBacked'
    BY LabelsKept
  <1>3. ASSUME NEW m \in Node
        PROVE  Staged(m)'
    BY PreparedKept DEF Staged
  <1>4. Prepared'
    BY <1>3 DEF Prepared
  <1> QED
    BY <1>1, <1>2, <1>4 DEF CertInv

\* The proposer of a cycle is its leader, in a proposal and in a final block.
LEMMA ProposerLeads ==
    ASSUME TypeOK, ChainInv, ProposalInv
    PROVE  /\ \A b \in proposals : b.proposer = leader[b.index] /\ b.proposer \in Node
           /\ \A f \in finals : f.proposer = leader[f.index] /\ f.proposer \in Node
  <1>1. \A b \in proposals : b.proposer = leader[b.index] /\ b.proposer \in Node
    BY DEF ProposalInv, ProposalFacts, TypeOK, CandidateType
  <1>2. ASSUME NEW f \in finals
        PROVE  f.proposer = leader[f.index] /\ f.proposer \in Node
    <2>1. PICK b \in proposals : SameBody(f, b)
      BY DEF ChainInv, FinalsProposed
    <2> QED
      BY <1>1, <2>1 DEF SameBody
  <1> QED
    BY <1>1, <1>2

\* An abort of a commit that state.Apply refuses sets the flag; the signatures that
\* were enough for the label are still on the bus for the next attempt.
LEMMA CertRollBack ==
    ASSUME TypeOK, ChainInv, ProposalInv, CertInv, NEW n \in Node, RollsBack(n)
    PROVE  CertInv'
  <1>1. /\ pc' = [pc EXCEPT ![n] = "idle"] /\ prepareSigs' = [prepareSigs EXCEPT ![n] = {}]
        /\ UNCHANGED <<blocks, leader, proposals, sigs, finals>>
    BY DEF RollsBack, Aborts, Rollback, busVars
  <1>2. /\ pc'[n] = "idle"
        /\ \A m \in Node : m # n => pc'[m] = pc[m] /\ prepareSigs'[m] = prepareSigs[m]
    BY <1>1 DEF TypeOK
  <1>3. CASE pc[n] # "append" /\ UNCHANGED inDegraded
    BY <1>1, <1>2, <1>3, QuietStep
  <1>4. CASE /\ Fragmented
             /\ pc[n] = "append" \/ leader[cycle(n)] # n
             /\ inDegraded' = [inDegraded EXCEPT ![n] = Cardinality(Node) < MinValidators]
    <2>1. FinalsWhole' /\ OneFinal' /\ FinalsSettled' /\ ChainCertified' /\ FragmentedIsEmpty'
      BY <1>1, <1>2, <1>4, FinalsKept, ZenonT(60)
    <2>2. FlagKnown'
      BY <1>4, ZenonT(60) DEF CertInv, FlagKnown, TypeOK
    <2>3. Prepared'
      <3>1. ASSUME NEW m \in Node, m # n
            PROVE  Staged(m)'
        BY <1>1, <1>2, <3>1, PreparedKept, ZenonT(60)
      <3> QED
        BY <1>2, <3>1 DEF Prepared, Staged
    <2>4. ASSUME NEW b \in proposals, b.index = cycle(b.proposer)
          PROVE  \/ requiredQuorum(b.proposer)' >= RequiredIn(b, Peers[b.proposer])
                 \/ Cardinality(validPrepareSigs(b, sigs)) >= RequiredIn(b, Peers[b.proposer])
      <3>1. CASE b.proposer = n
        <4>1. leader[cycle(n)] = n /\ pc[n] = "append"
          BY <1>4, <2>4, <3>1, ProposerLeads, ZenonT(60)
        <4>2. PICK c \in Proposed(cycle(n)) :
                  /\ prepareSigs[n] \subseteq validPrepareSigs(c, sigs)
                  /\ Cardinality(prepareSigs[n]) >= RequiredIn(c, Peers[n])
          BY <4>1 DEF CertInv, Prepared, Staged
        <4>3. c = b
          BY <2>4, <3>1, <4>2 DEF Proposed, ChainInv, OneProposal
        <4>4. validPrepareSigs(b, sigs) \in SUBSET Node
          BY DEF validPrepareSigs
        <4>5. /\ Cardinality(prepareSigs[n]) \in Nat /\ Cardinality(validPrepareSigs(b, sigs)) \in Nat
              /\ Cardinality(prepareSigs[n]) <= Cardinality(validPrepareSigs(b, sigs))
          BY <4>2, <4>3, <4>4, PeersAssumption, FS_Subset, FS_CardinalityType, ZenonT(60)
        <4>6. RequiredIn(b, Peers[n]) \in Nat
          BY QuorumsPositive
        <4> QED
          BY <3>1, <4>2, <4>3, <4>5, <4>6, SMTT(30)
      <3>2. CASE b.proposer # n
        <4>1. requiredQuorum(b.proposer)' = requiredQuorum(b.proposer)
          BY <1>4, <3>2, ProposerLeads, ZenonT(60) DEF requiredQuorum, TypeOK
        <4> QED
          BY <2>4, <4>1, ZenonT(60) DEF CertInv, LabelBacked
      <3> QED
        BY <3>1, <3>2, ZenonT(60)
    <2>5. LabelBacked'
      BY <1>1, <2>4 DEF LabelBacked, cycle
    <2> QED
      BY <2>1, <2>2, <2>3, <2>5, ZenonT(60) DEF CertInv
  <1> QED
    BY <1>3, <1>4 DEF RollsBack

\* A proposal is labelled with the quorum its proposer will ask for.
LEMMA CertPropose ==
    ASSUME TypeOK, CertInv, NEW n \in Node, Propose(n)
    PROVE  CertInv'
  <1> DEFINE c == Candidate(n)
  <1>1. /\ pc[n] = "propose" /\ pc' = [pc EXCEPT ![n] = "sign"]
        /\ proposals' = IF \E q \in proposals : q.index = c.index
                        THEN proposals ELSE proposals \cup {c}
        /\ UNCHANGED <<blocks, leader, sigs, finals, inDegraded, prepareSigs>>
    BY DEF Propose, AfterPropose, Goto, BusPropose
  <1>2. c.index = cycle(n) /\ c.proposer = n
    BY CandidateTyped
  <1>3. c.degraded <=> requiredQuorum(n) = 1
    BY DEF Candidate
  <1> HIDE DEF c
  <1>4. pc'[n] = "sign" /\ \A m \in Node : m # n => pc'[m] = pc[m]
    BY <1>1 DEF TypeOK
  <1>5. FinalsWhole' /\ OneFinal' /\ FinalsSettled' /\ ChainCertified' /\ FragmentedIsEmpty'
    BY <1>1, <1>4, FinalsKept
  <1>6. FlagKnown'
    BY <1>1 DEF CertInv, FlagKnown
  <1>7. requiredQuorum(n) >= RequiredIn(c, Peers[n])
    <2>1. /\ requiredQuorum(n) \in Nat \ {0}
          /\ RequiredIn(c, Peers[n]) = IF c.degraded THEN 1 ELSE quorumRequired(Cardinality(Node))
          /\ quorumRequired(Cardinality(Node)) \in Nat
      BY QuorumsPositive
    <2>2. requiredQuorum(n) = 1 \/ requiredQuorum(n) = quorumRequired(Cardinality(Node))
      BY DEF requiredQuorum
    <2> QED
      BY <1>3, <2>1, <2>2, SMTT(30)
  <1>8. LabelBacked'
    <2> SUFFICES ASSUME NEW b \in proposals', b.index = cycle(b.proposer)
                 PROVE  \/ requiredQuorum(b.proposer) >= RequiredIn(b, Peers[b.proposer])
                        \/ Cardinality(validPrepareSigs(b, sigs)) >= RequiredIn(b, Peers[b.proposer])
      BY <1>1 DEF LabelBacked, requiredQuorum, cycle
    <2>1. CASE b \in proposals
      BY <2>1 DEF CertInv, LabelBacked
    <2>2. CASE b = c
      BY <1>2, <1>7, <2>2
    <2> QED
      BY <1>1, <2>1, <2>2, ZenonT(60)
  <1>9. Prepared'
    <2>1. proposals \subseteq proposals' /\ \E q \in proposals' : q.index = cycle(n)
      BY <1>1, <1>2, ZenonT(60)
    <2>2. ASSUME NEW m \in Node, m # n
          PROVE  Staged(m)'
      BY <1>1, <1>4, <2>1, <2>2, PreparedKept, ZenonT(60)
    <2>3. Proposed(cycle(n))' # {}
      BY <1>1, <2>1, ZenonT(60) DEF Proposed, cycle
    <2>4. Staged(n)'
      BY <1>4, <2>3 DEF Staged
    <2> QED
      BY <2>2, <2>4 DEF Prepared
  <1> QED
    BY <1>5, <1>6, <1>8, <1>9, ZenonT(60) DEF CertInv

\* A signature and a counted quorum: what goes on to COMMIT is on the bus, and is
\* enough for the label when the leader goes on (collectValidSigs).
LEMMA CertSign ==
    ASSUME TypeOK, ChainInv, ProposalInv, CertInv, NEW n \in Node,
           SignOwn(n) \/ (Accepts(n) /\ UNCHANGED <<inDegraded, prepareSigs>>) \/ Quorum(n)
    PROVE  CertInv'
  <1>1. /\ sigs \subseteq sigs'
        /\ UNCHANGED <<blocks, leader, proposals, finals, inDegraded>>
    BY DEF SignOwn, AfterSign, BusPublishSig, Accepts, Quorum, CheckQuorum, busVars
  <1>2. /\ pc[n] \in {"sign", "await", "quorum"}
        /\ \A m \in Node : m # n => pc'[m] = pc[m] /\ prepareSigs'[m] = prepareSigs[m]
    BY ZenonT(60) DEF SignOwn, AfterSign, Accepts, Quorum, CheckQuorum, Goto, TypeOK
  <1>3. FinalsWhole' /\ OneFinal' /\ FinalsSettled' /\ ChainCertified' /\ FragmentedIsEmpty'
    BY <1>1, <1>2, FinalsKept
  <1>4. FlagKnown' /\ LabelBacked'
    BY <1>1, LabelsKept
  <1>5. Proposed(cycle(n))' # {}
    <2>1. Proposed(cycle(n)) # {}
      BY ZenonT(60) DEF SignOwn, AfterSign, Accepts, Quorum, Goto, CertInv, Prepared, Staged
    <2> QED
      BY <1>1, <2>1 DEF Proposed, cycle
  <1>6. ASSUME pc'[n] \in {"commit", "append"}
        PROVE  \E b \in Proposed(cycle(n))' :
                  /\ prepareSigs'[n] \subseteq validPrepareSigs(b, sigs')
                  /\ leader'[cycle(n)'] = n => Cardinality(prepareSigs'[n]) >= RequiredIn(b, Peers[n])
    <2>1. Quorum(n)
      BY <1>6, ZenonT(60) DEF SignOwn, AfterSign, Accepts, Goto, TypeOK
    <2>2. PICK b \in Proposed(cycle(n)) :
              /\ Cardinality(validPrepareSigs(b, sigs)) >= requiredQuorum(n)
              /\ prepareSigs'[n] = validPrepareSigs(b, sigs)
              /\ UNCHANGED sigs
      BY <2>1, SMTT(30) DEF Quorum, CheckQuorum, busVars, TypeOK
    <2>3. b \in proposals /\ b.index = cycle(n)
      BY DEF Proposed
    <2>4. b \in Proposed(cycle(n))' /\ cycle(n)' = cycle(n)
      BY <1>1, <2>3, ZenonT(60) DEF Proposed, cycle
    <2>5. ASSUME leader[cycle(n)] = n
          PROVE  Cardinality(validPrepareSigs(b, sigs)) >= RequiredIn(b, Peers[n])
      <3>1. b.proposer = n
        BY <2>3, <2>5, ProposerLeads, ZenonT(60)
      <3>2. \/ requiredQuorum(n) >= RequiredIn(b, Peers[n])
            \/ Cardinality(validPrepareSigs(b, sigs)) >= RequiredIn(b, Peers[n])
        BY <2>3, <3>1 DEF CertInv, LabelBacked
      <3>3. /\ requiredQuorum(n) \in Nat /\ RequiredIn(b, Peers[n]) \in Nat
            /\ Cardinality(validPrepareSigs(b, sigs)) \in Nat
        BY QuorumsPositive, ValidGrows, ZenonT(60)
      <3> QED
        BY <2>2, <3>2, <3>3, SMTT(30)
    <2> QED
      BY <1>1, <2>2, <2>4, <2>5
  <1>7. ASSUME NEW m \in Node, m # n
        PROVE  Staged(m)'
    BY <1>1, <1>2, <1>7, PreparedKept, ZenonT(60)
  <1>8. Staged(n)'
    BY <1>5, <1>6 DEF Staged
  <1>9. Prepared'
    BY <1>7, <1>8 DEF Prepared
  <1> QED
    BY <1>3, <1>4, <1>9, ZenonT(60) DEF CertInv

\* The block RunCommitPhase publishes carries the signatures PREPARE collected.
LEMMA FinalBlockWhole ==
    ASSUME TypeOK, NEW n \in Node, NEW b \in proposals, b.proposer = n,
           prepareSigs[n] \subseteq validPrepareSigs(b, sigs),
           Cardinality(prepareSigs[n]) >= RequiredIn(b, Peers[n])
    PROVE  Whole(FinalBlock(n, b))
  <1> DEFINE f == FinalBlock(n, b)
             bits == PrepareBitmap(Peers[n], prepareSigs[n])
  <1>1. SameBody(f, b) /\ f \in FinalType
    BY FinalBlockTyped
  <1>2. ComputeBlockHash(f) = ComputeBlockHash(b)
    BY <1>1, SameBodySameHash
  <1>3. /\ f.bitmap = bits /\ f.degraded = b.degraded
        /\ f.sigs = CompactSigs(Peers[n], bits, ComputeBlockHash(b))
        /\ f.commitSig = SignDilithium(n, ComputeBlockHash(b))
    BY ZenonT(60) DEF FinalBlock
  <1>4. f.proposer = n /\ f.index = b.index
    BY <1>1 DEF SameBody
  <1> HIDE DEF f
  <1>5. ASSUME NEW k \in f.bitmap
        PROVE  BlockSig(Peers[n][k], f) \in sigs
    <2>1. Peers[n][k] \in validPrepareSigs(b, sigs)
      BY <1>3, ZenonT(60) DEF PrepareBitmap
    <2>2. BlockSig(Peers[n][k], f) = BlockSig(Peers[n][k], b)
      BY <1>2, <1>4, ZenonT(60) DEF BlockSig
    <2> QED
      BY <2>1, <2>2, ZenonT(60) DEF validPrepareSigs
  <1>6. Cardinality(f.bitmap) >= RequiredIn(f, Peers[n])
    <2>1. /\ Cardinality(bits) \in Nat /\ Cardinality(bits) >= Cardinality(prepareSigs[n])
          /\ Cardinality(prepareSigs[n]) \in Nat
      BY BitmapCovers, ZenonT(60) DEF TypeOK
    <2>2. RequiredIn(f, Peers[n]) = RequiredIn(b, Peers[n]) /\ RequiredIn(b, Peers[n]) \in Nat
      BY <1>3, QuorumsPositive, ZenonT(60) DEF RequiredIn
    <2> HIDE DEF bits
    <2> QED
      BY <1>3, <2>1, <2>2, SMTT(30)
  <1> HIDE DEF bits
  <1>7. Whole(f)
    BY <1>2, <1>3, <1>4, <1>5, <1>6 DEF Whole
  <1> QED
    BY <1>7 DEF f

\* The only final block of a height is published by a leader that had none there.
LEMMA CertPublishFinal ==
    ASSUME TypeOK, ChainInv, ProposalInv, CertInv, NEW n \in Node, PublishFinal(n)
    PROVE  CertInv'
  <1>1. PICK b \in Proposed(cycle(n)) :
            /\ leader[cycle(n)] = n
            /\ pc[n] = "commit" /\ pc' = [pc EXCEPT ![n] = "append"]
            /\ finals' = {g \in finals : g.index # FinalBlock(n, b).index} \cup {FinalBlock(n, b)}
            /\ UNCHANGED <<blocks, leader, proposals, sigs, inDegraded, prepareSigs>>
    BY DEF PublishFinal, AfterPublishFinal, Goto, BusPublishFinal
  <1> DEFINE f == FinalBlock(n, b)
  <1>2. b \in proposals /\ b.index = cycle(n) /\ b.proposer = n
    BY <1>1, ProposerLeads DEF Proposed
  <1>3. f \in FinalType /\ f.index = cycle(n) /\ f.proposer = n
    BY <1>2, FinalBlockTyped DEF SameBody
  <1>4. Whole(f)
    <2>1. PICK c \in Proposed(cycle(n)) :
              /\ prepareSigs[n] \subseteq validPrepareSigs(c, sigs)
              /\ Cardinality(prepareSigs[n]) >= RequiredIn(c, Peers[n])
      BY <1>1, ZenonT(60) DEF CertInv, Prepared, Staged
    <2>2. c = b
      BY <1>2, <2>1 DEF Proposed, ChainInv, OneProposal
    <2> QED
      BY <1>2, <2>1, <2>2, FinalBlockWhole, ZenonT(60)
  <1> HIDE DEF f
  <1>5. finals' = {g \in finals : g.index # f.index} \cup {f}
    BY <1>1 DEF f
  <1>6. pc'[n] = "append" /\ \A m \in Node : m # n => pc'[m] = pc[m]
    BY <1>1 DEF TypeOK
  <1>7. FinalsWhole' /\ OneFinal'
    <2>1. \A g \in finals' : Whole(g)
      BY <1>4, <1>5 DEF CertInv, FinalsWhole
    <2> QED
      BY <1>1, <1>5, <2>1, ZenonT(60) DEF CertInv, FinalsWhole, Whole, OneFinal
  <1>8. FinalsSettled'
    <2> SUFFICES ASSUME ~Fragmented, NEW g \in finals'
                 PROVE  \/ g.index < cycle(g.proposer)
                        \/ g.index = cycle(g.proposer) /\ pc'[g.proposer] = "append"
      BY <1>1, ZenonT(60) DEF FinalsSettled, cycle, Fragmented
    <2>1. CASE g = f
      BY <1>3, <1>6, <2>1
    <2>2. CASE g \in finals
      BY <1>6, <2>2, ProposerLeads DEF CertInv, FinalsSettled
    <2> QED
      BY <1>5, <2>1, <2>2, ZenonT(60)
  <1>9. ~Fragmented => finals \subseteq finals'
    <2>1. ASSUME ~Fragmented, NEW g \in finals, g.index = f.index
          PROVE  FALSE
      <3>1. g.proposer = n
        BY <1>1, <1>3, <2>1, ProposerLeads
      <3>2. cycle(n) \in Nat
        BY PrevHashType
      <3> QED
        BY <1>1, <1>3, <2>1, <3>1, <3>2, SMTT(30) DEF CertInv, FinalsSettled
    <2> QED
      BY <1>5, <2>1, ZenonT(60)
  <1>10. ChainCertified'
    <2>1. CASE Fragmented
      BY <1>1, <2>1, SMTT(30) DEF CertInv, FragmentedIsEmpty, ChainCertified
    <2>2. CASE ~Fragmented
      BY <1>1, <1>9, <2>2 DEF CertInv, ChainCertified
    <2> QED
      BY <2>1, <2>2, ZenonT(60)
  <1>11. FlagKnown' /\ LabelBacked'
    BY <1>1, LabelsKept, ZenonT(60)
  <1>12. Staged(n)'
    BY <1>1, <1>6 DEF CertInv, Prepared, Staged, Proposed, cycle
  <1>13. Prepared'
    BY <1>1, <1>6, <1>12, PreparedKept, ZenonT(60) DEF Prepared
  <1>14. FragmentedIsEmpty'
    BY <1>1 DEF CertInv, FragmentedIsEmpty
  <1> QED
    BY <1>7, <1>8, <1>10, <1>11, <1>13, <1>14, ZenonT(60) DEF CertInv

\* A chain grows by the sealed final block of its height.
LEMMA CertSeal ==
    ASSUME TypeOK, ChainInv, ProposalInv, CertInv, NEW n \in Node, NEW f \in finals, Seals(n, f)
    PROVE  CertInv'
  <1>1. /\ AppendsBlock(n, f, Sealed(f, Peers[n])) /\ f.index = cycle(n)
        /\ pc' = [pc EXCEPT ![n] = "idle"] /\ prepareSigs' = [prepareSigs EXCEPT ![n] = {}]
        /\ inDegraded' = [inDegraded EXCEPT ![n] = Cardinality(Node) < MinValidators]
        /\ UNCHANGED <<leader, proposals, sigs, finals>>
        /\ ~Fragmented /\ verifyPrepareQuorum(f, Peers[n])
    BY ZenonT(60) DEF Seals, AppendsBlock
  <1>2. /\ pc'[n] = "idle"
        /\ \A m \in Node : m # n => /\ pc'[m] = pc[m] /\ prepareSigs'[m] = prepareSigs[m]
                                    /\ inDegraded'[m] = inDegraded[m]
    BY <1>1, ZenonT(60) DEF TypeOK
  <1>3. /\ \A m \in Node : m # n => blocks'[m] = blocks[m] /\ cycle(m)' = cycle(m)
        /\ cycle(n)' = cycle(n) + 1 /\ cycle(n) \in Nat
    BY <1>1, AppendFacts, ZenonT(60) DEF cycle
  <1>4. FlagKnown'
    BY <1>1 DEF CertInv, FlagKnown, TypeOK
  <1>5. FinalsWhole' /\ OneFinal'
    BY <1>1, ZenonT(60) DEF CertInv, FinalsWhole, Whole, OneFinal
  <1>6. FinalsSettled'
    <2> SUFFICES ASSUME NEW g \in finals
                 PROVE  \/ g.index < cycle(g.proposer)'
                        \/ g.index = cycle(g.proposer)' /\ pc'[g.proposer] = "append"
      BY <1>1 DEF FinalsSettled
    <2>1. g.proposer \in Node /\ g.index \in Nat
      BY ProposerLeads, ZenonT(60) DEF TypeOK, FinalType
    <2>2. \/ g.index < cycle(g.proposer)
          \/ g.index = cycle(g.proposer) /\ pc[g.proposer] = "append"
      BY <1>1, ZenonT(60) DEF CertInv, FinalsSettled
    <2> QED
      BY <1>2, <1>3, <2>1, <2>2, SMTT(30)
  <1>7. FragmentedIsEmpty'
    BY <1>1 DEF FragmentedIsEmpty, Fragmented
  <1>8. ChainCertified'
    <2> SUFFICES ASSUME NEW m \in Node, NEW i \in DOMAIN blocks'[m]
                 PROVE  \E g \in finals : /\ g.index = i - 1
                                          /\ verifyPrepareQuorum(g, Peers[m])
                                          /\ blocks'[m][i] = Sealed(g, Peers[m])
      BY <1>1, ZenonT(60) DEF ChainCertified
    <2>1. CASE m = n /\ i = Len(blocks[n]) + 1
      <3>1. blocks'[n][i] = Sealed(f, Peers[n]) /\ f.index = i - 1
        BY <1>1, <1>3, <2>1, AppendFacts, SMTT(30) DEF cycle
      <3> QED
        BY <1>1, <2>1, <3>1, ZenonT(60)
    <2>2. CASE ~(m = n /\ i = Len(blocks[n]) + 1)
      <3>1. i \in DOMAIN blocks[m] /\ blocks'[m][i] = blocks[m][i]
        BY <1>1, <2>2, AppendFacts, SMTT(30)
      <3> QED
        BY <3>1, ZenonT(60) DEF CertInv, ChainCertified
    <2> QED
      BY <2>1, <2>2, ZenonT(60)
  <1>9. LabelBacked'
    <2> SUFFICES ASSUME NEW b \in proposals, b.index = cycle(b.proposer)'
                 PROVE  \/ requiredQuorum(b.proposer)' >= RequiredIn(b, Peers[b.proposer])
                        \/ Cardinality(validPrepareSigs(b, sigs)) >= RequiredIn(b, Peers[b.proposer])
      BY <1>1, ZenonT(60) DEF LabelBacked
    <2>1. b.proposer \in Node /\ b.index <= cycle(n)
      BY ProposerLeads DEF ProposalInv, ProposalFacts, cycle
    <2>2. b.proposer # n
      BY <1>3, <2>1, SMTT(30)
    <2>3. requiredQuorum(b.proposer)' = requiredQuorum(b.proposer) /\ b.index = cycle(b.proposer)
      BY <1>2, <1>3, <2>1, <2>2 DEF requiredQuorum
    <2> QED
      BY <2>3 DEF CertInv, LabelBacked
  <1>10. ASSUME NEW m \in Node, m # n
         PROVE  Staged(m)'
    BY <1>1, <1>2, <1>3, <1>10, PreparedKept, ZenonT(60)
  <1>11. Prepared'
    BY <1>2, <1>10 DEF Prepared, Staged
  <1> QED
    BY <1>4, <1>5, <1>6, <1>7, <1>8, <1>9, <1>11, ZenonT(60) DEF CertInv

\* Every step keeps the certificates.
LEMMA CertNext ==
    ASSUME TypeOK, ChainInv, ProposalInv, CertInv, [Next]_vars
    PROVE  CertInv'
  <1>1. CASE UNCHANGED vars
    <2>1. UNCHANGED <<pc, blocks, leader, inDegraded, prepareSigs, proposals, sigs, finals>>
      BY <1>1 DEF vars, engineVars, busVars
    <2>2. FlagKnown' /\ LabelBacked'
      BY <2>1, LabelsKept
    <2>3. Prepared'
      BY <2>1, PreparedKept, ZenonT(60) DEF Prepared
    <2>4. FinalsWhole' /\ OneFinal' /\ FinalsSettled'
      BY <2>1, ZenonT(60) DEF CertInv, FinalsWhole, Whole, OneFinal, FinalsSettled, cycle
    <2>5. ChainCertified' /\ FragmentedIsEmpty'
      BY <2>1 DEF CertInv, ChainCertified, FragmentedIsEmpty
    <2> QED
      BY <2>2, <2>3, <2>4, <2>5, ZenonT(60) DEF CertInv
  <1>2. ASSUME NEW n \in Node,
               Client(n) \/ Start(n) \/ PublishVRFProof(n) \/ Select(n) \/ Build(n)
        PROVE  CertInv'
    <2>1. UNCHANGED <<blocks, finals, proposals, inDegraded, leader, sigs, prepareSigs>>
      BY <1>2, ZenonT(60) DEF Client, Enqueue, Submit, AcceptEntry, Publish, Start, StartCycle,
         PublishVRFProof, AfterVRFProof, BusPublishVRFProof, Select, SelectProposer, Build,
         BuildCandidate, busVars
    <2>2. /\ \A m \in Node : m # n => pc'[m] = pc[m]
          /\ pc'[n] \in {"idle", "vrf", "elect", "build", "await", "propose"}
          /\ pc[n] # "append"
      BY <1>2, SMTT(30) DEF Client, Enqueue, Submit, AcceptEntry, Start, StartCycle, PublishVRFProof,
         AfterVRFProof, Select, SelectProposer, Build, BuildCandidate, Goto, TypeOK
    <2> QED
      BY <2>1, <2>2, QuietStep
  <1>3. ASSUME NEW n \in Node, Propose(n)
        PROVE  CertInv'
    BY <1>3, CertPropose
  <1>4. ASSUME NEW n \in Node,
               SignOwn(n) \/ (Accepts(n) /\ UNCHANGED <<inDegraded, prepareSigs>>) \/ Quorum(n)
        PROVE  CertInv'
    BY <1>4, CertSign
  <1>5. ASSUME NEW n \in Node, PublishFinal(n)
        PROVE  CertInv'
    BY <1>5, CertPublishFinal
  <1>6. ASSUME NEW n \in Node, NEW f \in finals, Seals(n, f)
        PROVE  CertInv'
    BY <1>6, CertSeal
  <1>7. ASSUME NEW n \in Node, RollsBack(n)
        PROVE  CertInv'
    BY <1>7, CertRollBack
  <1> QED
    BY <1>1, <1>2, <1>3, <1>4, <1>5, <1>6, <1>7, CertCases, ZenonT(60)

\* Final blocks and chains carry whole certificates, in every state.
THEOREM CertCorrect == Spec => []CertInv
  <1>1. TypeOK /\ ChainInv /\ ProposalInv /\ CertInv /\ [Next]_vars => CertInv'
    BY CertNext
  <1> QED
    BY CertInit, TypeCorrect, ChainCorrect, ProposalCorrect, <1>1, PTL DEF Spec

\* What a validator commits is certified by published signatures, as many as its label
\* asks for, passes verifyPrepareQuorum again after ApplyDegradedBlock, and is the same
\* block, signatures included, on every validator that commits the height.  It holds for
\* every number of validators, above and below MinValidators, whether or not they list
\* their peers in one order.
THEOREM CertifiedHolds == Spec => []Certified
  <1>1. ASSUME TypeOK, CertInv, NEW n \in Node, NEW i \in DOMAIN blocks[n], NEW f \in finals,
               verifyPrepareQuorum(f, Peers[n]), blocks[n][i] = Sealed(f, Peers[n])
        PROVE  /\ \A k \in blocks[n][i].bitmap : BlockSig(Peers[n][k], blocks[n][i]) \in sigs
               /\ Cardinality(blocks[n][i].bitmap) >= RequiredIn(blocks[n][i], Peers[n])
               /\ verifyPrepareQuorum(blocks[n][i], Peers[n])
    <2> DEFINE b == blocks[n][i]
    <2>1. f \in FinalType /\ Whole(f) /\ f.bitmap # {}
      BY <1>1, WholeFacts, ZenonT(60) DEF TypeOK, CertInv, FinalsWhole
    <2>2. \A k \in f.bitmap : SigVerifies(f, Peers[n], k) /\ Peers[n][k] = Peers[f.proposer][k]
      BY <1>1, <2>1, WholeFacts, ZenonT(60)
    <2>3. \A k \in f.bitmap : BlockSig(Peers[n][k], f) \in sigs
      BY <2>1, <2>2, ZenonT(60) DEF Whole
    <2>4. CASE Cardinality(Node) < MinValidators
      <3>1. b = TrimToOne(f, Peers[n])
        BY <1>1, <2>4 DEF Sealed
      <3> DEFINE k == CHOOSE k \in f.bitmap : \A j \in f.bitmap : k <= j
                 t == TrimToOne(f, Peers[n])
      <3>a. /\ k \in f.bitmap /\ t.bitmap = {k} /\ t.degraded /\ SameBody(t, f)
            /\ verifyPrepareQuorum(t, Peers[n])
        BY <2>1, <2>2, TrimVerifies, ZenonT(60)
      <3> HIDE DEF k, t
      <3>2. /\ k \in f.bitmap /\ b.bitmap = {k} /\ b.degraded /\ SameBody(b, f)
            /\ verifyPrepareQuorum(b, Peers[n])
        BY <3>1, <3>a, ZenonT(60) DEF t
      <3>3. BlockSig(Peers[n][k], b) = BlockSig(Peers[n][k], f)
        BY <3>2, SameBodySameHash, ZenonT(60) DEF BlockSig, SameBody
      <3>4. Cardinality(b.bitmap) = 1 /\ RequiredIn(b, Peers[n]) = 1
        BY <3>2, FS_Singleton, ZenonT(60) DEF RequiredIn
      <3> HIDE DEF b
      <3>5. \A j \in b.bitmap : BlockSig(Peers[n][j], b) \in sigs
        BY <2>3, <3>2, <3>3, ZenonT(60)
      <3>6. Cardinality(b.bitmap) >= RequiredIn(b, Peers[n])
        BY <3>4, SMTT(30)
      <3> QED
        BY <3>2, <3>5, <3>6, ZenonT(60) DEF b
    <2>5. CASE ~(Cardinality(Node) < MinValidators)
      BY <1>1, <2>1, <2>3, <2>5, WholeFacts, ZenonT(60) DEF Sealed
    <2> QED
      BY <2>4, <2>5, ZenonT(60)
  <1>2. TypeOK /\ CertInv => QuorumCertified /\ CommittedVerifies
    BY <1>1, ZenonT(60) DEF CertInv, ChainCertified, QuorumCertified, CommittedVerifies
  <1>3. ASSUME TypeOK, CertInv, NEW m \in Node, NEW n \in Node,
               NEW i \in DOMAIN blocks[m] \cap DOMAIN blocks[n]
        PROVE  blocks[m][i] = blocks[n][i]
    <2>1. PICK f \in finals : /\ f.index = i - 1 /\ verifyPrepareQuorum(f, Peers[m])
                              /\ blocks[m][i] = Sealed(f, Peers[m])
      BY <1>3 DEF CertInv, ChainCertified
    <2>2. PICK g \in finals : /\ g.index = i - 1 /\ verifyPrepareQuorum(g, Peers[n])
                              /\ blocks[n][i] = Sealed(g, Peers[n])
      BY <1>3 DEF CertInv, ChainCertified
    <2>3. f = g
      BY <1>3, <2>1, <2>2 DEF CertInv, OneFinal
    <2>4. f \in FinalType /\ Whole(f) /\ f.bitmap # {}
      BY <1>3, WholeFacts, ZenonT(60) DEF TypeOK, CertInv, FinalsWhole
    <2>5. TrimToOne(f, Peers[m]) = TrimToOne(f, Peers[n])
      <3>1. /\ \A k \in f.bitmap : SigVerifies(f, Peers[m], k)
            /\ \A k \in f.bitmap : SigVerifies(f, Peers[n], k)
        BY <1>3, <2>1, <2>2, <2>3, <2>4, WholeFacts, ZenonT(60)
      <3> QED
        BY <2>4, <3>1, TrimVerifies, ZenonT(60)
    <2> QED
      BY <2>1, <2>2, <2>3, <2>5, ZenonT(60) DEF Sealed
  <1>4. TypeOK /\ CertInv => CertificatesAgree
    BY <1>3 DEF CertificatesAgree
  <1>5. TypeOK /\ CertInv => Certified
    BY <1>2, <1>4 DEF Certified
  <1> QED
    BY TypeCorrect, CertCorrect, <1>5, PTL

-----------------------------------------------------------------------------
\* The tree at the start of the cycle holds the chain, and only grows in the cycle.
TreeKept ==
    \A n \in Node : /\ Committed(n) \subseteq AlphaRoot(n)
                    /\ pc[n] # "idle" => snap[n] \subseteq st[n]

\* A proposal that is not final yet is still in the pool, so a proposer that
\* builds again takes at least what it proposed before.
OpenInPool ==
    ~Fragmented =>
        /\ \A b \in proposals : (\A f \in finals : f.index # b.index) => b.anchored \subseteq pool
        /\ \A n \in Node : pc[n] = "propose" /\ Final(cycle(n)) = {} => batch[n] \subseteq pool

\* Past the proposal the tree holds the proposed entries.
ProposedInTree ==
    ~Fragmented => \A n \in Node :
        pc[n] \in {"propose", "sign", "quorum", "commit", "append"} =>
            \A b \in Proposed(cycle(n)) : b.anchored \subseteq st[n]

TreeInv == TreeKept /\ OpenInPool /\ ProposedInTree

\* No proposal is empty.
BatchesFilled ==
    /\ \A n \in Node : pc[n] = "propose" => batch[n] # {}
    /\ \A b \in proposals : b.anchored # {}

\* The heights of the final blocks have no gap.
FinalsCount ==
    /\ IsFiniteSet(finals)
    /\ {f.index : f \in finals} = 0..(Cardinality(finals) - 1)

LogInv == BatchesFilled /\ FinalsCount

-----------------------------------------------------------------------------
\* Trees and proposals start empty.
LEMMA TreeInit == Init => TreeInv
  BY SMTT(30) DEF Init, EngineInit, BusInit, TreeInv, TreeKept, OpenInPool, ProposedInTree, Committed,
     AlphaRoot

\* A leader that builds has no final block at its height: it would be committing it.
LEMMA BuilderOpen ==
    ASSUME TypeOK, ChainInv, ProposalInv, CertInv, ~Fragmented, NEW n \in Node,
           pc[n] \in {"build", "propose", "sign"}
    PROVE  Final(cycle(n)) = {}
  <1> SUFFICES ASSUME NEW f \in finals, f.index = cycle(n)
               PROVE  FALSE
    BY DEF Final
  <1>1. f.proposer = n
    BY ProposerLeads DEF ProposalInv, Roles
  <1>2. cycle(n) \in Nat
    BY PrevHashType
  <1> QED
    BY <1>1, <1>2, SMTT(30) DEF CertInv, FinalsSettled

\* The tree of a node that moves on inside a cycle only grows.
LEMMA TreeMoves ==
    ASSUME TypeOK, TreeInv, NEW n \in Node, NEW to, pc[n] # "idle", to # "idle",
           pc' = [pc EXCEPT ![n] = to], UNCHANGED <<blocks, snap>>,
           st[n] \subseteq st'[n], \A m \in Node : m # n => st'[m] = st[m]
    PROVE  TreeKept'
  <1>1. \A m \in Node : Committed(m)' = Committed(m)
    BY DEF Committed
  <1>2. /\ pc'[n] = to
        /\ \A m \in Node : m # n => pc'[m] = pc[m]
    BY DEF TypeOK
  <1>3. \A m \in Node : AlphaRoot(m)' = AlphaRoot(m)
    BY <1>2 DEF AlphaRoot
  <1>4. \A m \in Node : pc'[m] # "idle" => snap'[m] \subseteq st'[m]
    BY <1>2 DEF TreeInv, TreeKept
  <1> QED
    BY <1>1, <1>3, <1>4 DEF TreeInv, TreeKept

\* The pool keeps an open proposal when nothing is removed and no proposer starts over.
LEMMA PoolKept ==
    ASSUME TypeOK, TreeInv, NEW n \in Node, UNCHANGED <<blocks, proposals, finals>>,
           pool \subseteq pool', pc'[n] # "propose" \/ pc'[n] = pc[n], pc'[n] = pc[n] => batch'[n] = batch[n],
           \A m \in Node : m # n => pc'[m] = pc[m] /\ batch'[m] = batch[m]
    PROVE  OpenInPool'
  <1> SUFFICES ASSUME ~Fragmented
               PROVE  /\ \A b \in proposals :
                            (\A f \in finals : f.index # b.index) => b.anchored \subseteq pool'
                      /\ \A m \in Node : pc'[m] = "propose" /\ Final(cycle(m)) = {}
                                             => batch'[m] \subseteq pool'
    BY DEF OpenInPool, Final, cycle, Fragmented
  <1>1. \A b \in proposals : (\A f \in finals : f.index # b.index) => b.anchored \subseteq pool'
    BY DEF TreeInv, OpenInPool
  <1>2. ASSUME NEW m \in Node, pc'[m] = "propose", Final(cycle(m)) = {}
        PROVE  batch'[m] \subseteq pool'
    BY <1>2 DEF TreeInv, OpenInPool
  <1> QED
    BY <1>1, <1>2

\* A step outside the batch leaves the proposed entries in every tree.
LEMMA ProposedKept ==
    ASSUME TypeOK, TreeInv, NEW n \in Node, UNCHANGED proposals,
           \A m \in Node : m # n => /\ pc'[m] = pc[m] /\ st'[m] = st[m] /\ blocks'[m] = blocks[m],
           ~Fragmented /\ pc'[n] \in {"propose", "sign", "quorum", "commit", "append"} =>
               \A b \in Proposed(cycle(n))' : b.anchored \subseteq st'[n]
    PROVE  ProposedInTree'
  <1> SUFFICES ASSUME ~Fragmented, NEW m \in Node,
                      pc'[m] \in {"propose", "sign", "quorum", "commit", "append"},
                      NEW b \in Proposed(cycle(m))'
               PROVE  b.anchored \subseteq st'[m]
    BY DEF ProposedInTree, Fragmented
  <1>1. CASE m = n
    BY <1>1
  <1>2. CASE m # n
    <2>1. b \in Proposed(cycle(m))
      BY <1>2 DEF Proposed, cycle
    <2> QED
      BY <1>2, <2>1 DEF TreeInv, ProposedInTree
  <1> QED
    BY <1>1, <1>2

\* A commit: the tree already holds what the final block anchors.
LEMMA TreeSeal ==
    ASSUME TypeOK, ChainInv, ProposalInv, PoolInv, CertInv, TreeInv,
           NEW n \in Node, NEW f \in finals, Seals(n, f)
    PROVE  TreeInv'
  <1> DEFINE s == Sealed(f, Peers[n])
  <1>1. /\ AppendsBlock(n, f, s) /\ f.index = cycle(n) /\ ~Fragmented
        /\ s.anchored = f.anchored /\ pc[n] \in {"commit", "append"}
        /\ pc' = [pc EXCEPT ![n] = "idle"] /\ batch' = [batch EXCEPT ![n] = {}]
        /\ pool' = pool \ f.anchored
        /\ UNCHANGED <<st, snap, proposals, finals>>
    BY DEF Seals, AppendsBlock, SameBody
  <1> HIDE DEF s
  <1>2. /\ pc'[n] = "idle"
        /\ \A m \in Node : m # n => pc'[m] = pc[m] /\ batch'[m] = batch[m]
    BY <1>1 DEF TypeOK
  <1>3. PICK b \in proposals : SameBody(f, b)
    BY DEF ChainInv, FinalsProposed
  <1>4. b.index = cycle(n) /\ b.anchored = f.anchored
    BY <1>1, <1>3 DEF SameBody
  <1>5. f.anchored \subseteq st[n]
    BY <1>1, <1>4 DEF TreeInv, ProposedInTree, Proposed
  <1>6. TreeKept'
    <2>1. ASSUME NEW m \in Node, m # n
          PROVE  Committed(m)' = Committed(m) /\ AlphaRoot(m)' = AlphaRoot(m)
      BY <1>1, <1>2, <2>1, AppendFacts, SMTT(30) DEF Committed, AlphaRoot
    <2>2. Committed(n)' \subseteq Committed(n) \cup f.anchored
      <3> SUFFICES ASSUME NEW i \in DOMAIN blocks'[n]
                   PROVE  blocks'[n][i].anchored \subseteq Committed(n) \cup f.anchored
        BY DEF Committed
      <3>1. CASE i = Len(blocks[n]) + 1
        BY <1>1, <3>1, AppendFacts, SMTT(30)
      <3>2. CASE i # Len(blocks[n]) + 1
        <4>1. i \in DOMAIN blocks[n] /\ blocks'[n][i] = blocks[n][i]
          BY <1>1, <3>2, AppendFacts, SMTT(30)
        <4> QED
          BY <4>1 DEF Committed
      <3> QED
        BY <3>1, <3>2
    <2>3. Committed(n) \subseteq st[n] /\ AlphaRoot(n)' = st[n]
      BY <1>1, <1>2 DEF TreeInv, TreeKept, AlphaRoot
    <2>4. \A m \in Node : Committed(m)' \subseteq AlphaRoot(m)'
      BY <1>5, <2>1, <2>2, <2>3, ZenonT(60) DEF TreeInv, TreeKept
    <2>5. \A m \in Node : pc'[m] # "idle" => snap'[m] \subseteq st'[m]
      BY <1>1, <1>2 DEF TreeInv, TreeKept
    <2> QED
      BY <2>4, <2>5 DEF TreeKept
  <1>7. OpenInPool'
    <2>1. ASSUME NEW c \in proposals, \A g \in finals : g.index # c.index
          PROVE  c.anchored \subseteq pool'
      <3>1. c.anchored \subseteq pool
        BY <1>1, <2>1 DEF TreeInv, OpenInPool
      <3>2. c.index # b.index
        BY <1>1, <1>4, <2>1
      <3>3. c.anchored \cap f.anchored = {}
        BY <1>4, <3>2 DEF PoolInv, ProposalsDisjoint
      <3> QED
        BY <1>1, <3>1, <3>3
    <2>2. ASSUME NEW m \in Node, pc'[m] = "propose", Final(cycle(m)') = {}
          PROVE  batch'[m] \subseteq pool'
      <3>1. m # n /\ pc[m] = "propose" /\ batch'[m] = batch[m] /\ cycle(m)' = cycle(m)
        BY <1>1, <1>2, <2>2, AppendFacts, ZenonT(60) DEF cycle
      <3>2. batch[m] \subseteq pool
        BY <1>1, <2>2, <3>1 DEF TreeInv, OpenInPool
      <3>3. f.index # cycle(m)
        BY <2>2, <3>1 DEF Final
      <3>4. /\ f.index \in Nat /\ f.index <= Len(blocks[m]) /\ Len(blocks[m]) \in Nat
            /\ DOMAIN blocks[m] = 1..Len(blocks[m])
        <4>1. f.index \in Nat /\ blocks[m] \in Seq(FinalType)
          BY DEF TypeOK, FinalType
        <4>2. b.index <= Len(blocks[m])
          BY DEF ProposalInv, ProposalFacts
        <4>3. Len(blocks[m]) \in Nat /\ DOMAIN blocks[m] = 1..Len(blocks[m])
          BY <4>1, SMTT(30)
        <4> QED
          BY <1>1, <1>4, <4>1, <4>2, <4>3, ZenonT(60)
      <3>5. f.index + 1 \in DOMAIN blocks[m]
        BY <3>3, <3>4, SMTT(30) DEF cycle
      <3>6. PICK d \in proposals : SameBody(blocks[m][f.index + 1], d)
        BY <3>5 DEF ChainInv, ChainProposed
      <3>7. blocks[m][f.index + 1].index = f.index
        BY <3>4, <3>5, SMTT(30) DEF ChainInv, ChainProposed
      <3>8. d = b
        BY <1>1, <1>4, <3>6, <3>7 DEF ChainInv, OneProposal, SameBody
      <3>9. blocks[m][f.index + 1].anchored = f.anchored
        BY <1>4, <3>6, <3>8, ZenonT(60) DEF SameBody
      <3>10. f.anchored \cap batch[m] = {}
        BY <3>1, <3>5, <3>9, ZenonT(60) DEF PoolInv, ChainLeavesPool
      <3> QED
        BY <1>1, <3>1, <3>2, <3>10, ZenonT(60)
    <2> QED
      BY <1>1, <2>1, <2>2 DEF OpenInPool, Final
  <1>8. ProposedInTree'
    <2>1. \A m \in Node : m # n => /\ pc'[m] = pc[m] /\ st'[m] = st[m] /\ blocks'[m] = blocks[m]
      BY <1>1, <1>2, AppendFacts
    <2> QED
      BY <1>1, <1>2, <2>1, ProposedKept, ZenonT(60)
  <1> QED
    BY <1>6, <1>7, <1>8 DEF TreeInv

\* The proposal is in its proposer's tree, and in nobody's who did not accept it.
LEMMA TreePropose ==
    ASSUME TypeOK, ChainInv, ProposalInv, CertInv, TreeInv, NEW n \in Node, Propose(n)
    PROVE  TreeInv'
  <1> DEFINE c == Candidate(n)
  <1>1. /\ pc[n] = "propose" /\ pc' = [pc EXCEPT ![n] = "sign"]
        /\ proposals' = IF \E q \in proposals : q.index = c.index
                        THEN proposals ELSE proposals \cup {c}
        /\ UNCHANGED <<blocks, st, snap, batch, pool, finals, leader>>
    BY DEF Propose, AfterPropose, Goto, BusPropose
  <1>2. c.index = cycle(n) /\ c.anchored = batch[n]
    BY CandidateTyped
  <1> HIDE DEF c
  <1>3. pc'[n] = "sign" /\ \A m \in Node : m # n => pc'[m] = pc[m]
    BY <1>1 DEF TypeOK
  <1>4. TreeKept'
    BY <1>1, TreeMoves
  <1>5. OpenInPool'
    <2> SUFFICES ASSUME ~Fragmented
                 PROVE  /\ \A b \in proposals' :
                              (\A f \in finals : f.index # b.index) => b.anchored \subseteq pool
                        /\ \A m \in Node : pc'[m] = "propose" /\ Final(cycle(m)) = {}
                                               => batch[m] \subseteq pool
      BY <1>1 DEF OpenInPool, Final, cycle, Fragmented
    <2>1. ASSUME NEW b \in proposals', \A f \in finals : f.index # b.index
          PROVE  b.anchored \subseteq pool
      <3>1. CASE b \in proposals
        BY <2>1, <3>1 DEF TreeInv, OpenInPool
      <3>2. CASE b = c
        <4>1. Final(cycle(n)) = {}
          BY <1>2, <2>1, <3>2, ZenonT(60) DEF Final
        <4> QED
          BY <1>1, <1>2, <3>2, <4>1, ZenonT(60) DEF TreeInv, OpenInPool
      <3> QED
        BY <1>1, <3>1, <3>2
    <2>2. \A m \in Node : pc'[m] = "propose" /\ Final(cycle(m)) = {} => batch[m] \subseteq pool
      BY <1>3 DEF TreeInv, OpenInPool
    <2> QED
      BY <2>1, <2>2
  <1>6. ProposedInTree'
    <2> SUFFICES ASSUME ~Fragmented, NEW m \in Node,
                        pc'[m] \in {"propose", "sign", "quorum", "commit", "append"},
                        NEW b \in proposals', b.index = cycle(m)
                 PROVE  b.anchored \subseteq st[m]
      BY <1>1 DEF ProposedInTree, Proposed, cycle, Fragmented
    <2>1. pc[m] \in {"propose", "sign", "quorum", "commit", "append"}
      BY <1>1, <1>3
    <2>2. CASE b \in proposals
      BY <2>1, <2>2 DEF TreeInv, ProposedInTree, Proposed
    <2>3. CASE b \notin proposals
      <3>1. b = c /\ ~\E q \in proposals : q.index = c.index
        BY <1>1, <2>3
      <3>2. Proposed(cycle(m)) = {}
        BY <3>1 DEF Proposed
      <3>3. pc[m] = "propose"
        BY <2>1, <3>2 DEF CertInv, Prepared, Staged
      <3>4. m = n
        BY <1>1, <1>2, <3>1, <3>3, SMTT(30) DEF ProposalInv, Roles
      <3>5. batch[n] \subseteq st[n]
        BY <1>1 DEF ProposalInv, TreeInPrepare
      <3> QED
        BY <1>2, <3>1, <3>4, <3>5, ZenonT(60)
    <2> QED
      BY <2>2, <2>3
  <1> QED
    BY <1>4, <1>5, <1>6 DEF TreeInv

\* Every step keeps the trees of running cycles ahead of the chain.
LEMMA TreeNext ==
    ASSUME TypeOK, ChainInv, ProposalInv, PoolInv, CertInv, TreeInv, [Next]_vars
    PROVE  TreeInv'
  <1>1. CASE UNCHANGED vars
    <2>1. UNCHANGED <<pc, blocks, st, snap, batch, pool, proposals, finals>>
      BY <1>1 DEF vars, engineVars, busVars
    <2> QED
      BY <2>1 DEF TreeInv, TreeKept, OpenInPool, ProposedInTree, Committed, AlphaRoot, Final,
         Proposed, cycle
  <1>2. ASSUME NEW n \in Node, Client(n)
        PROVE  TreeInv'
    <2>1. UNCHANGED <<pc, blocks, st, snap, batch, proposals, finals>> /\ pool \subseteq pool'
      BY <1>2 DEF Client, Enqueue, Submit, AcceptEntry, Publish, busVars
    <2>2. TreeKept'
      BY <2>1 DEF TreeInv, TreeKept, Committed, AlphaRoot
    <2>3. OpenInPool'
      BY <2>1, PoolKept
    <2>4. ProposedInTree'
      BY <2>1, ZenonT(60) DEF TreeInv, ProposedInTree, Proposed, cycle
    <2> QED
      BY <2>2, <2>3, <2>4, ZenonT(60) DEF TreeInv
  <1>3. ASSUME NEW n \in Node, Start(n)
        PROVE  TreeInv'
    <2>1. /\ pc[n] = "idle" /\ pc' = [pc EXCEPT ![n] = "vrf"]
          /\ snap' = [snap EXCEPT ![n] = st[n]]
          /\ UNCHANGED <<blocks, st, batch, pool, proposals, finals>>
      BY <1>3 DEF Start, StartCycle, busVars
    <2>2. /\ pc'[n] = "vrf" /\ snap'[n] = st[n]
          /\ \A m \in Node : m # n => pc'[m] = pc[m] /\ snap'[m] = snap[m]
      BY <2>1 DEF TypeOK
    <2>3. TreeKept'
      <3>1. \A m \in Node : Committed(m)' = Committed(m)
        BY <2>1 DEF Committed
      <3>2. \A m \in Node : AlphaRoot(m)' = AlphaRoot(m)
        BY <2>1, <2>2 DEF AlphaRoot
      <3>3. \A m \in Node : pc'[m] # "idle" => snap'[m] \subseteq st'[m]
        BY <2>1, <2>2 DEF TreeInv, TreeKept
      <3> QED
        BY <3>1, <3>2, <3>3, ZenonT(60) DEF TreeInv, TreeKept
    <2>4. OpenInPool'
      BY <2>1, <2>2, PoolKept
    <2>5. ProposedInTree'
      BY <2>1, <2>2, ProposedKept
    <2> QED
      BY <2>3, <2>4, <2>5 DEF TreeInv
  <1>4. ASSUME NEW n \in Node, PublishVRFProof(n) \/ Select(n)
        PROVE  TreeInv'
    <2>1. PICK to \in {"elect", "build", "await"} :
              /\ pc[n] \in {"vrf", "elect"} /\ pc' = [pc EXCEPT ![n] = to]
              /\ UNCHANGED <<blocks, st, snap, batch, pool, proposals, finals>>
      BY <1>4 DEF PublishVRFProof, AfterVRFProof, BusPublishVRFProof, Select, SelectProposer, Goto,
         busVars
    <2>2. pc'[n] = to /\ \A m \in Node : m # n => pc'[m] = pc[m]
      BY <2>1 DEF TypeOK
    <2>3. TreeKept'
      BY <2>1, TreeMoves
    <2>4. OpenInPool'
      BY <2>1, <2>2, PoolKept, ZenonT(60)
    <2>5. ProposedInTree'
      BY <2>1, <2>2, ProposedKept, ZenonT(60)
    <2> QED
      BY <2>3, <2>4, <2>5, ZenonT(60) DEF TreeInv
  <1>5. ASSUME NEW n \in Node, Build(n)
        PROVE  TreeInv'
    <2>1. /\ pc[n] = "build" /\ pc' = [pc EXCEPT ![n] = "propose"]
          /\ batch' = [batch EXCEPT ![n] = pool] /\ st' = [st EXCEPT ![n] = @ \cup pool]
          /\ UNCHANGED <<blocks, snap, pool, proposals, finals>>
      BY <1>5 DEF Build, BuildCandidate, Goto, busVars
    <2>2. /\ pc'[n] = "propose" /\ batch'[n] = pool /\ st'[n] = st[n] \cup pool
          /\ \A m \in Node : m # n => pc'[m] = pc[m] /\ batch'[m] = batch[m] /\ st'[m] = st[m]
      BY <2>1 DEF TypeOK
    <2>3. TreeKept'
      BY <2>1, <2>2, TreeMoves, ZenonT(60)
    <2>4. OpenInPool'
      BY <2>1, <2>2, SMTT(30) DEF TreeInv, OpenInPool, Final, cycle
    <2>5. ASSUME ~Fragmented, NEW b \in Proposed(cycle(n))'
          PROVE  b.anchored \subseteq st'[n]
      <3>1. b \in proposals /\ b.index = cycle(n)
        BY <2>1 DEF Proposed, cycle
      <3>2. \A f \in finals : f.index # b.index
        BY <2>1, <2>5, <3>1, BuilderOpen, ZenonT(60) DEF Final
      <3> QED
        BY <2>2, <2>5, <3>1, <3>2 DEF TreeInv, OpenInPool
    <2>6. ProposedInTree'
      BY <2>1, <2>2, <2>5, ProposedKept
    <2> QED
      BY <2>3, <2>4, <2>6 DEF TreeInv
  <1>6. ASSUME NEW n \in Node, Propose(n)
        PROVE  TreeInv'
    BY <1>6, TreePropose
  <1>7. ASSUME NEW n \in Node, SignOwn(n) \/ Quorum(n)
        PROVE  TreeInv'
    <2>1. PICK to \in {"quorum", "commit"} :
              /\ pc[n] \in {"sign", "quorum"} /\ pc' = [pc EXCEPT ![n] = to]
              /\ UNCHANGED <<blocks, st, snap, batch, pool, proposals, finals>>
      BY <1>7, ZenonT(60) DEF SignOwn, AfterSign, Goto, BusPublishSig, Quorum, CheckQuorum, busVars
    <2>2. pc'[n] = to /\ \A m \in Node : m # n => pc'[m] = pc[m]
      BY <2>1 DEF TypeOK
    <2>3. TreeKept'
      BY <2>1, TreeMoves
    <2>4. OpenInPool'
      BY <2>1, <2>2, PoolKept, ZenonT(60)
    <2>5. \A b \in Proposed(cycle(n))' : ~Fragmented => b.anchored \subseteq st[n]
      BY <2>1 DEF TreeInv, ProposedInTree, Proposed, cycle
    <2>6. ProposedInTree'
      BY <2>1, <2>2, <2>5, ProposedKept, ZenonT(60)
    <2> QED
      BY <2>3, <2>4, <2>6, ZenonT(60) DEF TreeInv
  <1>8. ASSUME NEW n \in Node, Accepts(n)
        PROVE  TreeInv'
    <2>1. PICK b \in Proposed(cycle(n)) :
              /\ pc[n] = "await" /\ pc' = [pc EXCEPT ![n] = "quorum"]
              /\ st' = [st EXCEPT ![n] = @ \cup b.anchored]
              /\ UNCHANGED <<blocks, snap, batch, pool, proposals, finals>>
      BY <1>8, ZenonT(60) DEF Accepts, Goto, BusPublishSig
    <2>2. /\ pc'[n] = "quorum" /\ st'[n] = st[n] \cup b.anchored
          /\ \A m \in Node : m # n => pc'[m] = pc[m] /\ st'[m] = st[m]
      BY <2>1 DEF TypeOK
    <2>3. TreeKept'
      BY <2>1, <2>2, TreeMoves, ZenonT(60)
    <2>4. OpenInPool'
      BY <2>1, <2>2, PoolKept, ZenonT(60)
    <2>5. \A d \in Proposed(cycle(n))' : d = b
      BY <2>1 DEF Proposed, cycle, ChainInv, OneProposal
    <2>6. ProposedInTree'
      BY <2>1, <2>2, <2>5, ProposedKept, ZenonT(60)
    <2> QED
      BY <2>3, <2>4, <2>6 DEF TreeInv
  <1>9. ASSUME NEW n \in Node, PublishFinal(n)
        PROVE  TreeInv'
    <2>1. PICK f : /\ pc[n] = "commit" /\ pc' = [pc EXCEPT ![n] = "append"]
                   /\ finals' = {g \in finals : g.index # f.index} \cup {f}
                   /\ UNCHANGED <<blocks, st, snap, batch, pool, proposals>>
      BY <1>9, ZenonT(60) DEF PublishFinal, AfterPublishFinal, Goto, BusPublishFinal
    <2>2. pc'[n] = "append" /\ \A m \in Node : m # n => pc'[m] = pc[m]
      BY <2>1 DEF TypeOK
    <2>3. TreeKept'
      BY <2>1, TreeMoves
    <2>4. \A i : (\A g \in finals' : g.index # i) => (\A g \in finals : g.index # i)
      BY <2>1, ZenonT(60)
    <2>5. OpenInPool'
      <3>1. \A b \in proposals : (\A g \in finals' : g.index # b.index)
                                     => (\A g \in finals : g.index # b.index)
        BY <2>4
      <3>2. \A m \in Node : Final(cycle(m))' = {} => Final(cycle(m)) = {}
        BY <2>1, <2>4, ZenonT(60) DEF Final, cycle
      <3> QED
        BY <2>1, <2>2, <3>1, <3>2, ZenonT(60) DEF TreeInv, OpenInPool
    <2>6. \A b \in Proposed(cycle(n))' : ~Fragmented => b.anchored \subseteq st[n]
      BY <2>1, ZenonT(60) DEF TreeInv, ProposedInTree, Proposed, cycle
    <2>7. ProposedInTree'
      BY <2>1, <2>2, <2>6, ProposedKept, ZenonT(60)
    <2> QED
      BY <2>3, <2>5, <2>7 DEF TreeInv
  <1>10. ASSUME NEW n \in Node, NEW f \in finals, Seals(n, f)
         PROVE  TreeInv'
    BY <1>10, TreeSeal, ZenonT(60)
  <1>11. ASSUME NEW n \in Node, RollsBack(n)
         PROVE  TreeInv'
    <2>1. /\ pc[n] # "idle" /\ pc' = [pc EXCEPT ![n] = "idle"] /\ st' = [st EXCEPT ![n] = snap[n]]
          /\ batch' = [batch EXCEPT ![n] = {}]
          /\ UNCHANGED <<blocks, snap, pool, proposals, finals>>
      BY <1>11, ZenonT(60) DEF RollsBack, Aborts, Rollback, busVars
    <2>2. /\ pc'[n] = "idle" /\ st'[n] = snap[n]
          /\ \A m \in Node : m # n => pc'[m] = pc[m] /\ batch'[m] = batch[m] /\ st'[m] = st[m]
      BY <2>1, ZenonT(60) DEF TypeOK
    <2>3. TreeKept'
      <3>1. \A m \in Node : Committed(m)' = Committed(m)
        BY <2>1 DEF Committed
      <3>2. \A m \in Node : AlphaRoot(m)' = AlphaRoot(m)
        BY <2>1, <2>2, ZenonT(60) DEF AlphaRoot
      <3>3. \A m \in Node : pc'[m] # "idle" => snap'[m] \subseteq st'[m]
        BY <2>1, <2>2, ZenonT(60) DEF TreeInv, TreeKept
      <3> QED
        BY <3>1, <3>2, <3>3, ZenonT(60) DEF TreeInv, TreeKept
    <2>4. OpenInPool'
      BY <2>1, <2>2, PoolKept, ZenonT(60)
    <2>5. ProposedInTree'
      BY <2>1, <2>2, ProposedKept
    <2> QED
      BY <2>3, <2>4, <2>5 DEF TreeInv
  <1> QED
    BY <1>1, <1>2, <1>3, <1>4, <1>5, <1>6, <1>7, <1>8, <1>9, <1>10, <1>11, CertCases, ZenonT(60)

\* The trees are ahead of the chains, in every state.
THEOREM TreeCorrect == Spec => []TreeInv
  <1>1. TypeOK /\ ChainInv /\ ProposalInv /\ PoolInv /\ CertInv /\ TreeInv /\ [Next]_vars => TreeInv'
    BY TreeNext
  <1> QED
    BY TreeInit, TypeCorrect, ChainCorrect, ProposalCorrect, PoolCorrect, CertCorrect, <1>1, PTL DEF Spec

\* Whoever waits in a cycle can go on with it, for any number of validators that list
\* their peers in one order, as the nodes of one configuration do: nobody is two blocks
\* behind, no proposal and no final block is refused by a validator that waits for it,
\* and a tree at rest holds its chain.
THEOREM FollowableHolds ==
    ASSUME \A m, n \in Node : Peers[m] = Peers[n]
    PROVE  Spec => []Followable
  <1>1. TypeOK /\ ChainInv /\ ProposalInv /\ CertInv => FinalAlwaysVerifies
    <2> SUFFICES ASSUME TypeOK, ChainInv, ProposalInv, CertInv, NEW n \in Node, NEW f \in finals,
                        f.index = cycle(n)
                 PROVE  FinalVerifies(n, f)
      BY DEF FinalAlwaysVerifies, Final
    <2>1. f \in FinalType /\ Whole(f)
      BY ZenonT(60) DEF TypeOK, CertInv, FinalsWhole
    <2>2. f.proposer = leader[cycle(n)] /\ f.proposer \in Node
      BY ProposerLeads
    <2>3. verifyPrepareQuorum(f, Peers[n])
      <3>1. Peers[n] = Peers[f.proposer]
        BY <2>2, ZenonT(60)
      <3> QED
        BY <2>1, <3>1, WholeFacts, ZenonT(60)
    <2> QED
      BY <2>1, <2>2, <2>3, ZenonT(60) DEF FinalVerifies, VerifyDilithium, Whole
  <1>2. TreeInv => TreeCoversChain
    BY DEF TreeInv, TreeKept, TreeCoversChain, AlphaRoot
  <1>3. LagAtMostOne /\ ProposalAlwaysVerifies /\ FinalAlwaysVerifies /\ TreeCoversChain => Followable
    BY DEF Followable
  <1> QED
    BY TypeCorrect, ChainCorrect, ProposalCorrect, CertCorrect, TreeCorrect, LagHolds,
       ProposalVerifiesHolds, <1>1, <1>2, <1>3, PTL

-----------------------------------------------------------------------------
\* Nothing is decided at the start.
LEMMA LogInvInit == Init => LogInv
  <1> SUFFICES ASSUME Init PROVE LogInv
    OBVIOUS
  <1>1. BatchesFilled
    BY DEF Init, EngineInit, BusInit, BatchesFilled
  <1>2. finals = {} /\ IsFiniteSet(finals) /\ Cardinality(finals) = 0
    BY FS_EmptySet DEF Init, BusInit
  <1>3. {f.index : f \in finals} = {} /\ 0..(Cardinality(finals) - 1) = {}
    BY <1>2, SMTT(30)
  <1> QED
    BY <1>1, <1>2, <1>3 DEF LogInv, FinalsCount

\* As many blocks are final as a chain has, or one more.
LEMMA FinalHeights ==
    ASSUME TypeOK, ChainInv, ProposalInv, CertInv, FinalsCount, NEW n \in Node
    PROVE  /\ cycle(n) \in Nat /\ Cardinality(finals) \in Nat
           /\ cycle(n) <= Cardinality(finals) /\ Cardinality(finals) <= cycle(n) + 1
           /\ Final(cycle(n)) = {} => Cardinality(finals) = cycle(n)
           /\ \A f \in finals : f.index \in Nat /\ f.index < Cardinality(finals)
           /\ \A i \in Nat : i < Cardinality(finals) => \E f \in finals : f.index = i
  <1> DEFINE k == Cardinality(finals)
  <1>1. cycle(n) \in Nat /\ DOMAIN blocks[n] = 1..cycle(n)
    BY SMTT(30) DEF TypeOK, cycle
  <1>2. k \in Nat
    BY FS_CardinalityType DEF FinalsCount
  <1>3. \A f \in finals : f.index \in 0..(k - 1)
    BY DEF FinalsCount
  <1>4. \A i \in 0..(k - 1) : \E f \in finals : f.index = i
    BY DEF FinalsCount
  <1> HIDE DEF k
  <1>5. cycle(n) <= k
    <2> SUFFICES ASSUME k < cycle(n) PROVE FALSE
      BY <1>1, <1>2, SMTT(30)
    <2>1. k + 1 \in DOMAIN blocks[n]
      BY <1>1, <1>2, SMTT(30)
    <2>2. PICK f \in finals : f.index = (k + 1) - 1
      BY <2>1 DEF CertInv, ChainCertified
    <2> QED
      BY <1>2, <1>3, <2>2, SMTT(30)
  <1>6. k <= cycle(n) + 1
    <2> SUFFICES ASSUME cycle(n) + 1 < k PROVE FALSE
      BY <1>1, <1>2, SMTT(30)
    <2>1. PICK f \in finals : f.index = k - 1
      BY <1>1, <1>2, <1>4, SMTT(30)
    <2>2. PICK b \in proposals : SameBody(f, b)
      BY DEF ChainInv, FinalsProposed
    <2>3. b.index <= cycle(n)
      BY DEF ProposalInv, ProposalFacts, cycle
    <2> QED
      BY <1>1, <1>2, <2>1, <2>2, <2>3, SMTT(30) DEF SameBody
  <1>7. Final(cycle(n)) = {} => k <= cycle(n)
    BY <1>1, <1>2, <1>4, SMTT(30) DEF Final
  <1>8. Final(cycle(n)) = {} => k = cycle(n)
    BY <1>1, <1>2, <1>5, <1>7, SMTT(30)
  <1>9. \A i : i \in 0..(k - 1) <=> i \in Nat /\ i < k
    BY <1>2, SMTT(30)
  <1> QED
    BY <1>1, <1>2, <1>3, <1>4, <1>5, <1>6, <1>8, <1>9 DEF k

\* What publishing a final block does to the set of them: it decides the next height,
\* or, where state.Apply refuses every block, replaces the block of height 0 by one that
\* anchors the same entries.
LEMMA PublishOutcome ==
    ASSUME TypeOK, ChainInv, ProposalInv, CertInv, NEW n \in Node, PublishFinal(n)
    PROVE  \E b \in proposals, f \in FinalType :
              /\ SameBody(f, b) /\ f.index = cycle(n)
              /\ UNCHANGED <<blocks, proposals, accepted, batch>>
              /\ pc' = [pc EXCEPT ![n] = "append"]
              /\ \/ Final(cycle(n)) = {} /\ f \notin finals /\ finals' = finals \cup {f}
                 \/ \E g \in finals : /\ g.index = f.index /\ g.anchored = f.anchored
                                      /\ finals' = (finals \ {g}) \cup {f}
  <1>1. PICK b \in Proposed(cycle(n)) :
            /\ pc' = [pc EXCEPT ![n] = "append"]
            /\ finals' = {g \in finals : g.index # FinalBlock(n, b).index} \cup {FinalBlock(n, b)}
            /\ UNCHANGED <<blocks, proposals, accepted, batch>>
    BY DEF PublishFinal, AfterPublishFinal, Goto, BusPublishFinal
  <1> DEFINE f == FinalBlock(n, b)
  <1>2. b \in proposals /\ b.index = cycle(n)
    BY <1>1, ZenonT(60) DEF Proposed
  <1>3. f \in FinalType /\ SameBody(f, b) /\ f.index = cycle(n)
    BY <1>2, FinalBlockTyped DEF SameBody
  <1>4. finals' = {g \in finals : g.index # f.index} \cup {f}
    BY <1>1
  <1> HIDE DEF f
  <1>5. CASE Final(cycle(n)) = {}
    <2>1. f \notin finals /\ finals' = finals \cup {f}
      BY <1>3, <1>4, <1>5 DEF Final
    <2> QED
      BY <1>1, <1>2, <1>3, <1>5, <2>1, ZenonT(60)
  <1>6. ASSUME NEW g \in Final(cycle(n))
        PROVE  g \in finals /\ g.index = f.index /\ g.anchored = f.anchored
               /\ finals' = (finals \ {g}) \cup {f}
    <2>1. g \in finals /\ g.index = f.index
      BY <1>3, <1>6, ZenonT(60) DEF Final
    <2>2. PICK c \in proposals : SameBody(g, c)
      BY <2>1 DEF ChainInv, FinalsProposed
    <2>3. c = b
      BY <1>2, <1>3, <2>1, <2>2, ZenonT(60) DEF SameBody, ChainInv, OneProposal
    <2>4. g.anchored = f.anchored
      BY <1>3, <2>2, <2>3 DEF SameBody
    <2>5. {h \in finals : h.index # f.index} = finals \ {g}
      BY <2>1 DEF CertInv, OneFinal
    <2> QED
      BY <1>4, <2>1, <2>4, <2>5, ZenonT(60)
  <1> QED
    BY <1>1, <1>2, <1>3, <1>5, <1>6, ZenonT(60)

\* One more final block extends the heights by the next one.
LEMMA HeightsExtend ==
    ASSUME NEW k \in Nat
    PROVE  0..(k - 1) \cup {k} = 0..((k + 1) - 1)
  BY SMTT(30)

\* Every step keeps the heights of the final blocks without a gap, and no batch empty.
LEMMA LogInvNext ==
    ASSUME TypeOK, ChainInv, ProposalInv, CertInv, LogInv, [Next]_vars
    PROVE  LogInv'
  <1>1. ASSUME UNCHANGED <<pc, batch, proposals>>
        PROVE  BatchesFilled'
    BY <1>1 DEF LogInv, BatchesFilled
  <1>2. ASSUME UNCHANGED finals
        PROVE  FinalsCount'
    BY <1>2 DEF LogInv, FinalsCount
  <1>3. ASSUME NEW n \in Node, NEW to, to # "propose", pc' = [pc EXCEPT ![n] = to],
               \A m \in Node \ {n} : batch'[m] = batch[m], UNCHANGED proposals
        PROVE  BatchesFilled'
    <2>1. pc'[n] = to /\ \A m \in Node : m # n => pc'[m] = pc[m]
      BY <1>3, ZenonT(60) DEF TypeOK
    <2> QED
      BY <1>3, <2>1, ZenonT(60) DEF LogInv, BatchesFilled
  <1>4. CASE UNCHANGED vars
    BY <1>1, <1>2, <1>4, ZenonT(60) DEF LogInv, vars, engineVars, busVars
  <1>5. ASSUME NEW n \in Node, Client(n)
        PROVE  LogInv'
    <2>1. UNCHANGED <<pc, batch, proposals, finals>>
      BY <1>5 DEF Client, Enqueue, Submit, AcceptEntry, Publish, busVars
    <2> QED
      BY <1>1, <1>2, <2>1, ZenonT(60) DEF LogInv
  <1>6. ASSUME NEW n \in Node,
               \/ Start(n) \/ PublishVRFProof(n) \/ Select(n) \/ SignOwn(n) \/ Accepts(n) \/ Quorum(n)
        PROVE  LogInv'
    <2>1. /\ \E to : to # "propose" /\ pc' = [pc EXCEPT ![n] = to]
          /\ UNCHANGED <<batch, proposals, finals>>
      BY <1>6 DEF Start, StartCycle, PublishVRFProof, AfterVRFProof, BusPublishVRFProof, Select,
         SelectProposer, Goto, SignOwn, AfterSign, BusPublishSig, Accepts, Quorum, CheckQuorum, busVars
    <2>2. PICK to : to # "propose" /\ pc' = [pc EXCEPT ![n] = to]
      BY <2>1, ZenonT(60)
    <2> QED
      BY <1>2, <1>3, <2>1, <2>2 DEF LogInv
  <1>7. ASSUME NEW n \in Node, Build(n)
        PROVE  LogInv'
    <2>1. /\ pc' = [pc EXCEPT ![n] = "propose"] /\ batch' = [batch EXCEPT ![n] = pool] /\ pool # {}
          /\ UNCHANGED <<proposals, finals>>
      BY <1>7 DEF Build, BuildCandidate, Goto, busVars
    <2>2. /\ batch'[n] = pool
          /\ \A m \in Node : m # n => pc'[m] = pc[m] /\ batch'[m] = batch[m]
      BY <2>1, ZenonT(60) DEF TypeOK
    <2>3. BatchesFilled'
      BY <2>1, <2>2 DEF LogInv, BatchesFilled
    <2> QED
      BY <1>2, <2>1, <2>3, ZenonT(60) DEF LogInv
  <1>8. ASSUME NEW n \in Node, Propose(n)
        PROVE  LogInv'
    <2> DEFINE c == Candidate(n)
    <2>1. /\ pc[n] = "propose" /\ pc' = [pc EXCEPT ![n] = "sign"] /\ UNCHANGED <<batch, finals>>
          /\ proposals' = proposals \/ proposals' = proposals \cup {c}
      BY <1>8, ZenonT(60) DEF Propose, AfterPropose, Goto, BusPropose
    <2>2. c.anchored = batch[n] /\ batch[n] # {}
      BY <2>1, CandidateTyped, ZenonT(60) DEF LogInv, BatchesFilled
    <2> HIDE DEF c
    <2>3. pc'[n] = "sign" /\ \A m \in Node : m # n => pc'[m] = pc[m]
      BY <2>1, ZenonT(60) DEF TypeOK
    <2>4. BatchesFilled'
      BY <2>1, <2>2, <2>3, ZenonT(60) DEF LogInv, BatchesFilled
    <2> QED
      BY <1>2, <2>1, <2>4, ZenonT(60) DEF LogInv
  <1>9. ASSUME NEW n \in Node, PublishFinal(n)
        PROVE  LogInv'
    <2>1. PICK b \in proposals, f \in FinalType :
              /\ f.index = cycle(n)
              /\ UNCHANGED <<proposals, batch>>
              /\ pc' = [pc EXCEPT ![n] = "append"]
              /\ \/ Final(cycle(n)) = {} /\ f \notin finals /\ finals' = finals \cup {f}
                 \/ \E g \in finals : g.index = f.index /\ finals' = (finals \ {g}) \cup {f}
      BY <1>9, PublishOutcome, ZenonT(60)
    <2> DEFINE k == Cardinality(finals)
    <2>2. k \in Nat /\ IsFiniteSet(finals) /\ (Final(cycle(n)) = {} => k = cycle(n))
      BY FinalHeights DEF LogInv, FinalsCount
    <2>3. {h.index : h \in finals} = 0..(k - 1)
      BY DEF LogInv, FinalsCount
    <2> HIDE DEF k
    <2>4. CASE Final(cycle(n)) = {} /\ f \notin finals /\ finals' = finals \cup {f}
      <3>1. IsFiniteSet(finals') /\ Cardinality(finals') = k + 1
        BY <2>2, <2>4, FS_AddElement, ZenonT(60) DEF k
      <3>2. {h.index : h \in finals'} = {h.index : h \in finals} \cup {k}
        BY <2>1, <2>2, <2>4, ZenonT(60)
      <3>3. {h.index : h \in finals'} = 0..((k + 1) - 1)
        BY <2>2, <2>3, <3>2, HeightsExtend, ZenonT(60)
      <3> QED
        BY <1>3, <2>1, <3>1, <3>3, ZenonT(60) DEF LogInv, FinalsCount
    <2>5. ASSUME NEW g \in finals, g.index = f.index, finals' = (finals \ {g}) \cup {f}
          PROVE  LogInv'
      <3>1. IsFiniteSet(finals \ {g}) /\ Cardinality(finals \ {g}) = k - 1
        BY <2>2, FS_RemoveElement DEF k
      <3>2. f \notin finals \ {g}
        BY <2>5 DEF CertInv, OneFinal
      <3>3. IsFiniteSet(finals') /\ Cardinality(finals') = (k - 1) + 1
        BY <2>5, <3>1, <3>2, FS_AddElement
      <3>4. {h.index : h \in finals'} = {h.index : h \in finals}
        BY <2>5
      <3>5. Cardinality(finals') = k
        BY <2>2, <3>3, SMTT(30)
      <3>6. FinalsCount'
        BY <2>3, <3>3, <3>4, <3>5, ZenonT(60) DEF FinalsCount
      <3>7. BatchesFilled'
        BY <1>3, <2>1
      <3> QED
        BY <3>6, <3>7, ZenonT(60) DEF LogInv
    <2> QED
      BY <2>1, <2>4, <2>5, ZenonT(60)
  <1>10. ASSUME NEW n \in Node, NEW f \in finals, Seals(n, f)
         PROVE  LogInv'
    <2>1. /\ pc' = [pc EXCEPT ![n] = "idle"] /\ batch' = [batch EXCEPT ![n] = {}]
          /\ UNCHANGED <<proposals, finals>>
      BY <1>10, ZenonT(60) DEF Seals, AppendsBlock
    <2>2. \A m \in Node \ {n} : batch'[m] = batch[m]
      BY <2>1 DEF TypeOK
    <2> QED
      BY <1>2, <1>3, <2>1, <2>2, ZenonT(60) DEF LogInv
  <1>11. ASSUME NEW n \in Node, RollsBack(n)
         PROVE  LogInv'
    <2>1. /\ pc' = [pc EXCEPT ![n] = "idle"] /\ batch' = [batch EXCEPT ![n] = {}]
          /\ UNCHANGED <<proposals, finals>>
      BY <1>11, ZenonT(60) DEF RollsBack, Aborts, Rollback, busVars
    <2>2. \A m \in Node \ {n} : batch'[m] = batch[m]
      BY <2>1 DEF TypeOK
    <2> QED
      BY <1>2, <1>3, <2>1, <2>2, ZenonT(60) DEF LogInv
  <1> QED
    BY <1>4, <1>5, <1>6, <1>7, <1>8, <1>9, <1>10, <1>11, CertCases, ZenonT(60)

\* The final blocks are the batches of a log, in every state.
THEOREM LogCorrect == Spec => []LogInv
  <1>1. TypeOK /\ ChainInv /\ ProposalInv /\ CertInv /\ LogInv /\ [Next]_vars => LogInv'
    BY LogInvNext
  <1> QED
    BY LogInvInit, TypeCorrect, ChainCorrect, ProposalCorrect, CertCorrect, <1>1, PTL DEF Spec

-----------------------------------------------------------------------------
\* The log and what a node has learned of it, as ImplementsBatchLog reads them.
FinalLog == [i \in 1..Cardinality(finals) |-> FinalBatch(i - 1)]

LearnedLogs == [n \in Node |-> [i \in DOMAIN blocks[n] |-> blocks[n][i].anchored]]

\* A batch of the log is what the final block of its height anchors.
LEMMA LogBatches ==
    ASSUME TypeOK, ChainInv, ProposalInv, CertInv, LogInv, NEW n \in Node
    PROVE  /\ FinalLog \in Seq(SUBSET Entry)
           /\ DOMAIN FinalLog = 1..Cardinality(finals) /\ Len(FinalLog) = Cardinality(finals)
           /\ Cardinality(finals) \in Nat
           /\ \A f \in finals : f.index + 1 \in DOMAIN FinalLog /\ FinalLog[f.index + 1] = f.anchored
           /\ \A i \in DOMAIN FinalLog : \E f \in finals : f.index = i - 1 /\ FinalLog[i] = f.anchored
  <1>1. /\ Cardinality(finals) \in Nat
        /\ \A f \in finals : f.index \in Nat /\ f.index < Cardinality(finals)
        /\ \A i \in Nat : i < Cardinality(finals) => \E f \in finals : f.index = i
    BY FinalHeights, ZenonT(60) DEF LogInv
  <1>2. \A f \in finals : FinalBatch(f.index) = f.anchored /\ f.anchored \in SUBSET Entry
    BY DEF FinalBatch, CertInv, OneFinal, TypeOK, FinalType
  <1>3. ASSUME NEW i \in 1..Cardinality(finals)
        PROVE  \E f \in finals : f.index = i - 1 /\ FinalBatch(i - 1) = f.anchored
    <2>1. i - 1 \in Nat /\ i - 1 < Cardinality(finals)
      BY <1>1, SMTT(30)
    <2> QED
      BY <1>1, <1>2, <2>1, ZenonT(60)
  <1>4. \A i \in 1..Cardinality(finals) : FinalBatch(i - 1) \in SUBSET Entry
    BY <1>2, <1>3
  <1>5. FinalLog \in Seq(SUBSET Entry) /\ Len(FinalLog) = Cardinality(finals)
    BY <1>1, <1>4, SMTT(30) DEF FinalLog
  <1>6. DOMAIN FinalLog = 1..Cardinality(finals)
        /\ \A i \in 1..Cardinality(finals) : FinalLog[i] = FinalBatch(i - 1)
    BY DEF FinalLog
  <1>7. ASSUME NEW f \in finals
        PROVE  f.index + 1 \in DOMAIN FinalLog /\ FinalLog[f.index + 1] = f.anchored
    <2>1. f.index + 1 \in 1..Cardinality(finals) /\ (f.index + 1) - 1 = f.index
      BY <1>1, SMTT(30)
    <2> QED
      BY <1>2, <1>6, <2>1, ZenonT(60)
  <1> QED
    BY <1>1, <1>3, <1>5, <1>6, <1>7, ZenonT(60)

\* A chain is a prefix of the log.
LEMMA LearnedPrefix ==
    ASSUME TypeOK, ChainInv, ProposalInv, CertInv, LogInv, NEW n \in Node
    PROVE  /\ LearnedLogs[n] \in Seq(SUBSET Entry) /\ Len(LearnedLogs[n]) = cycle(n)
           /\ \A i \in 1..cycle(n) : /\ LearnedLogs[n][i] = blocks[n][i].anchored
                                     /\ i \in DOMAIN FinalLog
                                     /\ LearnedLogs[n][i] = FinalLog[i]
  <1>1. cycle(n) \in Nat /\ DOMAIN blocks[n] = 1..cycle(n)
        /\ \A i \in 1..cycle(n) : blocks[n][i] \in FinalType
    BY SMTT(30) DEF TypeOK, cycle
  <1>2. LearnedLogs[n] = [i \in 1..cycle(n) |-> blocks[n][i].anchored]
    BY <1>1 DEF LearnedLogs
  <1>3. \A i \in 1..cycle(n) : blocks[n][i].anchored \in SUBSET Entry
    BY <1>1, ZenonT(60) DEF FinalType
  <1>4. LearnedLogs[n] \in Seq(SUBSET Entry) /\ Len(LearnedLogs[n]) = cycle(n)
    BY <1>1, <1>2, <1>3, SMTT(30)
  <1>5. ASSUME NEW i \in 1..cycle(n)
        PROVE  i \in DOMAIN FinalLog /\ blocks[n][i].anchored = FinalLog[i]
    <2>1. PICK f \in finals : f.index = i - 1 /\ blocks[n][i] = Sealed(f, Peers[n])
      BY <1>1 DEF CertInv, ChainCertified
    <2>2. f.index + 1 = i
      BY <2>1, SMTT(30)
    <2>3. blocks[n][i].anchored = f.anchored
      <3>1. PICK b \in proposals : SameBody(blocks[n][i], b) /\ blocks[n][i].index = i - 1
        BY <1>1 DEF ChainInv, ChainProposed
      <3>2. PICK c \in proposals : SameBody(f, c)
        BY DEF ChainInv, FinalsProposed
      <3>3. b = c
        BY <2>1, <3>1, <3>2, ZenonT(60) DEF SameBody, ChainInv, OneProposal
      <3> QED
        BY <3>1, <3>2, <3>3, ZenonT(60) DEF SameBody
    <2> QED
      BY <2>2, <2>3, LogBatches, ZenonT(60)
  <1> QED
    BY <1>2, <1>4, <1>5, ZenonT(60)

\* Publishing the first final block of a height decides a batch.  A second one, which
\* only a leader that could not commit publishes, decides the same and changes nothing.
LEMMA PublishDecides ==
    ASSUME TypeOK, ChainInv, ProposalInv, PoolInv, CertInv, LogInv, OneFinal',
           NEW n \in Node, PublishFinal(n)
    PROVE  [Log!LogNext]_(Log!logVars)
  <1>1. PICK b \in proposals, f \in FinalType :
            /\ SameBody(f, b) /\ f.index = cycle(n)
            /\ UNCHANGED <<blocks, proposals, accepted>>
            /\ \/ Final(cycle(n)) = {} /\ f \notin finals /\ finals' = finals \cup {f}
               \/ \E g \in finals : /\ g.index = f.index /\ g.anchored = f.anchored
                                    /\ finals' = (finals \ {g}) \cup {f}
    BY PublishOutcome
  <1>2. LearnedLogs' = LearnedLogs /\ accepted' = accepted
    BY <1>1, ZenonT(60) DEF LearnedLogs
  <1> DEFINE k == Cardinality(finals)
  <1>3. /\ k \in Nat /\ DOMAIN FinalLog = 1..k /\ FinalLog \in Seq(SUBSET Entry) /\ Len(FinalLog) = k
        /\ \A i \in 1..k : \E h \in finals : h.index = i - 1 /\ FinalLog[i] = h.anchored
    BY LogBatches, ZenonT(60)
  <1>4. IsFiniteSet(finals) /\ \A m \in Node : /\ cycle(m) \in Nat
                                               /\ cycle(m) <= k
                                               /\ Final(cycle(m)) = {} => k = cycle(m)
    BY FinalHeights DEF LogInv, FinalsCount
  <1>5. \A h \in finals' : (FinalBatch(h.index))' = h.anchored
    BY DEF FinalBatch, OneFinal
  <1>6. CASE Final(cycle(n)) = {} /\ f \notin finals /\ finals' = finals \cup {f}
    <2>1. Cardinality(finals') = k + 1 /\ k = cycle(n)
      BY <1>4, <1>6, FS_AddElement
    <2> HIDE DEF k
    <2>2. FinalLog' = [i \in 1..(k + 1) |-> (FinalBatch(i - 1))']
      BY <2>1 DEF FinalLog
    <2>3. ASSUME NEW i \in 1..k
          PROVE  (FinalBatch(i - 1))' = FinalLog[i]
      <3>1. PICK h \in finals : h.index = i - 1 /\ FinalLog[i] = h.anchored
        BY <1>3
      <3>2. h \in finals'
        BY <1>6
      <3> QED
        BY <1>5, <3>1, <3>2, ZenonT(60)
    <2>4. k = f.index /\ (FinalBatch(f.index))' = f.anchored
      BY <1>1, <1>5, <1>6, <2>1, ZenonT(60)
    <2>5. FinalLog' = Append(FinalLog, f.anchored)
      <3> DEFINE new == Append(FinalLog, f.anchored)
      <3>1. /\ new = [i \in 1..(k + 1) |-> new[i]]
            /\ \A i \in 1..k : new[i] = FinalLog[i]
            /\ new[k + 1] = f.anchored
        BY <1>3, SMTT(30)
      <3> HIDE DEF new
      <3>2. \A i \in 1..(k + 1) : (FinalBatch(i - 1))' = new[i]
        <4> SUFFICES ASSUME NEW i \in 1..(k + 1)
                     PROVE  (FinalBatch(i - 1))' = new[i]
          OBVIOUS
        <4>1. CASE i \in 1..k
          BY <2>3, <3>1, <4>1, ZenonT(60)
        <4>2. CASE i = k + 1
          <5>1. i - 1 = f.index
            BY <1>3, <2>4, <4>2, SMTT(30)
          <5> QED
            BY <2>4, <3>1, <4>2, <5>1, ZenonT(60)
        <4> QED
          BY <1>3, <4>1, <4>2, SMTT(30)
      <3>3. FinalLog' = new
        BY <2>2, <3>1, <3>2, ZenonT(60)
      <3> QED
        BY <3>3, ZenonT(60) DEF new
    <2>6. f.anchored # {} /\ f.anchored \subseteq accepted /\ f.anchored \in SUBSET Entry
      BY <1>1, ZenonT(60) DEF SameBody, LogInv, BatchesFilled, PoolInv, InFlightAccepted, TypeOK, FinalType
    <2>7. \A i \in DOMAIN FinalLog : f.anchored \cap FinalLog[i] = {}
      <3> SUFFICES ASSUME NEW i \in 1..k
                   PROVE  f.anchored \cap FinalLog[i] = {}
        BY <1>3
      <3>1. PICK h \in finals : h.index = i - 1 /\ FinalLog[i] = h.anchored
        BY <1>3
      <3>2. PICK c \in proposals : SameBody(h, c)
        BY DEF ChainInv, FinalsProposed
      <3>3. c.index # b.index
        <4>1. c.index = i - 1 /\ b.index = k
          BY <1>1, <2>1, <2>4, <3>1, <3>2 DEF SameBody
        <4> QED
          BY <1>3, <4>1, SMTT(30)
      <3> QED
        BY <1>1, <3>1, <3>2, <3>3, ZenonT(60) DEF SameBody, PoolInv, ProposalsDisjoint
    <2>8. \A m \in Node : LearnedLogs[m] = FinalLog
      <3> SUFFICES ASSUME NEW m \in Node
                   PROVE  LearnedLogs[m] = FinalLog
        OBVIOUS
      <3>1. cycle(m) = k
        <4>1. b.index <= cycle(m)
          BY DEF ProposalInv, ProposalFacts, cycle
        <4> QED
          BY <1>1, <1>3, <1>4, <2>1, <4>1, SMTT(30) DEF SameBody
      <3>2. /\ LearnedLogs[m] \in Seq(SUBSET Entry) /\ Len(LearnedLogs[m]) = k
            /\ \A i \in 1..k : LearnedLogs[m][i] = FinalLog[i]
        BY <3>1, LearnedPrefix, ZenonT(60)
      <3>3. LearnedLogs[m] = [i \in 1..k |-> LearnedLogs[m][i]]
        BY <3>2, SMTT(30)
      <3>4. FinalLog = [i \in 1..k |-> FinalLog[i]]
        BY <1>3, SMTT(30)
      <3> QED
        BY <3>2, <3>3, <3>4
    <2>9. Log!Decide(f.anchored)
      <3>1. Log!Decided = UNION {FinalLog[i] : i \in DOMAIN FinalLog}
        BY DEF Log!Decided, FinalLog
      <3>2. f.anchored \subseteq accepted \ Log!Decided
        BY <2>6, <2>7, <3>1
      <3> HIDE DEF Log!Decided
      <3> QED
        BY <1>2, <2>5, <2>6, <2>8, <3>2 DEF Log!Decide, FinalLog, LearnedLogs
    <2> QED
      BY <2>6, <2>9 DEF Log!LogNext
  <1>7. ASSUME NEW g \in finals, g.index = f.index, g.anchored = f.anchored,
               finals' = (finals \ {g}) \cup {f}
        PROVE  FinalLog' = FinalLog
    <2>1. Cardinality(finals') = k
      <3>1. IsFiniteSet(finals \ {g}) /\ Cardinality(finals \ {g}) = k - 1
        BY <1>4, FS_RemoveElement
      <3>2. f \notin finals \ {g}
        BY <1>7 DEF CertInv, OneFinal
      <3>3. Cardinality(finals') = (k - 1) + 1
        BY <1>7, <3>1, <3>2, FS_AddElement, ZenonT(60)
      <3> QED
        BY <1>3, <3>3, SMTT(30)
    <2> HIDE DEF k
    <2>2. FinalLog' = [i \in 1..k |-> (FinalBatch(i - 1))']
      BY <2>1 DEF FinalLog
    <2>3. ASSUME NEW i \in 1..k
          PROVE  (FinalBatch(i - 1))' = FinalLog[i]
      <3>1. PICK h \in finals : h.index = i - 1 /\ FinalLog[i] = h.anchored
        BY <1>3, ZenonT(60)
      <3>2. CASE h = g
        BY <1>5, <1>7, <3>1, <3>2, ZenonT(60)
      <3>3. CASE h # g
        BY <1>5, <1>7, <3>1, <3>3, ZenonT(60)
      <3> QED
        BY <3>2, <3>3, ZenonT(60)
    <2>4. FinalLog = [i \in 1..k |-> FinalLog[i]]
      BY <1>3, SMTT(30)
    <2> QED
      BY <2>2, <2>3, <2>4, ZenonT(60)
  <1>8. CASE FinalLog' = FinalLog
    BY <1>2, <1>8 DEF Log!logVars, FinalLog, LearnedLogs
  <1> QED
    BY <1>1, <1>6, <1>7, <1>8, ZenonT(60)

\* A commit learns the next batch.
LEMMA SealLearns ==
    ASSUME TypeOK, ChainInv, ProposalInv, CertInv, LogInv, NEW n \in Node, NEW f \in finals,
           Seals(n, f)
    PROVE  Log!Learn(n)
  <1> DEFINE s == Sealed(f, Peers[n])
             old == LearnedLogs[n]
             new == Append(old, f.anchored)
  <1>1. /\ f.index = cycle(n) /\ SameBody(s, f)
        /\ blocks' = [blocks EXCEPT ![n] = Append(@, s)] /\ UNCHANGED <<finals, accepted>>
    BY ZenonT(60) DEF Seals, AppendsBlock
  <1> HIDE DEF s
  <1>2. FinalLog' = FinalLog
    BY <1>1, SMTT(30) DEF FinalLog, FinalBatch
  <1>3. /\ cycle(n) \in Nat /\ Len(FinalLog) \in Nat /\ cycle(n) < Len(FinalLog)
        /\ FinalLog[cycle(n) + 1] = f.anchored
    BY <1>1, FinalHeights, LogBatches, ZenonT(60) DEF LogInv
  <1>4. /\ old \in Seq(SUBSET Entry) /\ Len(old) = cycle(n)
        /\ \A i \in 1..cycle(n) : old[i] = blocks[n][i].anchored
    BY LearnedPrefix, ZenonT(60)
  <1>5. /\ blocks'[n] = Append(blocks[n], s) /\ DOMAIN blocks'[n] = 1..(cycle(n) + 1)
        /\ blocks'[n][cycle(n) + 1] = s
        /\ \A i \in 1..cycle(n) : blocks'[n][i] = blocks[n][i]
        /\ \A m \in Node : m # n => blocks'[m] = blocks[m]
    BY <1>1, SMTT(30) DEF TypeOK, cycle
  <1> HIDE DEF old
  <1>6. /\ new = [i \in 1..(cycle(n) + 1) |-> new[i]] /\ new[cycle(n) + 1] = f.anchored
        /\ \A i \in 1..cycle(n) : new[i] = old[i]
    <2>1. cycle(n) \in Nat
      BY <1>3, ZenonT(60)
    <2>2. old \in Seq(SUBSET Entry) /\ Len(old) = cycle(n)
      BY <1>4, ZenonT(60)
    <2> QED
      BY <2>1, <2>2, SMTT(30)
  <1> HIDE DEF new
  <1>7. \A i \in 1..(cycle(n) + 1) : blocks'[n][i].anchored = new[i]
    <2> SUFFICES ASSUME NEW i \in 1..(cycle(n) + 1)
                 PROVE  blocks'[n][i].anchored = new[i]
      OBVIOUS
    <2>1. CASE i \in 1..cycle(n)
      BY <1>4, <1>5, <1>6, <2>1, ZenonT(60)
    <2>2. CASE i = cycle(n) + 1
      BY <1>1, <1>5, <1>6, <2>2, ZenonT(60) DEF SameBody
    <2> QED
      BY <1>3, <2>1, <2>2, SMTT(30)
  <1>8. LearnedLogs'[n] = new
    <2>1. LearnedLogs'[n] = [i \in 1..(cycle(n) + 1) |-> blocks'[n][i].anchored]
      BY <1>5 DEF LearnedLogs
    <2> QED
      BY <1>6, <1>7, <2>1, ZenonT(60)
  <1>9. \A m \in Node : m # n => LearnedLogs'[m] = LearnedLogs[m]
    BY <1>5 DEF LearnedLogs
  <1>10. LearnedLogs' = [LearnedLogs EXCEPT ![n] = new]
    BY <1>8, <1>9, ZenonT(60) DEF LearnedLogs
  <1>11. new = Append(old, FinalLog[Len(old) + 1]) /\ Len(old) < Len(FinalLog)
    BY <1>3, <1>4 DEF new
  <1>12. LearnedLogs' = [LearnedLogs EXCEPT ![n] = Append(@, FinalLog[Len(@) + 1])]
    BY <1>10, <1>11 DEF old
  <1> QED
    BY <1>1, <1>2, <1>11, <1>12, ZenonT(60) DEF Log!Learn, FinalLog, LearnedLogs, old

\* A step of the engines is a step of the log, or changes nothing of it.
LEMMA LogStep ==
    ASSUME TypeOK, ChainInv, ProposalInv, PoolInv, CertInv, LogInv, OneFinal', [Next]_vars
    PROVE  [Log!LogNext]_(Log!logVars)
  <1>1. ASSUME UNCHANGED <<blocks, finals, accepted>>
        PROVE  UNCHANGED Log!logVars
    BY <1>1, SMTT(30) DEF Log!logVars, FinalBatch
  <1>2. CASE UNCHANGED vars
    BY <1>1, <1>2 DEF vars, engineVars, busVars
  <1>3. ASSUME NEW n \in Node, Client(n)
        PROVE  [Log!LogNext]_(Log!logVars)
    <2>1. PICK e \in Entry : accepted' = accepted \cup {e} /\ UNCHANGED <<blocks, finals>>
      BY <1>3 DEF Client, Enqueue, Submit, AcceptEntry, Publish, busVars
    <2>2. CASE e \in accepted
      <3>1. accepted' = accepted
        BY <2>1, <2>2, ZenonT(60)
      <3> QED
        BY <1>1, <2>1, <3>1
    <2>3. CASE e \notin accepted
      BY <2>1, <2>3, SMTT(30) DEF Log!LogNext, Log!HandIn, FinalBatch
    <2> QED
      BY <2>2, <2>3, ZenonT(60)
  <1>4. ASSUME NEW n \in Node,
               \/ Start(n) \/ PublishVRFProof(n) \/ Select(n) \/ Build(n) \/ Propose(n)
               \/ SignOwn(n) \/ Accepts(n) \/ Quorum(n)
        PROVE  UNCHANGED Log!logVars
    <2>1. UNCHANGED <<blocks, finals, accepted>>
      BY <1>4, ZenonT(60) DEF Start, StartCycle, PublishVRFProof, AfterVRFProof, BusPublishVRFProof, Select,
         SelectProposer, Build, BuildCandidate, Propose, AfterPropose, BusPropose, SignOwn, AfterSign,
         BusPublishSig, Accepts, Quorum, CheckQuorum, busVars
    <2> QED
      BY <1>1, <2>1
  <1>5. ASSUME NEW n \in Node, RollsBack(n)
        PROVE  UNCHANGED Log!logVars
    <2>1. UNCHANGED <<blocks, finals, accepted>>
      BY <1>5, ZenonT(60) DEF RollsBack, Aborts, Rollback, busVars
    <2> QED
      BY <1>1, <2>1
  <1>6. ASSUME NEW n \in Node, NEW f \in finals, Seals(n, f)
        PROVE  Log!LogNext
    BY <1>6, SealLearns DEF Log!LogNext
  <1> QED
    BY <1>2, <1>3, <1>4, <1>5, <1>6, PublishDecides, CertCases, ZenonT(60)

\* The engines implement the log, for any number of validators and clients: whatever
\* aborts, timeouts and retries RunCycle goes through, there is one log of nonempty,
\* disjoint batches of accepted entries, decided one at a time, that every chain follows.
THEOREM LogRefined == Spec => ImplementsBatchLog
  <1>1. Init => Log!LogInit
    <2> SUFFICES ASSUME Init PROVE Log!LogInit
      OBVIOUS
    <2>1. Cardinality(finals) = 0 /\ accepted = {} /\ blocks = [n \in Node |-> <<>>]
      BY FS_EmptySet DEF Init, BusInit, EngineInit
    <2> QED
      BY <2>1, SMTT(30) DEF Log!LogInit
  <1>2. TypeOK /\ ChainInv /\ ProposalInv /\ PoolInv /\ CertInv /\ LogInv /\ CertInv' /\ [Next]_vars
            => [Log!LogNext]_(Log!logVars)
    <2>1. CertInv' => OneFinal'
      BY DEF CertInv
    <2> QED
      BY <2>1, LogStep
  <1> QED
    BY TypeCorrect, ChainCorrect, ProposalCorrect, PoolCorrect, CertCorrect, LogCorrect, <1>1, <1>2,
       PTL DEF Spec, ImplementsBatchLog, Log!LogSpec

=============================================================================
